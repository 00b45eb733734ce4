CONSTANTS
  web = web
  db = db
  job = job
  mail = mail
  ghost = ghost
  None = None
  Atone = Atone
  Service = {web}
  Name = {web}
  Pid = {p1, p2, p3}
  DependsOn <- SingleDependsOn
  RestartPolicy <- SingleRestart
  Forking = {web}
  OutsideSignals = {15}
  ExecMayFail = {}
  OnBoot = {web}
  Scheduled = {}
SPECIFICATION FairSpec
PROPERTIES ShutdownCompletes ZombiesReaped AlwaysRestarted
