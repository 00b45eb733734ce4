CONSTANTS
  web = web
  db = db
  job = job
  mail = mail
  ghost = ghost
  None = None
  Atone = Atone
  Service = {web}
  Name = {web}
  Pid = {p1, p2}
  DependsOn <- SingleDependsOn
  RestartPolicy <- SingleRestart
  Forking = {}
  OutsideSignals = {15}
  ExecMayFail = {web}
  OnBoot = {web}
  Scheduled = {}
SPECIFICATION FairSpec
PROPERTIES StopHonoured
