CONSTANTS
  web = web
  db = db
  job = job
  mail = mail
  ghost = ghost
  None = None
  Atone = Atone
  Service = {web, db}
  Name = {web, db}
  Pid = {p1, p2, p3}
  DependsOn <- ChainDependsOn
  RestartPolicy <- OnceRestart
  Forking = {}
  OutsideSignals = {}
  ExecMayFail = {}
  OnBoot = {web, db}
  Scheduled = {}
SYMMETRY PidSymmetry
SPECIFICATION Spec
PROPERTIES NeverRestarted
