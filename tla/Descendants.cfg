CONSTANTS
  web = web
  db = db
  job = job
  mail = mail
  ghost = ghost
  None = None
  Atone = Atone
  Service = {web, db, mail}
  Name = {web, db, mail, ghost}
  Pid = {p1, p2, p3}
  DependsOn <- UnstartableDependsOn
  RestartPolicy <- UnstartableRestart
  Forking = {None, web}
  OutsideSignals = {10, 15}
  ExecMayFail = {}
  OnBoot = {web}
  Scheduled = {db, mail}
SYMMETRY PidSymmetry
SPECIFICATION Spec
INVARIANTS TypeOK UnstartableNeverRun NoLostChild NothingLeftBehind
PROPERTIES TermBeforeKill
