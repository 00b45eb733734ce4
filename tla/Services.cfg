CONSTANTS
  web = web
  db = db
  job = job
  mail = mail
  ghost = ghost
  None = None
  Atone = Atone
  Service = {web, db, job}
  Name = {web, db, job}
  Pid = {p1, p2, p3, p4}
  DependsOn <- SharedDependsOn
  RestartPolicy <- SharedRestart
  Forking = {}
  OutsideSignals = {2, 17}
  ExecMayFail = {db}
  OnBoot = {web, job}
  Scheduled = {db, job}
SYMMETRY PidSymmetry
SPECIFICATION Spec
INVARIANTS OneInstance PolicyApplied BootComplete FaultsAreReal
PROPERTIES NoStartInShutdown DependenciesFirst
