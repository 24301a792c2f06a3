SPECIFICATION MCSpec
CONSTANTS
  Off = Off
  None = None
  Module = {m1, m2}
  Caller = {a1, a2}
  Threshold = 2
  Window = 1
  QuarantineFor = 1
  MaxNow = 3
  Buffer = 1
  MaxCalls = 2
  Link = {k1, k2, k3}
  Kind = {"ssh", "sftp", "telnet", "rlogin", "rawsocket", "serial", "http", "powershell",
          "rdp", "vnc", "tn5250", "mosh"}
  Conn = {c1, c2}
  External = {c2}
  Handle = {h1, h2}
  Tab = {t1, t2}
  Opener = {o1}
  NoTab = NoTab
  NoConn = NoConn
  Bytes = {120, 255}
  Options = {1, 24, 31, 34}
  MaxItems = 2
  MaxFrames = 1
  Widths = {80, 255}
  Path = {home, a}
  Home = home
  Piece = {x}
  MaxPieces = 2
  MaxCmds = 3
  Dialer = {d1, d2}
  HostKey = {key1, key2, key3}
INVARIANTS
  HostsConsistent
  ServeClosesConnections
  
  DesktopConsistent
  StreamsIntact
  ReportedCopiesAreWhole
  HostKeysTrusted
PROPERTIES
  QuarantineEarned
  ImplementsCalls
  LostConnectionFailsCalls
  CloseWindsUp
  EndedSessionsLeave
CHECK_DEADLOCK FALSE
