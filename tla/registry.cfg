SPECIFICATION FairSpec
CONSTANTS
    c1 = c1
    c2 = c2
    cli = cli
    s1 = s1
    s2 = s2
    alice = alice
    bob = bob
    daemon = daemon
    command = command
    NoUser = NoUser
    NoSession = NoSession
    InitProcess = InitProcess
    Dir <- MCDir
    Conn = {c1, cli}
    Cli = {cli}
    Session = {s1}
    Legacy = {}
    User = {alice, bob}
    Process = {daemon, command}
    Display = {1}
    StartApps = {"none", "polite", "deaf", "stuck"}
    RequireAuth = TRUE
    EncoderCanFail = TRUE
    ProcessOf <- MCProcessOf
    RuntimeDirOf <- MCStartedByAlice
INVARIANT RegistrySafety
PROPERTY RunningEndsOnRequest
PROPERTY OnlyOwnerSignals
PROPERTY ClosesEnd
