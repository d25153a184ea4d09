------------------------- MODULE MCSessionRegistry -------------------------
(***************************************************************************)
(* Constants of the TLC runs of SessionRegistry.  A runtime directory is   *)
(* named by whose it is, NoUser's being the server's own.                  *)
(***************************************************************************)
EXTENDS SessionRegistry, TLC

CONSTANTS c1, c2, cli, s1, s2, alice, bob, daemon, command

\* One server process hosts both connections; the command line is another.
MCProcessOf == [c \in Conn |-> IF c = cli THEN command ELSE daemon]

MCDir == User \cup {NoUser}

\* The code's choice: with an authenticated user a compositor runs in that
\* user's /run/user/<uid>, without one in the server's directory.
MCUserDir == [u \in User \cup {NoUser} |-> u]

\* The same where the server was started from alice's login and has kept her
\* XDG_RUNTIME_DIR: her compositors are where it looks for them, bob's are not.
MCStartedByAlice == [MCUserDir EXCEPT ![alice] = NoUser]

\* Users and the connections of one process are interchangeable.
SymOwners == Permutations(User) \cup Permutations({c1, c2})
============================================================================
