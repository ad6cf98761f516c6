------------------------------ MODULE ConsoleMC ------------------------------
(***************************************************************************)
(* Instances of the Telegram poller and of its console, and of the         *)
(* account that the console's calls and all others end at, with callers    *)
(* one after another.  The parts share no state here, so each behaviour is *)
(* one of one part, chosen at the start, while the others rest.            *)
(***************************************************************************)
EXTENDS TelegramPoller, TelegramConsole, UserLifecycleMC

CONSTANTS ann, bob

VARIABLE part

AdminNamesDef == <<"chief", "shop">>
BoundDef == <<"x", "y">>

\* Names are interchangeable.
Perms == Permutations({ann, bob})

ConsoleInit ==
    /\ part \in {"poller", "console", "lifecycle"}
    /\ PollInit /\ ChatInit /\ Init
    /\ part # "poller" => ~envSudo
    /\ part # "console" => \A n \in Names : accounts[n] = NoAccount

ConsoleNext ==
    /\ UNCHANGED part
    /\ \/ part = "poller" /\ PollNext /\ UNCHANGED <<chatVars, vars>>
       \/ part = "console" /\ ChatNext /\ UNCHANGED <<pollVars, vars>>
       \/ part = "lifecycle" /\ Next /\ UNCHANGED <<pollVars, chatVars>>

ConsoleSpec == ConsoleInit /\ [][ConsoleNext]_<<part, pollVars, chatVars, vars>>
=============================================================================
