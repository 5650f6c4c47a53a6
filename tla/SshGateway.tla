----------------------------- MODULE SshGateway -----------------------------
(***************************************************************************)
(* The SSH gateway, cmd/tollgate-auth-ssh, with                            *)
(* TOLLGATE_VM_MODE=firecracker: a login whose user name is a Cashu token  *)
(* pays for a shell in a machine of VmHost, or in a chroot jail when the   *)
(* machine cannot be had.  The HTTP client and the vsock dialer between    *)
(* the two, internal/firecracker and internal/vsock, are part of the       *)
(* actions that call them.  In delegated mode sessiond verifies and        *)
(* redeems in one request: Verify and Redeem with nothing in between.      *)
(*                                                                         *)
(* A tick is the longest that one dial attempt takes, 5.5 s: a Unix socket *)
(* connects at once, the handshake has 5 s and the pause is half a second. *)
(* A request that fcd serves is answered in the same tick; the client      *)
(* gives up after 30 s, and the request may be served afterwards.          *)
(***************************************************************************)
EXTENDS VmHost

CONSTANTS
    Sessions,     \* SSH sessions
    Tokens,       \* the tokens that they log in with
    Paid,         \* what a token pays for, in ticks
    MaxAttempts,  \* dial attempts: 10, 55 s together
    Margin,       \* what fcd is asked for beyond the paid time: 60 s
    VmFallback,   \* vmFallback # "false"
    DirectTTLs,   \* lifetimes that other clients of fcd ask for
    NoToken

ASSUME GatewayAssumption ==
    /\ Paid \in Nat \ {0} /\ MaxAttempts \in Nat \ {0} /\ Margin \in Nat
    /\ MaxAttempts < Margin
    /\ VmFallback \in BOOLEAN /\ DirectTTLs \subseteq Nat
    /\ NoToken \notin Tokens

Pcs == {"idle", "verified", "posting", "dialing", "giveup", "bridged",
        "closing", "jail", "starting", "shell", "over"}

VARIABLES
    ses,       \* the handler of each session
    redeemed,  \* tokens that the wallet has received
    jails,     \* jail directories
    litter     \* history: jails that a failed copy, a failed removal or a dead
               \* gateway left

gatewayVars == <<ses, redeemed, jails, litter>>
vars == <<hostVars, gatewayVars>>

\* What a handler holds: where it is; its token, which names the guest and so
\* the jail; its POST and the machine that came of it; the dial attempts, and
\* whether a tick has passed in this one; when its timer fires.
Handler == [pc : Pcs, token : Tokens \cup {NoToken}, vm : Vms \cup {NoVm},
            post : {"none", "sent", "served", "failed"},
            attempts : 0..MaxAttempts, waited : BOOLEAN, endsAt : Nat]

Fresh == [pc |-> "idle", token |-> NoToken, vm |-> NoVm, post |-> "none",
          attempts |-> 0, waited |-> FALSE, endsAt |-> 0]

Goto(s, label) == ses' = [ses EXCEPT ![s].pc = label]

\* The handler h has returned.  A POST that it sent may still reach fcd.
Returned(h) == [Fresh EXCEPT !.pc = "over", !.post = IF h.post = "sent" THEN "sent" ELSE "none"]
Return(s) == ses' = [ses EXCEPT ![s] = Returned(ses[s])]

\* No machine: the chroot, or an error for the user.
Fallback(s) ==
    ses' = [ses EXCEPT ![s] =
               IF VmFallback THEN [Returned(@) EXCEPT !.pc = "jail", !.token = ses[s].token]
                             ELSE Returned(@)]

\* Decode, the amount and the state of the token's proofs at the mint.
Verify(s, t) ==
    /\ ses[s].pc = "idle"
    /\ t \notin redeemed
    /\ ses' = [ses EXCEPT ![s].pc = "verified", ![s].token = t]
    /\ UNCHANGED <<redeemed, jails, litter>> /\ UNCHANGED hostVars

\* Mutant of Redeems: a failed redemption is ignored.
RedeemsAlways(s) == ses[s].token \in Tokens

\* cdk-cli receives a token once.
Redeems(s) == ses[s].token \notin redeemed

\* The token is redeemed and a machine asked for.
Redeem(s) ==
    /\ ses[s].pc = "verified" /\ Redeems(s)
    /\ redeemed' = redeemed \cup {ses[s].token}
    /\ ses' = [ses EXCEPT ![s].pc = "posting", ![s].post = "sent"]
    /\ UNCHANGED <<jails, litter>> /\ UNCHANGED hostVars

\* Any reason to refuse; a redemption that fails may have taken the token.
Reject(s) ==
    /\ \/ ses[s].pc = "idle" /\ redeemed' = redeemed
       \/ ses[s].pc = "verified" /\ redeemed' \in {redeemed, redeemed \cup {ses[s].token}}
    /\ Return(s)
    /\ UNCHANGED <<jails, litter>> /\ UNCHANGED hostVars

\* Mutant of TTLSeconds: the machine lives as long as was paid for.
TTLSecondsBare == Paid

TTLSeconds == Paid + Margin

\* fcd serves the POST; nobody may be waiting for the answer.
Served(s, v, result) ==
    ses' = [ses EXCEPT ![s].post = IF @ = "sent" /\ ses[s].pc = "posting" THEN result ELSE "none",
                       ![s].vm = IF ses[s].pc = "posting" /\ result = "served" THEN v ELSE @]

Serve(s, v) ==
    /\ ses[s].post = "sent"
    /\ \/ createVM(v, TTLSeconds) /\ Served(s, v, "served")
       \/ createFails(v) /\ Served(s, v, "failed")
    /\ UNCHANGED <<redeemed, jails, litter>>

\* CreateVM returns with the machine, or with an error or after 30 s.
Answer(s) ==
    /\ ses[s].pc = "posting"
    /\ \/ ses[s].post = "served" /\ ses' = [ses EXCEPT ![s].pc = "dialing", ![s].post = "none"]
       \/ Fallback(s)
    /\ UNCHANGED <<redeemed, jails, litter>> /\ UNCHANGED hostVars

\* The agent in the machine answers; the session's timer starts.
Dial(s) ==
    /\ ses[s].pc = "dialing"
    /\ ses[s].vm \in procs \cap dirs
    /\ ses' = [ses EXCEPT ![s].pc = "bridged", ![s].endsAt = now + Paid,
                          ![s].waited = FALSE, ![s].attempts = 0]
    /\ UNCHANGED <<redeemed, jails, litter>> /\ UNCHANGED hostVars

DialFails(s) ==
    /\ ses[s].pc = "dialing"
    /\ ses' = [ses EXCEPT ![s].attempts = @ + 1, ![s].waited = FALSE,
                          ![s].pc = IF ses[s].attempts + 1 = MaxAttempts THEN "giveup" ELSE @]
    /\ UNCHANGED <<redeemed, jails, litter>> /\ UNCHANGED hostVars

\* The timer fires, the machine's end closes, or the client has left.
BridgeEnds(s) ==
    /\ ses[s].pc = "bridged"
    /\ Goto(s, "closing")
    /\ UNCHANGED <<redeemed, jails, litter>> /\ UNCHANGED hostVars

\* DestroyVM: its DELETE arrives or is lost, and its error is ignored.
Delete(s) ==
    /\ \/ ses[s].pc = "closing" /\ Return(s)
       \/ ses[s].pc = "giveup" /\ Fallback(s)
    /\ \/ destroyVM(ses[s].vm)
       \/ UNCHANGED hostVars
    /\ UNCHANGED <<redeemed, jails, litter>>

\* createJail; a copy that fails can leave a part of the jail.
CreateJail(s) ==
    /\ ses[s].pc = "jail"
    /\ \/ jails' = jails \cup {ses[s].token} /\ UNCHANGED litter /\ Goto(s, "starting")
       \/ jails' = jails \cup {ses[s].token} /\ litter' = litter \cup {ses[s].token} /\ Return(s)
       \/ UNCHANGED <<jails, litter>> /\ Return(s)
    /\ UNCHANGED redeemed /\ UNCHANGED hostVars

\* rm -rf, whose error is dropped.
cleanupJail(s) ==
    \/ jails' = jails \ {ses[s].token} /\ UNCHANGED litter
    \/ UNCHANGED jails /\ litter' = litter \cup {ses[s].token}

\* pty.Start, whose failure removes the jail.
StartShell(s) ==
    /\ ses[s].pc = "starting"
    /\ \/ Goto(s, "shell") /\ UNCHANGED <<jails, litter>>
       \/ Return(s) /\ cleanupJail(s)
    /\ UNCHANGED redeemed /\ UNCHANGED hostVars

\* The shell exits, its output cannot be written or its timer fires; the
\* handler and the timer share one cleanup, which runs once.
ShellEnds(s) ==
    /\ ses[s].pc = "shell"
    /\ Return(s)
    /\ cleanupJail(s)
    /\ UNCHANGED redeemed /\ UNCHANGED hostVars

\* server.Close and the end of main, or a crash: no session is cleaned up.
GatewayExit ==
    /\ ses' = [s \in Sessions |-> IF ses[s].pc = "idle" THEN Fresh ELSE Returned(ses[s])]
    /\ litter' = litter \cup jails
    /\ UNCHANGED <<redeemed, jails>> /\ UNCHANGED hostVars

\* POST /vms by another client, with a token or without: the token is redeemed
\* first, and a machine that cannot be made does not give it back.  A redemption
\* that fails makes no machine, and may have taken the token.
DirectPost(v) ==
    /\ redeemed' \in {redeemed} \cup {redeemed \cup {t} : t \in Tokens \ redeemed}
    /\ \/ \E ttl \in DirectTTLs : createVM(v, ttl)
       \/ createFails(v)
       \/ UNCHANGED hostVars
    /\ UNCHANGED <<ses, jails, litter>>

\* A dial attempt lasts a tick at most, and an answer of fcd arrives in its tick.
Tick ==
    /\ now < MaxTime
    /\ \A s \in Sessions : ~ses[s].waited /\ ses[s].post # "served"
    /\ now' = now + 1
    /\ ses' = [s \in Sessions |-> [ses[s] EXCEPT !.waited = ses[s].pc = "dialing"]]
    /\ UNCHANGED <<vms, ipCounter, calls, procs, taps, dirs, fcd, used, orphans, stuck>>
    /\ UNCHANGED <<redeemed, jails, litter>>

Init ==
    /\ HostInit
    /\ ses = [s \in Sessions |-> Fresh]
    /\ redeemed = {} /\ jails = {} /\ litter = {}

Next ==
    \/ hostNext /\ UNCHANGED gatewayVars
    \/ \E v \in Vms : DirectPost(v) \/ \E s \in Sessions : Serve(s, v)
    \/ \E s \in Sessions :
           \/ \E t \in Tokens : Verify(s, t)
           \/ Redeem(s) \/ Reject(s) \/ Answer(s) \/ Dial(s) \/ DialFails(s)
           \/ BridgeEnds(s) \/ Delete(s) \/ CreateJail(s) \/ StartShell(s) \/ ShellEnds(s)
    \/ GatewayExit
    \/ Tick

\* Time passes; a TTL goroutine that is due runs; calls with a timeout return.
Fairness ==
    /\ WF_vars(Tick)
    /\ \A v \in Vms : WF_vars(ttlElapsed(v) /\ UNCHANGED gatewayVars)
    /\ \A s \in Sessions : WF_vars(Answer(s)) /\ WF_vars(DialFails(s))

Spec == Init /\ [][Next]_vars /\ Fairness

-----------------------------------------------------------------------------
(* Properties.                                                             *)

TypeOK ==
    /\ HostTypeOK
    /\ ses \in [Sessions -> Handler]
    /\ redeemed \subseteq Tokens /\ jails \subseteq redeemed /\ litter \subseteq redeemed

\* A jail belongs to one session, is there while its shell runs and no longer,
\* although sessions with the same token race for it; what a failed copy, a
\* failed removal or a dead gateway left is the exception.
JailsMatchSessions ==
    LET jailed == {s \in Sessions : ses[s].pc \in {"starting", "shell"}} IN
    /\ \A s, r \in jailed : ses[s].token = ses[r].token => s = r
    /\ \A s \in jailed : ses[s].token \in jails
    /\ jails \subseteq litter \cup {ses[s].token : s \in jailed}

\* A session that was bridged to its machine in time is not cut off by fcd's
\* clock: until the paid time is over its machine stops only by itself, or with
\* the daemon.
SessionKeepsVm ==
    [][\A s \in Sessions :
          ses[s].pc = "bridged" /\ now < ses[s].endsAt /\ ses[s].vm \in procs
              => \/ ses[s].vm \in procs'
                 \/ vmExits(ses[s].vm)
                 \/ destroyAllVMs
                 \/ ses'[s].pc # "bridged"]_vars

\* A machine with a lifetime ends, although its gateway died, gave up waiting
\* for it or lost the DELETE; the exception is one whose daemon died.
MachinesEnd ==
    \A v \in Vms : (v \in Known /\ vms[v].ttl > 0) ~> (v \notin procs \/ v \in orphans)

=============================================================================
