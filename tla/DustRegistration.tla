--------------------------- MODULE DustRegistration ---------------------------
(***************************************************************************)
(* The wallet supervisor's registration of NIGHT for dust generation: a    *)
(* tick every DUST_REGISTER_INTERVAL_MS queues a section behind the        *)
(* single-writer serializer, unless a registration is recent.              *)
(*   wallet-supervisor.ts: serialize, dustRegistrationLoop                 *)
(*   wallet.ts: registerNightForDust                                       *)
(*                                                                         *)
(* The guard is read when the tick fires and lastRegistrationAt is written *)
(* when the section ends, which may be many sections later.                *)
(***************************************************************************)
EXTENDS Integers, Sequences, SequencesExt

CONSTANTS
    Coins,       \* NIGHT outputs that arrive at the wallet
    Guard,       \* REGISTRATION_FINALIZATION_GUARD_MS, in ticks
    MaxQueued,   \* bound: dust sections waiting in the serializer
    MaxInFlight, \* bound: registrations that are not final
    MaxFailures  \* bound: failed, lost or restarted registrations

ASSUME DustAssumption ==
    Guard \in Nat /\ MaxQueued \in Nat \ {0} /\ MaxInFlight \in Nat /\ MaxFailures \in Nat

VARIABLES
    coin,      \* on chain: "absent", "unregistered" or "registered"
    inFlight,  \* the registrations submitted and not final, each a set of coins
    since,     \* ticks since lastRegistrationAt, Guard + 1 when long ago or null
    queued,    \* dust sections waiting in writeChain
    section,   \* "free", "other" (a submit or a reap) or "registering"
    failures

dustVars == <<coin, inFlight, since, queued, section, failures>>

Unregistered == {c \in Coins : coin[c] = "unregistered"}

\* A new supervisor ticks at once.
DustInit ==
    /\ coin \in [Coins -> {"absent", "unregistered"}]
    /\ inFlight = <<>> /\ since = Guard + 1
    /\ queued = 1 /\ section = "free" /\ failures = 0

Failure == failures < MaxFailures /\ failures' = failures + 1

MutElapsed == since  \* mutant: a registration is recent for ever
Elapsed == IF since <= Guard THEN since + 1 ELSE since

\* The interval fires: the early return of dustRegistrationLoop, or one section.
\* When the guard ends within the last millisecond the clock decides.
Tick ==
    /\ queued < MaxQueued
    /\ since' = Elapsed
    /\ \/ since' <= Guard /\ UNCHANGED queued
       \/ since' >= Guard /\ queued' = queued + 1
    /\ UNCHANGED <<coin, inFlight, section, failures>>

\* The section reads the wallet's state and returns when all is registered.
StartSection ==
    /\ section = "free" /\ queued > 0
    /\ queued' = queued - 1
    /\ section' = IF Unregistered = {} THEN "free" ELSE "registering"
    /\ UNCHANGED <<coin, inFlight, since, failures>>

\* registerNightForDust reads the state again; with nothing left to register it
\* answers as if it had registered.
registerNightForDust ==
    /\ section = "registering" /\ section' = "free"
    /\ \/ /\ Len(inFlight) < MaxInFlight
          /\ inFlight' = IF Unregistered = {} THEN inFlight ELSE Append(inFlight, Unregistered)
          /\ since' = 0 /\ UNCHANGED failures
       \/ Failure /\ UNCHANGED <<inFlight, since>>   \* not in sync, or refused
    /\ UNCHANGED <<coin, queued>>

OtherSection ==
    /\ section = "free" /\ section' = "other"
    /\ UNCHANGED <<coin, inFlight, since, queued, failures>>

OtherEnds ==
    /\ section = "other" /\ section' = "free"
    /\ UNCHANGED <<coin, inFlight, since, queued, failures>>

\* External: the chain, which registers a coin once, and a lost transaction.
Finalized(i) ==
    /\ coin' = [c \in Coins |-> IF c \in inFlight[i] THEN "registered" ELSE coin[c]]
    /\ inFlight' = RemoveAt(inFlight, i)
    /\ UNCHANGED <<since, queued, section, failures>>

Lost(i) ==
    /\ Failure
    /\ inFlight' = RemoveAt(inFlight, i)
    /\ UNCHANGED <<coin, since, queued, section>>

Settles == \E i \in DOMAIN inFlight : Finalized(i) \/ Lost(i)

TopUp ==
    /\ \E c \in Coins : coin[c] = "absent" /\ coin' = [coin EXCEPT ![c] = "unregistered"]
    /\ UNCHANGED <<inFlight, since, queued, section, failures>>

Restarts ==
    /\ Failure
    /\ since' = Guard + 1 /\ queued' = 1 /\ section' = "free"
    /\ UNCHANGED <<coin, inFlight>>

DustNext ==
    \/ Tick \/ StartSection \/ registerNightForDust \/ OtherSection \/ OtherEnds
    \/ Settles \/ TopUp \/ Restarts

DustSpec == DustInit /\ [][DustNext]_dustVars

\* Intervals fire; writeChain runs every section it was given, in order, so one
\* that waits is not passed over for ever; the chain settles what it was sent.
DustFair ==
    /\ WF_dustVars(Tick) /\ SF_dustVars(StartSection)
    /\ WF_dustVars(registerNightForDust) /\ WF_dustVars(OtherEnds) /\ WF_dustVars(Settles)

(***************************************************************************)
(* Properties                                                              *)
(***************************************************************************)
\* "A top-up sent to fix 'wallet dust running low' sits idle" without this loop:
\* with it, NIGHT that arrives is registered, although a registration may fail,
\* get lost after lastRegistrationAt was set, or be cut off by a restart.
TopUpRegistered == \A c \in Coins : coin[c] = "unregistered" ~> coin[c] = "registered"
===============================================================================
