------------------------------- MODULE MCSidecar ------------------------------
(***************************************************************************)
(* TLC instance of three parts of the sidecar that share no state: the     *)
(* relay path, the chain client and the dust registration.  A behaviour    *)
(* runs one of them, which `part' names; the others stay idle, with no     *)
(* contract on the chain and no NIGHT in the wallet.                       *)
(***************************************************************************)
EXTENDS RelayService, SidecarClient, DustRegistration

VARIABLE part

MCJoinOrder == <<"issuer", "revocation", "age">>

ClientIdle ==
    /\ onChain = {} /\ supervised = FALSE /\ client = 0 /\ loop = "ended"
    /\ object = [o \in Objects |-> Fresh] /\ delay = 1 /\ faults = 0
DustIdle ==
    /\ coin = [c \in Coins |-> "absent"] /\ inFlight = <<>> /\ since = 0
    /\ queued = MaxQueued /\ section = "idle" /\ failures = 0

\* A part that does not run has nothing enabled: its fairness asks for nothing.
MCInit ==
    /\ ServiceInit
    /\ part \in {"relay", "client", "dust"}
    /\ IF part = "client" THEN ClientInit ELSE ClientIdle
    /\ IF part = "dust" THEN DustInit ELSE DustIdle

MCNext ==
    /\ UNCHANGED part
    /\ \/ part = "relay" /\ ServiceNext /\ UNCHANGED <<clientVars, dustVars>>
       \/ part = "client" /\ ClientNext /\ UNCHANGED <<serviceVars, dustVars>>
       \/ part = "dust" /\ DustNext /\ UNCHANGED <<serviceVars, clientVars>>

MCSpec ==
    /\ MCInit /\ [][MCNext]_<<serviceVars, clientVars, dustVars, part>>
    /\ ServiceFair /\ ClientFair /\ DustFair
===============================================================================
