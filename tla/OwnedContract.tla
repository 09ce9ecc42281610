---------------------------- MODULE OwnedContract -----------------------------
(***************************************************************************)
(* The owner and the pause switch that every registry and predicate        *)
(* contract imports (contracts/lib/access/Ownable, lib/security/Pausable). *)
(* A circuit whose assert fails leaves the ledger as it was, so a failed   *)
(* call is a stuttering step and needs no action.                          *)
(***************************************************************************)
CONSTANTS
    Accounts,      \* coin public keys that may call
    Contracts,     \* contract addresses, which cannot own
    ZeroAccount,   \* the zero key
    None           \* no entry in a ledger Map

ASSUME AccountsAssumption ==
    /\ Accounts \cap Contracts = {}
    /\ ZeroAccount \notin Accounts \cup Contracts

VARIABLES owner, paused

owned == <<owner, paused>>

OwnedType == owner \in Accounts /\ paused \in BOOLEAN

\* Ownable_initialize refuses a contract address and the zero key.
OwnedInit == owner \in Accounts /\ paused = FALSE

AssertOnlyOwner(caller) == caller = owner
AssertNotPaused == ~paused

Pause(caller) ==
    /\ AssertOnlyOwner(caller) /\ AssertNotPaused
    /\ paused' = TRUE
    /\ UNCHANGED owner

Unpause(caller) ==
    /\ AssertOnlyOwner(caller) /\ paused
    /\ paused' = FALSE
    /\ UNCHANGED owner

MayOwn(account) == account \notin Contracts /\ account # ZeroAccount

TransferOwnership(caller, newOwner) ==
    /\ MayOwn(newOwner)
    /\ AssertOnlyOwner(caller)
    /\ owner' = newOwner
    /\ UNCHANGED paused

OwnedNext ==
    \E caller \in Accounts :
       \/ Pause(caller)
       \/ Unpause(caller)
       \/ \E to \in Accounts \cup Contracts \cup {ZeroAccount} : TransferOwnership(caller, to)
===============================================================================
