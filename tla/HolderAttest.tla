----------------------------- MODULE HolderAttest -----------------------------
(***************************************************************************)
(* How a wallet gets a predicate attested (sdk/src/midnight/orchestrator   *)
(* ensureCredentialPredicatesAttested): look the key up, run the compiled  *)
(* circuit on a snapshot the indexer served, prove, relay through the      *)
(* verification service and the sidecar, follow the job's event stream,    *)
(* and prove again when the chain refused the proof.                       *)
(*                                                                         *)
(* A compiled circuit (sdk/src/midnight/contracts/<kind>/index.js) does    *)
(* not change the ledger: it leaves a transcript of what it read and would *)
(* write.  The chain replays the transcript, on the ledger of that moment. *)
(* `Contract' is the on-chain contract with its circuits atomic; replayed  *)
(* stale transcripts must not take it anywhere else.                       *)
(***************************************************************************)
EXTENDS Integers, Sequences

CONSTANTS
    Holders,      \* presentations under way: tabs and devices
    Roots, Claims, ZeroRoot, ZeroBytes,
    Ask,          \* what the verifier's query asks for, per predicate
    Months,       \* first days of successive months, YYYYMM01
    Operator, ZeroAccount, None,
    Families,     \* the contracts of this deployment
    TreeCapacity,
    MaxAttempts,  \* MAX_ATTEST_ATTEMPTS
    MaxRestarts, MaxPauses   \* bounds

VARIABLES
    chain,      \* the predicate contract's ledger
    indexer,    \* the ledger as the indexer last served it
    month,      \* index of the current month
    credential, \* the owl_root each presentation is about, fixed
    run,        \* the locals of each presentation and its job in the sidecar
    outcome,    \* how it ended, and the key it speaks of
    floating,   \* transactions nobody watches any more
    up, restarts, pauses

world == <<chain, indexer, month, up, restarts, pauses, credential>>
attestRunVars == <<world, run, outcome, floating>>

NoTx == [key |-> None, nullifier |-> None, member |-> FALSE, count |-> 0]
At(step) ==
    [step |-> step, attempt |-> 0, asOf |-> 0, tx |-> NoTx, job |-> "none",
     status |-> "none", aborted |-> FALSE]
Undecided == [what |-> "none", key |-> None]
-----------------------------------------------------------------------------
\* The compiled circuits: what the asserts demand of the witness, which the
\* wallet takes from the credential, the key and the nullifier.
Circuit(ok, k, root, param, nullifier) ==
    [ok |-> root # ZeroRoot /\ ok, key |-> <<k, root, param>>, nullifier |-> nullifier]

\* Arguments outside their Uint<16> and Uint<32> types do not enter a circuit.
Uint16(n) == n >= 0 /\ n <= 65535
Uint32(n) == n >= 0 /\ n \div 2 <= 2147483647
Before(dob, day, years) == day >= years * 10000 /\ dob <= day - years * 10000

attestAgeGte(root, day) ==
    Circuit(/\ Uint16(Ask.threshold) /\ Uint32(day) /\ Ask.threshold <= 150
            /\ Before(Claims[root]["birthdate"], day, Ask.threshold),
            "age", root, <<Ask.threshold, day>>, None)

attestAgeRange(root, day) ==
    Circuit(/\ Uint16(Ask.minAge) /\ Uint16(Ask.maxAge) /\ Uint32(day)
            /\ Ask.minAge <= Ask.maxAge /\ Ask.maxAge <= 150
            /\ Before(Claims[root]["birthdate"], day, Ask.minAge)
            /\ day >= Ask.maxAge * 10000
            /\ Claims[root]["birthdate"] >= day - Ask.maxAge * 10000,
            "age_range", root, <<Ask.minAge, Ask.maxAge, day>>, None)

attestKycGte(root, day) ==
    Circuit(Uint16(Ask.level) /\ Claims[root]["verification_level"] >= Ask.level,
            "kyc", root, Ask.level, None)

attestEmailVerified(root, day) ==
    Circuit(Claims[root]["email_verified"] >= 1, "email", root, ZeroBytes, None)

attestNationalityIn(root, day) ==
    Circuit(/\ Claims[root]["nationality"] # ZeroBytes
            /\ Claims[root]["nationality"] \in Ask.countries,
            "nationality", root, <<Ask.verifier, Ask.countries>>, None)

attestResidencyIn(root, day) ==
    Circuit(/\ Claims[root]["residentCountry"] # ZeroBytes
            /\ Claims[root]["residentCountry"] \in Ask.countries,
            "residency", root, <<Ask.verifier, Ask.countries>>, None)

attestUniquePersonhood(root, day) ==
    Circuit(TRUE, "personhood", root, <<Ask.epoch, Ask.app>>,
            <<Claims[root]["personhoodSecret"], Ask.epoch, Ask.app>>)

CircuitFor(h, day) ==
    LET root == credential[h] IN
    CASE chain.kind = "age" -> attestAgeGte(root, day)
      [] chain.kind = "age_range" -> attestAgeRange(root, day)
      [] chain.kind = "kyc" -> attestKycGte(root, day)
      [] chain.kind = "email" -> attestEmailVerified(root, day)
      [] chain.kind = "nationality" -> attestNationalityIn(root, day)
      [] chain.kind = "residency" -> attestResidencyIn(root, day)
      [] chain.kind = "personhood" -> attestUniquePersonhood(root, day)

\* A run on the ledger `seen': the pause switch and the nullifier are asserted,
\* whether the key is already a member decides what record() writes.
Runs(h, day, seen) ==
    LET c == CircuitFor(h, day) IN c.ok /\ ~seen.paused /\ c.nullifier \notin seen.nullifiers
Transcript(h, day, seen) ==
    LET c == CircuitFor(h, day) IN
    [key |-> c.key, nullifier |-> c.nullifier,
     member |-> c.key \in seen.attestations, count |-> seen.attestCount]

\* Replay on the chain: every recorded read must give the recorded result.
MutReadsAgree(t) == ~chain.paused  \* mutant: only the pause switch is read again
ReadsAgree(t) ==
    /\ ~chain.paused
    /\ (t.key \in chain.attestations) = t.member
    /\ t.nullifier \notin chain.nullifiers
    /\ t.member \/ Len(chain.attestTree) < TreeCapacity

Written(t) ==
    [chain EXCEPT
       !.attestations = @ \cup {t.key},
       !.attestTree = IF t.member THEN @ ELSE Append(@, t.key),
       !.attestCount = IF t.member THEN @ ELSE @ + 1,
       !.nullifiers = IF t.nullifier = None THEN @ ELSE @ \cup {t.nullifier}]

\* The node may also refuse a transcript because the tree has moved since.
MayRefuse(t) == ~ReadsAgree(t) \/ chain.attestCount # t.count
-----------------------------------------------------------------------------
AttestRunInit ==
    /\ \E k \in Families :
          chain = [kind |-> k, attestations |-> {}, attestTree |-> <<>>, attestCount |-> 0,
                   nullifiers |-> {}, owner |-> Operator, paused |-> FALSE]
    /\ indexer = chain
    /\ month = 1
    /\ credential \in [Holders -> Roots]
    /\ \E start \in [Holders -> {"check", "done"}] : run = [h \in Holders |-> At(start[h])]
    /\ outcome = [h \in Holders |-> Undecided]
    /\ floating = {}
    /\ up = TRUE /\ restarts = 0 /\ pauses = 0

\* The key the verification service derives, with the month of its own clock.
KeyNow(h) == CircuitFor(h, Months[month]).key

\* /predicates/attested: the mirrored keys, or the sidecar's ledger on a miss.
isAttested(h) == KeyNow(h) \in indexer.attestations

\* The call returns or throws; a job it started goes on without it.
End(h, what, key) ==
    /\ run' = [run EXCEPT ![h] = At("done")]
    /\ outcome' = [outcome EXCEPT ![h] = [what |-> what, key |-> key]]
    /\ floating' = IF run[h].job = "inflight" THEN floating \cup {run[h].tx} ELSE floating
    /\ UNCHANGED world
Becomes(h, next) ==
    run' = [run EXCEPT ![h] = next] /\ UNCHANGED <<outcome, floating, world>>

\* The up-front lookup.  A predicate the credential cannot satisfy is skipped;
\* a failed request fails the presentation.  The age check on this day's date
\* refuses nobody the circuit would accept.
Satisfiable(h) ==
    chain.kind \in {"kyc", "email", "nationality", "residency"} => CircuitFor(h, Months[month]).ok
Check(h) ==
    /\ run[h].step = "check"
    /\ \/ ~Satisfiable(h) /\ End(h, "skipped", None)
       \/ Satisfiable(h) /\ isAttested(h) /\ End(h, "already", KeyNow(h))
       \/ Satisfiable(h) /\ ~isAttested(h) /\ Becomes(h, [run[h] EXCEPT !.step = "args"])
       \/ End(h, "failed", None)

\* The circuit's arguments are fixed once, for all attempts.
Args(h) ==
    /\ run[h].step = "args"
    /\ IF run[h].aborted THEN End(h, "aborted", None)
       ELSE Becomes(h, [run[h] EXCEPT !.step = "prove", !.attempt = 1, !.asOf = Months[month]])

\* Snapshot and proof.  Whatever fails here skips the predicate.
Prove(h) ==
    /\ run[h].step = "prove"
    /\ \/ /\ Runs(h, run[h].asOf, indexer)
          /\ Becomes(h, [run[h] EXCEPT !.step = "relay",
                                       !.tx = Transcript(h, run[h].asOf, indexer)])
       \/ End(h, "skipped", None)

\* The last moment to cancel.  The answer to the POST may be lost although the
\* sidecar took the job.
MutCancelled(h) == FALSE  \* mutant: proving cannot be interrupted, and nobody looks after it
Cancelled(h) == run[h].aborted
Relay(h) ==
    /\ run[h].step = "relay"
    /\ \/ Cancelled(h) /\ End(h, "aborted", None)
       \/ /\ ~Cancelled(h) /\ up
          /\ Becomes(h, [run[h] EXCEPT !.step = "stream", !.job = "inflight", !.status = "none"])
       \/ ~Cancelled(h) /\ End(h, "failed", None)
       \/ /\ ~Cancelled(h) /\ up
          /\ run' = [run EXCEPT ![h] = At("done")]
          /\ outcome' = [outcome EXCEPT ![h] = [what |-> "failed", key |-> None]]
          /\ floating' = floating \cup {run[h].tx}
          /\ UNCHANGED world

\* streamPredicateStatus: a dropped connection is opened again, and the job's
\* record is its first event.  A job the sidecar has lost is `unknown' while the
\* sidecar connects to the chain, and waited for until the budget ends later on.
JobEnds == {"SucceedEntirely", "FailFallible", "submit-failed", "unknown"}
Stream(h) ==
    /\ run[h].step = "stream"
    /\ \/ /\ ~run[h].aborted /\ up /\ run[h].job \in JobEnds
          /\ Becomes(h, [run[h] EXCEPT !.step = "after", !.status = run[h].job, !.job = "none"])
       \/ run[h].aborted /\ End(h, "aborted", None)

\* An error frame, an answer of 4xx (the verification service gives one while the
\* sidecar is unreachable) or too many reconnects.
StreamFails(h) == run[h].step = "stream" /\ ~run[h].aborted /\ End(h, "failed", None)

\* The five minute budget.
MutBudget(h) == FALSE  \* mutant: the stream is waited for without a limit
Budget(h) == run[h].step = "stream" /\ End(h, "timeout", None)

\* What the terminal status means for the presentation.
MutLanded(h) == run[h].status # "FailFallible"  \* mutant: any other end counts as success
Landed(h) == run[h].status = "SucceedEntirely"
After(h) ==
    /\ run[h].step = "after"
    /\ \/ run[h].aborted /\ End(h, "aborted", None)
       \/ ~run[h].aborted /\ Landed(h) /\ End(h, "attested", run[h].tx.key)
       \/ ~run[h].aborted /\ ~Landed(h) /\ isAttested(h) /\ End(h, "already", KeyNow(h))
       \/ ~run[h].aborted /\ ~Landed(h) /\ End(h, "failed", None)  \* the lookup fails
       \/ /\ ~run[h].aborted /\ ~Landed(h) /\ ~isAttested(h)
          /\ IF run[h].status = "FailFallible" /\ run[h].attempt < MaxAttempts
               THEN Becomes(h, [run[h] EXCEPT !.step = "prove", !.attempt = @ + 1])
               ELSE End(h, "failed", None)

Cancel(h) ==
    /\ run[h].step # "done" /\ ~run[h].aborted
    /\ Becomes(h, [run[h] EXCEPT !.aborted = TRUE])

HolderStep(h) == Check(h) \/ Args(h) \/ Prove(h) \/ Relay(h) \/ Stream(h) \/ Budget(h) \/ After(h)
-----------------------------------------------------------------------------
JobBecomes(h, end) == run' = [run EXCEPT ![h].job = end]

\* The relayed transaction reaches a block, or the sidecar gives it up, in
\* which case it may still be on its way.
Include(h) ==
    /\ run[h].job = "inflight" /\ up
    /\ \/ /\ ReadsAgree(run[h].tx) /\ chain' = Written(run[h].tx)
          /\ JobBecomes(h, "SucceedEntirely") /\ UNCHANGED floating
       \/ /\ MayRefuse(run[h].tx) /\ JobBecomes(h, "FailFallible")
          /\ UNCHANGED <<chain, floating>>
       \/ /\ JobBecomes(h, "submit-failed")
          /\ floating' \in {floating, floating \cup {run[h].tx}}
          /\ UNCHANGED chain
    /\ UNCHANGED <<credential, outcome, indexer, month, up, restarts, pauses>>

IncludeUnwatched(t) ==
    /\ floating' = floating \ {t}
    /\ chain' = IF ReadsAgree(t) THEN Written(t) ELSE chain
    /\ UNCHANGED <<credential, run, outcome, indexer, month, up, restarts, pauses>>

\* The job table is in memory only.
SidecarStops ==
    /\ up /\ restarts < MaxRestarts
    /\ up' = FALSE /\ restarts' = restarts + 1
    /\ floating' = floating \cup {run[h].tx : h \in {g \in Holders : run[g].job = "inflight"}}
    /\ run' = [h \in Holders |->
                 IF run[h].job = "none" THEN run[h] ELSE [run[h] EXCEPT !.job = "unknown"]]
    /\ UNCHANGED <<credential, outcome, chain, indexer, month, pauses>>

SidecarStarts ==
    /\ ~up /\ up' = TRUE
    /\ UNCHANGED <<credential, run, outcome, floating, chain, indexer, month, restarts, pauses>>

IndexerCatchesUp ==
    /\ indexer # chain /\ indexer' = chain
    /\ UNCHANGED <<credential, run, outcome, floating, chain, month, up, restarts, pauses>>

\* Only the keys of the age contracts depend on the month.
MonthTurns ==
    /\ chain.kind \in {"age", "age_range"}
    /\ month < Len(Months) /\ month' = month + 1
    /\ UNCHANGED <<credential, run, outcome, floating, chain, indexer, up, restarts, pauses>>

PauseSwitch ==
    /\ chain.paused \/ pauses < MaxPauses
    /\ chain' = [chain EXCEPT !.paused = ~@]
    /\ pauses' = IF chain.paused THEN pauses ELSE pauses + 1
    /\ UNCHANGED <<credential, run, outcome, floating, indexer, month, up, restarts>>

AttestRunNext ==
    \/ \E h \in Holders : HolderStep(h) \/ StreamFails(h) \/ Cancel(h) \/ Include(h)
    \/ \E t \in floating : IncludeUnwatched(t)
    \/ SidecarStops \/ SidecarStarts \/ IndexerCatchesUp \/ MonthTurns \/ PauseSwitch

AttestRunSpec == AttestRunInit /\ [][AttestRunNext]_attestRunVars

-----------------------------------------------------------------------------
\* The contract with atomic circuits, on the same ledger.
Contract == INSTANCE PredicateContract WITH
    kind <- chain.kind, attestations <- chain.attestations, attestTree <- chain.attestTree,
    attestCount <- chain.attestCount, nullifiers <- chain.nullifiers,
    owner <- chain.owner, paused <- chain.paused,
    Accounts <- {Operator}, Contracts <- {},
    Thresholds <- {Ask.threshold, Ask.minAge, Ask.maxAge}, Levels <- {Ask.level},
    AsOf <- {Months[i] : i \in DOMAIN Months}, CountrySets <- {Ask.countries},
    Verifiers <- {Ask.verifier}, Epochs <- {Ask.epoch}, Apps <- {Ask.app}

ASSUME AttestAssumption ==
    /\ Families \subseteq Contract!Kinds
    /\ Months \in Seq(Nat) /\ Months # <<>>
    /\ {Ask.threshold, Ask.minAge, Ask.maxAge} \subseteq Nat
    /\ \A r \in Roots : /\ Claims[r]["birthdate"] \in Nat
                         /\ <<Claims[r]["personhoodSecret"], Ask.epoch, Ask.app>> # None

\* Replaying transcripts that were made on old ledgers, in any order, twice or
\* after everybody has given up on them, does to the ledger what some sequence
\* of atomic circuit calls does.
ReplayIsAtomic == Contract!AttestSpec

\* A presentation that ends with its predicate attested, by its own proof or
\* by another one, speaks of a key that is on the chain.
ReportedOnChain ==
    \A h \in Holders :
       outcome[h].what \in {"already", "attested"} => outcome[h].key \in chain.attestations

\* Once the holder has cancelled, their presentation relays nothing more,
\* although proving cannot be interrupted and may be one of several attempts.
NothingAfterCancel ==
    [][\A h \in Holders :
          run[h].aborted /\ run[h].step # "stream" => run'[h].step # "stream"]_attestRunVars

\* Every presentation ends, whatever the chain, the sidecar and the indexer do.
PresentationEnds == \A h \in Holders : <>(run[h].step = "done")
===============================================================================
