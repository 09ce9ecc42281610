----------------------------- MODULE HolderProofs -----------------------------
(***************************************************************************)
(* The holder's side, for any number of presentations, credentials,        *)
(* months, attempts and restarts, any session times, cards and requests.   *)
(*                                                                         *)
(* The attestation run: replayed transcripts do what atomic circuit calls  *)
(* do, a success speaks of a key on the chain, and a cancel holds.  A      *)
(* transcript outlives the presentation that made it, so what is known of  *)
(* it must not depend on the presentation: it is that of a circuit whose   *)
(* asserts held, for some credential and some month.                       *)
(*                                                                         *)
(* The unlock session: no timer locks the wallet under a prompt, the       *)
(* expiry timer only a whole Ttl after the unlock.                         *)
(*                                                                         *)
(* The presentation through the SDK: what the wallet sends, the service    *)
(* refuses for one of four reasons only.                                   *)
(***************************************************************************)
EXTENDS HolderAttest, WalletSession, SdkExchange, WellFoundedInduction, TLAPS

\* The values have the fields they start with.
LedgerShape ==
    chain = [kind |-> chain.kind, attestations |-> chain.attestations,
             attestTree |-> chain.attestTree, attestCount |-> chain.attestCount,
             nullifiers |-> chain.nullifiers, owner |-> chain.owner, paused |-> chain.paused]

\* The keys and nullifiers of circuits whose asserts held, for some presentation
\* and month.  The kind of contract and the credentials are fixed, so it is too.
Accepted == {p \in Holders \X DOMAIN Months : CircuitFor(p[1], Months[p[2]]).ok}
Made == {<<CircuitFor(p[1], Months[p[2]]).key, CircuitFor(p[1], Months[p[2]]).nullifier>> : p \in Accepted}

-----------------------------------------------------------------------------
\* What Written does to each field.
LEMMA WrittenFields ==
    ASSUME LedgerShape, NEW t, chain' = Written(t)
    PROVE  /\ LedgerShape'
           /\ chain'.kind = chain.kind /\ chain'.owner = chain.owner /\ chain'.paused = chain.paused
           /\ chain'.attestations = chain.attestations \cup {t.key}
           /\ chain'.attestTree = IF t.member THEN chain.attestTree ELSE Append(chain.attestTree, t.key)
           /\ chain'.attestCount = IF t.member THEN chain.attestCount ELSE chain.attestCount + 1
           /\ chain'.nullifiers = IF t.nullifier = None THEN chain.nullifiers
                                  ELSE chain.nullifiers \cup {t.nullifier}
  BY Zenon DEF LedgerShape, Written

\* A transcript whose reads agree writes what record does.
LEMMA ReplayRecords ==
    ASSUME LedgerShape, NEW t, ReadsAgree(t), chain' = Written(t)
    PROVE  Contract!record(t.key)
  BY WrittenFields, Zenon DEF ReadsAgree, Contract!record

\* The seven kinds of circuit.
LEMMA ReplayAttests ==
    ASSUME LedgerShape, chain.kind \in Families, credential \in [Holders -> Roots],
           NEW t, <<t.key, t.nullifier>> \in Made, ReadsAgree(t), chain' = Written(t)
    PROVE  Contract!Attest
<1>1. PICK h \in Holders, i \in DOMAIN Months :
         /\ CircuitFor(h, Months[i]).ok
         /\ t.key = CircuitFor(h, Months[i]).key
         /\ t.nullifier = CircuitFor(h, Months[i]).nullifier
  BY DEF Made, Accepted
<1> DEFINE root == credential[h] day == Months[i]
<1>2. root \in Roots /\ day \in {Months[j] : j \in DOMAIN Months}
  OBVIOUS
<1>3. Contract!record(t.key)
  BY ReplayRecords
<1>4. /\ chain'.kind = chain.kind /\ chain'.owner = chain.owner /\ chain'.paused = chain.paused
      /\ chain'.nullifiers = IF t.nullifier = None THEN chain.nullifiers
                             ELSE chain.nullifiers \cup {t.nullifier}
      /\ ~chain.paused /\ t.nullifier \notin chain.nullifiers
  BY WrittenFields, Zenon DEF ReadsAgree
<1>5. \A c : Claims[root][c] \in Contract!Witness(c)
  BY <1>2 DEF Contract!Witness
<1>n. /\ day \in Nat /\ Claims[root]["birthdate"] \in Nat
      /\ Ask.threshold \in Nat /\ Ask.minAge \in Nat /\ Ask.maxAge \in Nat
  BY <1>2, AttestAssumption
<1> DEFINE c == CircuitFor(h, day)
<1>6. c.ok /\ t.key = c.key /\ t.nullifier = c.nullifier
  BY <1>1
<1> HIDE DEF root, day, c
<1>7. CASE chain.kind = "age"
  <2>1. c = attestAgeGte(root, day)
    BY <1>7 DEF c, root, CircuitFor
  <2>a. /\ root # ZeroRoot /\ Ask.threshold <= 150
        /\ Before(Claims[root]["birthdate"], day, Ask.threshold)
        /\ t.key = <<"age", root, <<Ask.threshold, day>>>> /\ t.nullifier = None
    BY <1>6, <2>1, Zenon DEF attestAgeGte, Circuit
  <2>b. Contract!OldEnough(Claims[root]["birthdate"], day, Ask.threshold)
    BY <2>a, <1>n DEF Before, Contract!OldEnough
  <2>2. Contract!attestAgeGte(root, Ask.threshold, day, Claims[root]["birthdate"])
    BY <1>3, <1>4, <1>7, <2>a, <2>b
       DEF Contract!attestAgeGte, Contract!MaxAge,
           Contract!Entry, Contract!AssertNotPaused, Contract!Committed, Contract!keyOf, Contract!owned
  <2> QED
    BY <1>2, <1>5, <2>2 DEF Contract!Attest
<1>8. CASE chain.kind = "age_range"
  <2>1. c = attestAgeRange(root, day)
    BY <1>8 DEF c, root, CircuitFor
  <2>a. /\ root # ZeroRoot /\ Ask.minAge <= Ask.maxAge /\ Ask.maxAge <= 150
        /\ Before(Claims[root]["birthdate"], day, Ask.minAge)
        /\ day >= Ask.maxAge * 10000 /\ Claims[root]["birthdate"] >= day - Ask.maxAge * 10000
        /\ t.key = <<"age_range", root, <<Ask.minAge, Ask.maxAge, day>>>> /\ t.nullifier = None
    <3> DEFINE X == /\ Uint16(Ask.minAge) /\ Uint16(Ask.maxAge) /\ Uint32(day)
                    /\ Ask.minAge <= Ask.maxAge /\ Ask.maxAge <= 150
                    /\ Before(Claims[root]["birthdate"], day, Ask.minAge)
                    /\ day >= Ask.maxAge * 10000
                    /\ Claims[root]["birthdate"] >= day - Ask.maxAge * 10000
    <3>1. c = Circuit(X, "age_range", root, <<Ask.minAge, Ask.maxAge, day>>, None)
      BY <2>1 DEF attestAgeRange
    <3> HIDE DEF X
    <3>2. /\ root # ZeroRoot /\ X
          /\ t.key = <<"age_range", root, <<Ask.minAge, Ask.maxAge, day>>>> /\ t.nullifier = None
      BY <1>6, <3>1, Zenon DEF Circuit
    <3> QED
      BY <3>2, <1>n DEF X
  <2>b. Contract!InRange(Claims[root]["birthdate"], day, Ask.minAge, Ask.maxAge)
    BY <2>a, <1>n DEF Before, Contract!InRange, Contract!OldEnough, Contract!YoungEnough
  <2>2. Contract!attestAgeRange(root, Ask.minAge, Ask.maxAge, day, Claims[root]["birthdate"])
    BY <1>3, <1>4, <1>8, <2>a, <2>b
       DEF Contract!attestAgeRange, Contract!MaxAge,
           Contract!Entry, Contract!AssertNotPaused, Contract!Committed, Contract!keyOf, Contract!owned
  <2> QED
    BY <1>2, <1>5, <2>2 DEF Contract!Attest
<1>9. CASE chain.kind = "kyc"
  <2>1. c = attestKycGte(root, day)
    BY <1>9 DEF c, root, CircuitFor
  <2>2. Contract!attestKycGte(root, Ask.level, Claims[root]["verification_level"])
    BY <1>3, <1>4, <1>6, <1>9, <2>1, Zenon
       DEF attestKycGte, Contract!attestKycGte,
           Circuit, Contract!Entry, Contract!AssertNotPaused, Contract!Committed, Contract!keyOf, Contract!owned
  <2> QED
    BY <1>2, <1>5, <2>2 DEF Contract!Attest
<1>10. CASE chain.kind = "email"
  <2>1. c = attestEmailVerified(root, day)
    BY <1>10 DEF c, root, CircuitFor
  <2>2. Contract!attestEmailVerified(root, Claims[root]["email_verified"])
    BY <1>3, <1>4, <1>6, <1>10, <2>1, Zenon
       DEF attestEmailVerified, Contract!attestEmailVerified,
           Circuit, Contract!Entry, Contract!AssertNotPaused, Contract!Committed, Contract!keyOf, Contract!owned
  <2> QED
    BY <1>2, <1>5, <2>2 DEF Contract!Attest
<1>11. CASE chain.kind = "nationality"
  <2>1. c = attestNationalityIn(root, day)
    BY <1>11 DEF c, root, CircuitFor
  <2>2. Contract!attestNationalityIn(root, Ask.verifier, Ask.countries, Claims[root]["nationality"])
    BY <1>3, <1>4, <1>6, <1>11, <2>1, Zenon
       DEF attestNationalityIn, Contract!attestNationalityIn, Contract!AttestCountryIn,
           Contract!Present, Contract!Leaves,
           Circuit, Contract!Entry, Contract!AssertNotPaused, Contract!Committed, Contract!keyOf, Contract!owned
  <2> QED
    BY <1>2, <1>5, <2>2 DEF Contract!Attest
<1>12. CASE chain.kind = "residency"
  <2>1. c = attestResidencyIn(root, day)
    BY <1>12 DEF c, root, CircuitFor
  <2>2. Contract!attestResidencyIn(root, Ask.verifier, Ask.countries, Claims[root]["residentCountry"])
    BY <1>3, <1>4, <1>6, <1>12, <2>1, Zenon
       DEF attestResidencyIn, Contract!attestResidencyIn, Contract!AttestCountryIn,
           Contract!Present, Contract!Leaves,
           Circuit, Contract!Entry, Contract!AssertNotPaused, Contract!Committed, Contract!keyOf, Contract!owned
  <2> QED
    BY <1>2, <1>5, <2>2 DEF Contract!Attest
<1>13. CASE chain.kind = "personhood"
  <2>1. c = attestUniquePersonhood(root, day)
    BY <1>13 DEF c, root, CircuitFor
  <2>2. Contract!attestUniquePersonhood(root, Ask.epoch, Ask.app, Claims[root]["personhoodSecret"])
    BY <1>2, <1>3, <1>4, <1>6, <1>13, <2>1, AttestAssumption, Zenon
       DEF attestUniquePersonhood, Contract!attestUniquePersonhood, Contract!nullifier,
           Circuit, Contract!Entry, Contract!AssertNotPaused, Contract!Committed, Contract!keyOf, Contract!owned
  <2> QED
    BY <1>2, <1>5, <2>2 DEF Contract!Attest
<1> QED
  BY <1>7, <1>8, <1>9, <1>10, <1>11, <1>12, <1>13, AttestAssumption, Zenon DEF Contract!Kinds
-----------------------------------------------------------------------------
\* What is known of a presentation.  The transcript matters from the relay on.
LocalNames == {"step", "attempt", "asOf", "tx", "job", "status", "aborted"}
RunOK(r) ==
    /\ DOMAIN r = LocalNames
    /\ r.step \in {"prove", "relay", "stream", "after"} => \E i \in DOMAIN Months : r.asOf = Months[i]
    /\ r.step \in {"relay", "stream"} => <<r.tx.key, r.tx.nullifier>> \in Made
    /\ r.job # "none" => r.step = "stream"
    /\ r.job = "SucceedEntirely" => r.tx.key \in chain.attestations
    /\ r.step = "after" /\ r.status = "SucceedEntirely" => r.tx.key \in chain.attestations

WorldOK ==
    /\ LedgerShape
    /\ chain.kind \in Families /\ chain.owner = Operator /\ chain.paused \in BOOLEAN
    /\ indexer.attestations \subseteq chain.attestations
    /\ credential \in [Holders -> Roots]
    /\ month \in DOMAIN Months

RunsOK == run = [h \in Holders |-> run[h]] /\ \A h \in Holders : RunOK(run[h])

OutcomesOK == outcome = [h \in Holders |-> outcome[h]] /\ ReportedOnChain

AttestInv ==
    /\ WorldOK /\ RunsOK /\ OutcomesOK
    /\ \A t \in floating : <<t.key, t.nullifier>> \in Made

\* What the circuits accept does not change.
LEMMA MadeStays ==
    ASSUME chain'.kind = chain.kind, credential' = credential
    PROVE  Made' = Made
<1>1. \A h, d : CircuitFor(h, d)' = CircuitFor(h, d)
  BY DEF CircuitFor
<1> QED
  BY <1>1 DEF Made, Accepted

\* A presentation ends.
LEMMA EndKeeps ==
    ASSUME AttestInv, NEW h \in Holders, NEW what, NEW key, End(h, what, key),
           what \in {"already", "attested"} => key \in chain.attestations
    PROVE  AttestInv'
<1>1. WorldOK' /\ Made' = Made
  BY MadeStays DEF AttestInv, End, world, WorldOK, LedgerShape
<1>2. RunsOK'
  BY <1>1, Zenon DEF AttestInv, End, world, RunsOK, RunOK, LocalNames, At
<1>3. OutcomesOK'
  BY DEF AttestInv, End, world, OutcomesOK, ReportedOnChain
<1>4. \A t \in floating' : <<t.key, t.nullifier>> \in Made'
  BY <1>1, Zenon DEF AttestInv, End, RunsOK, RunOK
<1> QED
  BY <1>1, <1>2, <1>3, <1>4 DEF AttestInv

\* A presentation goes on.
LEMMA BecomesKeeps ==
    ASSUME AttestInv, NEW h \in Holders, NEW next, RunOK(next), Becomes(h, next)
    PROVE  AttestInv'
<1>1. WorldOK' /\ Made' = Made
  BY MadeStays DEF AttestInv, Becomes, world, WorldOK, LedgerShape
<1>2. RunsOK'
  BY <1>1 DEF AttestInv, Becomes, world, RunsOK, RunOK
<1>3. OutcomesOK'
  BY DEF AttestInv, Becomes, world, OutcomesOK, ReportedOnChain
<1> QED
  BY <1>1, <1>2, <1>3 DEF AttestInv, Becomes

\* What a presentation does on its own.
LEMMA HolderKeeps ==
    ASSUME AttestInv, NEW h \in Holders, HolderStep(h) \/ StreamFails(h) \/ Cancel(h)
    PROVE  AttestInv'
<1>1. RunOK(run[h])
  BY DEF AttestInv, RunsOK
<1>2. isAttested(h) => KeyNow(h) \in chain.attestations
  BY DEF AttestInv, WorldOK, isAttested
<1>3. CASE Check(h)
  <2> DEFINE q == [run[h] EXCEPT !.step = "args"]
  <2>1. DOMAIN q = LocalNames /\ q.step = "args" /\ q.job = run[h].job
    BY <1>1 DEF RunOK, LocalNames
  <2> HIDE DEF q
  <2>2. run[h].step = "check" => RunOK(q)
    BY <1>1, <2>1 DEF RunOK
  <2> QED
    BY <1>2, <1>3, <2>2, EndKeeps, BecomesKeeps DEF Check, q
<1>4. CASE Args(h)
  <2> DEFINE q == [run[h] EXCEPT !.step = "prove", !.attempt = 1, !.asOf = Months[month]]
  <2>1. DOMAIN q = LocalNames /\ q.step = "prove" /\ q.asOf = Months[month] /\ q.job = run[h].job
    BY <1>1 DEF RunOK, LocalNames
  <2>2. month \in DOMAIN Months
    BY DEF AttestInv, WorldOK
  <2> HIDE DEF q
  <2>3. run[h].step = "args" => RunOK(q)
    BY <1>1, <2>1, <2>2 DEF RunOK
  <2> QED
    BY <1>4, <2>3, EndKeeps, BecomesKeeps DEF Args, q
<1>5. CASE Prove(h)
  <2>1. CASE End(h, "skipped", None)
    BY <2>1, EndKeeps
  <2>2. CASE /\ Runs(h, run[h].asOf, indexer)
             /\ Becomes(h, [run[h] EXCEPT !.step = "relay", !.tx = Transcript(h, run[h].asOf, indexer)])
    <3> DEFINE new == Transcript(h, run[h].asOf, indexer)
               q == [run[h] EXCEPT !.step = "relay", !.tx = new]
    <3>1. PICK i \in DOMAIN Months : run[h].asOf = Months[i]
      BY <1>1, <1>5 DEF Prove, RunOK
    <3>2. /\ CircuitFor(h, Months[i]).ok
          /\ new.key = CircuitFor(h, Months[i]).key
          /\ new.nullifier = CircuitFor(h, Months[i]).nullifier
      BY <2>2, <3>1 DEF Runs, Transcript
    <3>3. <<h, i>> \in Accepted
      BY <3>2 DEF Accepted
    <3>4. <<new.key, new.nullifier>> \in Made
      BY <3>2, <3>3 DEF Made
    <3> HIDE DEF new
    <3>5. DOMAIN q = LocalNames /\ q.step = "relay" /\ q.tx = new /\ q.asOf = run[h].asOf
          /\ q.job = run[h].job
      BY <1>1 DEF RunOK, LocalNames
    <3> HIDE DEF q
    <3>6. RunOK(q)
      BY <1>1, <1>5, <3>1, <3>4, <3>5 DEF RunOK, Prove
    <3> QED
      BY <2>2, <3>6, BecomesKeeps DEF new, q
  <2> QED
    BY <1>5, <2>1, <2>2 DEF Prove
<1>6. CASE Relay(h)
  <2> DEFINE q == [run[h] EXCEPT !.step = "stream", !.job = "inflight", !.status = "none"]
  <2>1. DOMAIN q = LocalNames /\ q.step = "stream" /\ q.job = "inflight" /\ q.tx = run[h].tx
        /\ q.asOf = run[h].asOf
    BY <1>1 DEF RunOK, LocalNames
  <2> HIDE DEF q
  <2>2. RunOK(q)
    BY <1>1, <1>6, <2>1 DEF RunOK, Relay
  <2>3. CASE /\ run' = [run EXCEPT ![h] = At("done")]
             /\ outcome' = [outcome EXCEPT ![h] = [what |-> "failed", key |-> None]]
             /\ floating' = floating \cup {run[h].tx}
             /\ UNCHANGED world
    <3>1. WorldOK' /\ Made' = Made
      BY <2>3, MadeStays DEF AttestInv, world, WorldOK, LedgerShape
    <3>2. RunsOK'
      BY <2>3, <3>1, Zenon DEF AttestInv, world, RunsOK, RunOK, LocalNames, At
    <3>3. OutcomesOK'
      BY <2>3 DEF AttestInv, world, OutcomesOK, ReportedOnChain
    <3>4. \A x \in floating' : <<x.key, x.nullifier>> \in Made'
      BY <1>1, <1>6, <2>3, <3>1, Zenon DEF AttestInv, Relay, RunOK
    <3> QED
      BY <3>1, <3>2, <3>3, <3>4 DEF AttestInv
  <2> QED
    BY <1>6, <2>2, <2>3, EndKeeps, BecomesKeeps DEF Relay, q
<1>7. CASE Stream(h)
  <2> DEFINE q == [run[h] EXCEPT !.step = "after", !.status = run[h].job, !.job = "none"]
  <2>1. DOMAIN q = LocalNames /\ q.step = "after" /\ q.status = run[h].job /\ q.job = "none"
        /\ q.tx = run[h].tx /\ q.asOf = run[h].asOf
    BY <1>1 DEF RunOK, LocalNames
  <2> HIDE DEF q
  <2>2. RunOK(q)
    BY <1>1, <1>7, <2>1 DEF RunOK, Stream
  <2> QED
    BY <1>7, <2>2, EndKeeps, BecomesKeeps DEF Stream, q
<1>8. CASE StreamFails(h) \/ Budget(h)
  BY <1>8, EndKeeps DEF StreamFails, Budget
<1>9. CASE After(h)
  <2> DEFINE q == [run[h] EXCEPT !.step = "prove", !.attempt = @ + 1]
  <2>1. DOMAIN q = LocalNames /\ q.step = "prove" /\ q.job = run[h].job /\ q.asOf = run[h].asOf
    BY <1>1 DEF RunOK, LocalNames
  <2> HIDE DEF q
  <2>2. RunOK(q)
    BY <1>1, <1>9, <2>1 DEF RunOK, After
  <2>3. Landed(h) => run[h].tx.key \in chain.attestations
    BY <1>1, <1>9 DEF After, Landed, RunOK
  <2> QED
    BY <1>2, <1>9, <2>2, <2>3, EndKeeps, BecomesKeeps DEF After, q
<1>10. CASE Cancel(h)
  <2> DEFINE q == [run[h] EXCEPT !.aborted = TRUE]
  <2>1. DOMAIN q = LocalNames /\ q.step = run[h].step /\ q.job = run[h].job /\ q.tx = run[h].tx
        /\ q.asOf = run[h].asOf /\ q.status = run[h].status
    BY <1>1 DEF RunOK, LocalNames
  <2> HIDE DEF q
  <2>2. RunOK(q)
    BY <1>1, <2>1 DEF RunOK
  <2> QED
    BY <1>10, <2>2, BecomesKeeps DEF Cancel, q
<1> QED
  BY <1>3, <1>4, <1>5, <1>6, <1>7, <1>8, <1>9, <1>10 DEF HolderStep

-----------------------------------------------------------------------------
\* What a replay does to the ledger disturbs nothing that is known.
LEMMA ReplayKeeps ==
    ASSUME AttestInv, NEW t, chain' = Written(t), UNCHANGED <<indexer, month, credential>>
    PROVE  /\ WorldOK' /\ Made' = Made
           /\ chain.attestations \subseteq chain'.attestations /\ t.key \in chain'.attestations
<1>1. LedgerShape
  BY DEF AttestInv, WorldOK
<1>2. /\ LedgerShape' /\ chain'.kind = chain.kind /\ chain'.owner = chain.owner
      /\ chain'.paused = chain.paused /\ chain'.attestations = chain.attestations \cup {t.key}
  BY <1>1, WrittenFields, Zenon
<1>3. Made' = Made
  BY <1>2, MadeStays
<1>4. WorldOK'
  BY <1>2 DEF AttestInv, WorldOK
<1> QED
  BY <1>2, <1>3, <1>4

LEMMA OutcomesStay ==
    ASSUME AttestInv, UNCHANGED outcome, chain.attestations \subseteq chain'.attestations
    PROVE  OutcomesOK'
  BY DEF AttestInv, OutcomesOK, ReportedOnChain

LEMMA RunsStay ==
    ASSUME AttestInv, UNCHANGED run, Made' = Made, chain.attestations \subseteq chain'.attestations
    PROVE  RunsOK'
  BY DEF AttestInv, RunsOK, RunOK

\* A job ends in the sidecar.
LEMMA JobKeeps ==
    ASSUME AttestInv, NEW h \in Holders, run[h].job = "inflight", NEW end, JobBecomes(h, end),
           Made' = Made, chain.attestations \subseteq chain'.attestations,
           end = "SucceedEntirely" => run[h].tx.key \in chain'.attestations
    PROVE  RunsOK'
<1>1. RunOK(run[h])
  BY DEF AttestInv, RunsOK
<1> DEFINE q == [run[h] EXCEPT !.job = end]
<1>2. DOMAIN q = LocalNames /\ q.step = run[h].step /\ q.job = end /\ q.tx = run[h].tx
      /\ q.asOf = run[h].asOf /\ q.status = run[h].status
  BY <1>1 DEF RunOK, LocalNames
<1>3. run' = [run EXCEPT ![h] = q]
  BY DEF JobBecomes
<1> HIDE DEF q
<1>4. run[h].step = "stream"
  BY <1>1 DEF RunOK
<1>5. /\ \E i \in DOMAIN Months : q.asOf = Months[i]
      /\ <<q.tx.key, q.tx.nullifier>> \in Made
      /\ q.step = "stream"
      /\ q.job = "SucceedEntirely" => q.tx.key \in chain'.attestations
  BY <1>1, <1>2, <1>4 DEF RunOK
<1>6. run = [g \in Holders |-> run[g]] /\ \A g \in Holders : RunOK(run[g])
  BY DEF AttestInv, RunsOK
<1>7. run' = [g \in Holders |-> run'[g]] /\ run'[h] = q /\ \A g \in Holders \ {h} : run'[g] = run[g]
  BY <1>3, <1>6
<1>8. RunOK(run[h])'
  BY <1>2, <1>5, <1>7 DEF RunOK
<1>9. ASSUME NEW g \in Holders \ {h} PROVE RunOK(run[g])'
  BY <1>6, <1>7 DEF RunOK
<1> QED
  BY <1>7, <1>8, <1>9 DEF RunsOK

\* What the chain, the sidecar, the indexer and the clock do.
LEMMA WorldKeeps ==
    ASSUME AttestInv,
           \/ \E h \in Holders : Include(h)
           \/ \E t \in floating : IncludeUnwatched(t)
           \/ SidecarStops \/ SidecarStarts \/ IndexerCatchesUp \/ MonthTurns \/ PauseSwitch
    PROVE  AttestInv'
<1>1. ASSUME NEW h \in Holders, Include(h) PROVE AttestInv'
  <2>1. RunOK(run[h]) /\ run[h].job = "inflight" /\ <<run[h].tx.key, run[h].tx.nullifier>> \in Made
    BY <1>1 DEF AttestInv, RunsOK, RunOK, Include
  <2>2. CASE chain' = Written(run[h].tx) /\ JobBecomes(h, "SucceedEntirely") /\ UNCHANGED floating
    <3>1. /\ WorldOK' /\ Made' = Made /\ chain.attestations \subseteq chain'.attestations
          /\ run[h].tx.key \in chain'.attestations
      BY <1>1, <2>2, ReplayKeeps DEF Include
    <3>2. RunsOK'
      BY <2>1, <2>2, <3>1, JobKeeps
    <3>3. OutcomesOK'
      BY <1>1, <3>1, OutcomesStay, Zenon DEF Include
    <3> QED
      BY <2>2, <3>1, <3>2, <3>3 DEF AttestInv
  <2>3. CASE /\ JobBecomes(h, "FailFallible") \/ JobBecomes(h, "submit-failed")
             /\ floating' \in {floating, floating \cup {run[h].tx}} /\ UNCHANGED chain
    <3>1. WorldOK' /\ Made' = Made
      BY <1>1, <2>3, MadeStays DEF AttestInv, Include, WorldOK, LedgerShape
    <3>2. RunsOK'
      BY <2>1, <2>3, <3>1, JobKeeps
    <3>3. OutcomesOK'
      BY <1>1, <2>3, OutcomesStay DEF Include
    <3>4. \A t \in floating' : <<t.key, t.nullifier>> \in Made'
      BY <2>1, <2>3, <3>1, Zenon DEF AttestInv
    <3> QED
      BY <3>1, <3>2, <3>3, <3>4 DEF AttestInv
  <2> QED
    BY <1>1, <2>2, <2>3 DEF Include
<1>2. ASSUME NEW t \in floating, IncludeUnwatched(t) PROVE AttestInv'
  <2>1. WorldOK' /\ Made' = Made /\ chain.attestations \subseteq chain'.attestations
    <3>1. CASE chain' = Written(t)
      BY <1>2, <3>1, ReplayKeeps DEF IncludeUnwatched
    <3>2. CASE chain' = chain
      BY <1>2, <3>2, MadeStays DEF AttestInv, IncludeUnwatched, WorldOK, LedgerShape
    <3> QED
      BY <1>2, <3>1, <3>2 DEF IncludeUnwatched
  <2>2. RunsOK' /\ OutcomesOK'
    BY <1>2, <2>1, RunsStay, OutcomesStay DEF IncludeUnwatched
  <2> QED
    BY <1>2, <2>1, <2>2 DEF AttestInv, IncludeUnwatched
<1>3. CASE SidecarStops
  <2>1. WorldOK' /\ Made' = Made
    BY <1>3, MadeStays DEF AttestInv, SidecarStops, WorldOK, LedgerShape
  <2>2. ASSUME NEW h \in Holders PROVE RunOK(run[h])'
    <3>1. RunOK(run[h])
      BY DEF AttestInv, RunsOK
    <3>2. CASE run[h].job = "none"
      <4>1. run'[h] = run[h]
        BY <1>3, <3>2 DEF SidecarStops
      <4> QED
        BY <1>3, <2>1, <3>1, <4>1 DEF RunOK, SidecarStops
    <3>3. CASE run[h].job # "none"
      <4>1. run'[h] = [run[h] EXCEPT !.job = "unknown"]
        BY <1>3, <3>3 DEF SidecarStops
      <4>2. /\ DOMAIN run'[h] = LocalNames /\ run'[h].step = run[h].step /\ run'[h].job = "unknown"
            /\ run'[h].tx = run[h].tx /\ run'[h].asOf = run[h].asOf
        BY <3>1, <4>1 DEF RunOK, LocalNames
      <4> QED
        BY <1>3, <2>1, <3>1, <3>3, <4>2 DEF RunOK, SidecarStops
    <3> QED
      BY <3>2, <3>3
  <2>3. run' = [h \in Holders |-> run'[h]]
    BY <1>3 DEF SidecarStops
  <2>4. OutcomesOK'
    BY <1>3, OutcomesStay DEF SidecarStops
  <2>5. \A h \in Holders : run[h].job = "inflight" => <<run[h].tx.key, run[h].tx.nullifier>> \in Made
    BY DEF AttestInv, RunsOK, RunOK
  <2>6. \A t \in floating' : <<t.key, t.nullifier>> \in Made'
    BY <1>3, <2>1, <2>5, Zenon DEF AttestInv, SidecarStops
  <2> QED
    BY <2>1, <2>2, <2>3, <2>4, <2>6 DEF AttestInv, RunsOK
<1>4. CASE SidecarStarts \/ IndexerCatchesUp \/ MonthTurns
  <2>1. UNCHANGED <<chain, credential, run, outcome, floating>>
    BY <1>4 DEF SidecarStarts, IndexerCatchesUp, MonthTurns
  <2>2. Made' = Made
    BY <2>1, MadeStays
  <2>3. indexer'.attestations \subseteq chain.attestations
    BY <1>4 DEF AttestInv, WorldOK, SidecarStarts, IndexerCatchesUp, MonthTurns
  <2>4. month' \in DOMAIN Months
    BY <1>4, AttestAssumption DEF AttestInv, WorldOK, SidecarStarts, IndexerCatchesUp, MonthTurns
  <2>5. WorldOK'
    BY <2>1, <2>3, <2>4 DEF AttestInv, WorldOK, LedgerShape
  <2>6. RunsOK' /\ OutcomesOK'
    BY <2>1, <2>2, RunsStay, OutcomesStay
  <2> QED
    BY <2>1, <2>2, <2>5, <2>6 DEF AttestInv
<1>5. CASE PauseSwitch
  <2>1. /\ LedgerShape' /\ chain'.kind = chain.kind /\ chain'.owner = chain.owner
        /\ chain'.attestations = chain.attestations
    BY <1>5 DEF AttestInv, WorldOK, LedgerShape, PauseSwitch
  <2>2. chain'.paused \in BOOLEAN
    BY <1>5 DEF AttestInv, WorldOK, LedgerShape, PauseSwitch
  <2>3. Made' = Made
    BY <1>5, <2>1, MadeStays DEF PauseSwitch
  <2>4. WorldOK'
    BY <1>5, <2>1, <2>2 DEF AttestInv, WorldOK, PauseSwitch
  <2>5. RunsOK' /\ OutcomesOK'
    BY <1>5, <2>1, <2>3, RunsStay, OutcomesStay DEF PauseSwitch
  <2> QED
    BY <1>5, <2>3, <2>4, <2>5 DEF AttestInv, PauseSwitch
<1> QED
  BY <1>1, <1>2, <1>3, <1>4, <1>5

-----------------------------------------------------------------------------
LEMMA AttestInvInit == ASSUME AttestRunInit PROVE AttestInv
<1>1. chain.attestations = {} /\ chain.kind \in Families /\ chain.owner = Operator
      /\ chain.paused = FALSE /\ LedgerShape
  BY DEF AttestRunInit, LedgerShape
<1>2. month \in DOMAIN Months
  BY AttestAssumption DEF AttestRunInit
<1>3. WorldOK
  BY <1>1, <1>2 DEF AttestRunInit, WorldOK
<1>4. PICK start \in [Holders -> {"check", "done"}] : run = [h \in Holders |-> At(start[h])]
  BY DEF AttestRunInit
<1>5. ASSUME NEW h \in Holders PROVE RunOK(run[h])
  <2>1. run[h] = At(start[h]) /\ start[h] \in {"check", "done"}
    BY <1>4
  <2>2. DOMAIN run[h] = LocalNames /\ run[h].step = start[h] /\ run[h].job = "none"
    BY <2>1 DEF At, LocalNames
  <2> QED
    BY <2>1, <2>2 DEF RunOK
<1>6. RunsOK
  BY <1>4, <1>5 DEF RunsOK
<1>7. OutcomesOK
  BY DEF AttestRunInit, OutcomesOK, ReportedOnChain, Undecided
<1> QED
  BY <1>3, <1>6, <1>7 DEF AttestInv, AttestRunInit

LEMMA AttestInvNext == ASSUME AttestInv, [AttestRunNext]_attestRunVars PROVE AttestInv'
<1>1. CASE AttestRunNext
  BY <1>1, HolderKeeps, WorldKeeps DEF AttestRunNext
<1>2. CASE UNCHANGED attestRunVars
  <2>1. Made' = Made
    BY <1>2, MadeStays DEF attestRunVars, world
  <2>2. RunsOK' /\ OutcomesOK'
    BY <1>2, <2>1, RunsStay, OutcomesStay DEF attestRunVars, world
  <2>3. WorldOK'
    BY <1>2 DEF AttestInv, WorldOK, LedgerShape, attestRunVars, world
  <2> QED
    BY <1>2, <2>1, <2>2, <2>3 DEF AttestInv, attestRunVars
<1> QED
  BY <1>1, <1>2

LEMMA AttestInvAlways == AttestRunSpec => []AttestInv
  BY AttestInvInit, AttestInvNext, PTL DEF AttestRunSpec

\* ensureCredentialPredicatesAttested returns `attested' or `already attested'
\* only for a key that is on the chain, whatever is replayed, lost or retried.
THEOREM SuccessIsOnChain == AttestRunSpec => []ReportedOnChain
<1>1. AttestInv => ReportedOnChain
  BY DEF AttestInv, OutcomesOK
<1> QED
  BY <1>1, AttestInvAlways, PTL

\* The chain's replay of transcripts implements the contracts' atomic circuits.
LEMMA StepIsAtomic ==
    ASSUME AttestInv, [AttestRunNext]_attestRunVars
    PROVE  [Contract!AttestNext]_(Contract!attestVars)
<1>1. LedgerShape /\ chain.kind \in Families /\ credential \in [Holders -> Roots]
  BY DEF AttestInv, WorldOK
<1>2. CASE UNCHANGED chain
  BY <1>2 DEF Contract!attestVars, Contract!attestLedger, Contract!owned
<1>3. ASSUME NEW t, <<t.key, t.nullifier>> \in Made, ReadsAgree(t), chain' = Written(t)
      PROVE  Contract!AttestNext
  BY <1>1, <1>3, ReplayAttests DEF Contract!AttestNext
<1>4. ASSUME NEW h \in Holders, Include(h)
      PROVE  UNCHANGED chain \/ Contract!AttestNext
  <2>1. <<run[h].tx.key, run[h].tx.nullifier>> \in Made
    BY <1>4 DEF AttestInv, RunsOK, RunOK, Include
  <2> QED
    BY <1>3, <1>4, <2>1 DEF Include
<1>5. ASSUME NEW t \in floating, IncludeUnwatched(t)
      PROVE  UNCHANGED chain \/ Contract!AttestNext
  <2>1. <<t.key, t.nullifier>> \in Made
    BY DEF AttestInv
  <2> QED
    BY <1>3, <1>5, <2>1 DEF IncludeUnwatched
<1>6. CASE PauseSwitch
  <2>1. /\ chain'.kind = chain.kind /\ chain'.attestations = chain.attestations
        /\ chain'.attestTree = chain.attestTree /\ chain'.attestCount = chain.attestCount
        /\ chain'.nullifiers = chain.nullifiers /\ chain'.owner = chain.owner
    BY <1>1, <1>6 DEF PauseSwitch, LedgerShape
  <2>2. chain'.paused = ~chain.paused
    BY <1>1, <1>6 DEF PauseSwitch, LedgerShape
  <2>3. chain.owner = Operator /\ chain.paused \in BOOLEAN
    BY DEF AttestInv, WorldOK
  <2>4. CASE chain.paused = TRUE
    <3>1. Contract!Unpause(Operator)
      BY <2>1, <2>2, <2>3, <2>4, Zenon DEF Contract!Unpause, Contract!AssertOnlyOwner
    <3> QED
      BY <2>1, <3>1 DEF Contract!AttestNext, Contract!OwnedNext, Contract!attestLedger
  <2>5. CASE chain.paused = FALSE
    <3>1. Contract!Pause(Operator)
      BY <2>1, <2>2, <2>3, <2>5, Zenon DEF Contract!Pause, Contract!AssertOnlyOwner, Contract!AssertNotPaused
    <3> QED
      BY <2>1, <3>1 DEF Contract!AttestNext, Contract!OwnedNext, Contract!attestLedger
  <2> QED
    BY <2>3, <2>4, <2>5, Zenon
<1>7. ASSUME NEW h \in Holders, HolderStep(h) \/ StreamFails(h) \/ Cancel(h)
      PROVE  UNCHANGED chain
  BY <1>7, Zenon DEF HolderStep, StreamFails, Cancel, Check, Args, Prove, Relay, Stream, Budget, After,
              End, Becomes, world
<1>8. CASE SidecarStops \/ SidecarStarts \/ IndexerCatchesUp \/ MonthTurns
  BY <1>2, <1>8 DEF SidecarStops, SidecarStarts, IndexerCatchesUp, MonthTurns
<1>9. CASE UNCHANGED attestRunVars
  BY <1>2, <1>9 DEF attestRunVars, world
<1> QED
  BY <1>2, <1>4, <1>5, <1>6, <1>7, <1>8, <1>9 DEF AttestRunNext

\* Transcripts replayed on other ledgers than the ones they were made on, late,
\* twice or unwatched, take the contract only where its atomic circuits would.
THEOREM ReplayRefines == AttestRunSpec => ReplayIsAtomic
<1>1. AttestRunInit => Contract!AttestInit
  <2> SUFFICES ASSUME AttestRunInit PROVE Contract!AttestInit
    OBVIOUS
  <2>1. /\ chain.kind \in Families /\ chain.attestations = {} /\ chain.attestTree = <<>>
        /\ chain.attestCount = 0 /\ chain.nullifiers = {} /\ chain.owner = Operator
        /\ chain.paused = FALSE
    BY DEF AttestRunInit
  <2> QED
    BY <2>1, AttestAssumption DEF Contract!AttestInit, Contract!OwnedInit
<1> QED
  BY <1>1, StepIsAtomic, AttestInvAlways, PTL DEF AttestRunSpec, ReplayIsAtomic, Contract!AttestSpec

\* A cancel seen at the last moment before the relay stops the presentation.
THEOREM CancelHolds == AttestRunSpec => NothingAfterCancel
<1>1. ASSUME AttestInv, [AttestRunNext]_attestRunVars,
             NEW h \in Holders, run[h].aborted, run[h].step # "stream"
      PROVE  run'[h].step # "stream"
  <2>1. run = [g \in Holders |-> run[g]] /\ RunOK(run[h])
    BY <1>1 DEF AttestInv, RunsOK
  <2>2. ASSUME NEW g \in Holders, g # h,
               HolderStep(g) \/ StreamFails(g) \/ Cancel(g) \/ Include(g)
        PROVE  run'[h] = run[h]
    BY <2>1, <2>2 DEF HolderStep, StreamFails, Cancel, Include, Check, Args, Prove, Relay, Stream,
                      Budget, After, End, Becomes, JobBecomes
  <2>3. CASE HolderStep(h) \/ StreamFails(h) \/ Cancel(h) \/ Include(h)
    <3>1. ASSUME NEW what, NEW key, End(h, what, key) PROVE run'[h].step = "done"
      BY <2>1, <3>1 DEF End, At
    <3>2. CASE Check(h)
      BY <2>1, <3>1, <3>2 DEF Check, Becomes, RunOK, LocalNames
    <3>3. CASE Args(h)
      BY <1>1, <3>1, <3>3 DEF Args
    <3>4. CASE Prove(h)
      BY <2>1, <3>1, <3>4, Zenon DEF Prove, Becomes, RunOK, LocalNames
    <3>5. CASE Relay(h)
      BY <1>1, <3>1, <3>5 DEF Relay, Cancelled
    <3>6. CASE Stream(h) \/ StreamFails(h) \/ Budget(h)
      BY <1>1, <3>6 DEF Stream, StreamFails, Budget
    <3>7. CASE After(h)
      BY <1>1, <3>1, <3>7 DEF After
    <3>8. CASE Cancel(h)
      BY <1>1, <3>8 DEF Cancel
    <3>9. CASE Include(h)
      BY <1>1, <2>1, <3>9 DEF Include, RunOK
    <3> QED
      BY <2>3, <3>2, <3>3, <3>4, <3>5, <3>6, <3>7, <3>8, <3>9 DEF HolderStep
  <2>4. CASE SidecarStops
    <3>1. run[h].job = "none"
      BY <1>1, <2>1 DEF RunOK
    <3> QED
      BY <1>1, <2>4, <3>1 DEF SidecarStops
  <2>5. CASE \/ \E t \in floating : IncludeUnwatched(t)
             \/ SidecarStarts \/ IndexerCatchesUp \/ MonthTurns \/ PauseSwitch
             \/ UNCHANGED attestRunVars
    BY <1>1, <2>5 DEF IncludeUnwatched, SidecarStarts, IndexerCatchesUp, MonthTurns, PauseSwitch,
                      attestRunVars
  <2> QED
    BY <1>1, <2>2, <2>3, <2>4, <2>5 DEF AttestRunNext
<1>2. AttestInv /\ [AttestRunNext]_attestRunVars =>
        [\A h \in Holders :
            run[h].aborted /\ run[h].step # "stream" => run'[h].step # "stream"]_attestRunVars
  BY <1>1
<1> QED
  BY <1>2, AttestInvAlways, PTL DEF AttestRunSpec, NothingAfterCancel

-----------------------------------------------------------------------------
(* The unlock session.                                                     *)

\* The depth counts the open prompts, one of which is the unlock's; the timer of a
\* hidden tab runs with the time it has been hidden.
SessionInv ==
    /\ prompts \in Nat /\ depth = prompts /\ hiddenFor \in 0..Grace
    /\ unlocking => prompts > 0
    /\ hideTimer # Off => hideTimer \in Nat /\ ~visible /\ hideTimer + hiddenFor = Grace

LEMMA SessionStep == SessionInv /\ [WalletSessionNext]_walletSessionVars => SessionInv'
  <1> SUFFICES ASSUME SessionInv, [WalletSessionNext]_walletSessionVars PROVE SessionInv'
    OBVIOUS
  <1> USE SessionTimes
  <1>1. ASSUME UNCHANGED <<tabVars, promptVars>> PROVE SessionInv'
    BY <1>1 DEF SessionInv, tabVars, promptVars
  <1>2. CASE Activity \/ Focus \/ TtlTimerFires \/ Lock \/ StartVerification \/ Poll \/ ConfirmAndIssue
             \/ ResetVerification \/ UNCHANGED walletSessionVars
    <2>1. UNCHANGED <<tabVars, promptVars>>
      BY <1>2 DEF Activity, Focus, TtlTimerFires, Lock, StartVerification, Poll, ConfirmAndIssue,
                  ResetVerification, walletSessionVars
    <2> QED BY <1>1, <2>1
  <1>3. CASE VisibilityChanges
    <2>1. CASE visible
      <3>1. ~visible'
        BY <1>3, <2>1, Zenon DEF VisibilityChanges
      <3>2. hiddenFor' = 0 /\ hideTimer' = Grace /\ UNCHANGED promptVars
        BY <1>3, <2>1, Zenon DEF VisibilityChanges, lockWhenHidden
      <3> QED BY <3>1, <3>2 DEF SessionInv, promptVars
    <2>2. CASE ~visible
      BY <1>3, <2>2 DEF VisibilityChanges, lockWhenHidden, SessionInv, promptVars
    <2> QED BY <2>1, <2>2
  <1>4. CASE HideTimerFires
    BY <1>4 DEF HideTimerFires, SessionInv, promptVars
  <1>5. CASE PromptOpens \/ Unlock
    BY <1>5 DEF PromptOpens, Unlock, SessionInv, tabVars
  <1>6. CASE PromptCloses
    BY <1>6 DEF PromptCloses, Leave, SessionInv, tabVars
  <1>7. ASSUME NEW ok \in BOOLEAN, UnlockAnswered(ok) PROVE SessionInv'
    <2>1. unlocking /\ unlocking' = FALSE /\ prompts' = prompts - 1 /\ depth' = Leave /\ UNCHANGED tabVars
      BY <1>7 DEF UnlockAnswered
    <2> QED BY <2>1 DEF Leave, SessionInv, tabVars
  <1>8. CASE Tick
    <2>1. /\ hideTimer' = Less(hideTimer) /\ visible' = visible /\ prompts' = prompts /\ depth' = depth /\ unlocking' = unlocking
          /\ hiddenFor' = IF visible \/ hiddenFor = Grace THEN hiddenFor ELSE hiddenFor + 1
      BY <1>8 DEF Tick, promptVars
    <2>2. CASE hideTimer = Off
      BY <2>1, <2>2 DEF SessionInv, Less
    <2>3. CASE hideTimer # Off
      <3>1. hideTimer \in Nat /\ ~visible /\ hideTimer + hiddenFor = Grace /\ hiddenFor \in 0..Grace
        BY <2>3 DEF SessionInv
      <3>2. CASE hideTimer = 0
        BY <2>1, <3>1, <3>2 DEF SessionInv, Less
      <3>3. CASE hideTimer # 0
        <4>1. hideTimer' = hideTimer - 1 /\ hiddenFor' = hiddenFor + 1
          BY <2>1, <2>3, <3>1, <3>3 DEF Less
        <4> QED BY <2>1, <3>1, <3>3, <4>1 DEF SessionInv
      <3> QED BY <3>2, <3>3
    <2> QED BY <2>2, <2>3
  <1> QED BY <1>2, <1>3, <1>4, <1>5, <1>6, <1>7, <1>8 DEF WalletSessionNext

\* The expiry timer is armed by the unlock and runs with the time since; there is
\* none without a session on the screen.
ExpiryInv ==
    /\ left \in Nat /\ unlockedFor \in 0..Ttl
    /\ ~shown => left = 0 /\ ttlTimer = Off
    /\ ttlTimer # Off => ttlTimer \in Nat /\ (unlockedFor = Ttl \/ ttlTimer + unlockedFor = Ttl + 1)

LEMMA RenderKeeps ==
    ASSUME ExpiryInv, NEW remaining \in Nat, NEW timer, NEW page, Render(remaining, timer, page),
           shown => timer \in {ttlTimer, Off},
           ~shown => remaining = 0 \/ (remaining = Ttl /\ timer = Ttl + 1)
    PROVE  ExpiryInv'
  <1> USE SessionTimes
  <1>1. left' = remaining /\ (shown' <=> remaining > 0)
    BY Zenon DEF Render
  <1>2. CASE remaining = 0
    <2>1. ttlTimer' = Off /\ left' = 0
      BY <1>1, <1>2 DEF Render
    <2>2. unlockedFor' \in 0..Ttl
      BY DEF Render, ExpiryInv
    <2> QED BY <2>1, <2>2 DEF ExpiryInv
  <1>3. CASE remaining # 0
    <2>1. shown' /\ ttlTimer' = timer
      BY <1>1, <1>3 DEF Render
    <2>2. CASE shown
      BY <1>1, <2>1, <2>2 DEF Render, ExpiryInv
    <2>3. CASE ~shown
      <3>1. unlockedFor' = 0 /\ timer = Ttl + 1
        BY <1>3, <2>3 DEF Render
      <3> QED BY <1>1, <2>1, <3>1 DEF ExpiryInv
    <2> QED BY <2>2, <2>3
  <1> QED BY <1>2, <1>3

LEMMA ExpiryStep == ExpiryInv /\ [WalletSessionNext]_walletSessionVars => ExpiryInv'
  <1> SUFFICES ASSUME ExpiryInv, [WalletSessionNext]_walletSessionVars PROVE ExpiryInv'
    OBVIOUS
  <1> USE SessionTimes
  <1>1. ASSUME UNCHANGED <<left, shown, unlockedFor, ttlTimer>> PROVE ExpiryInv'
    BY <1>1 DEF ExpiryInv
  <1>2. ASSUME endWalletSession PROVE ExpiryInv'
    BY <1>2, RenderKeeps DEF endWalletSession
  <1>3. ASSUME NEW timer \in {ttlTimer, Off}, NEW page, refreshWalletSession(timer, page) PROVE ExpiryInv'
    <2>1. CASE left > 0
      <3>1. shown
        BY <2>1 DEF ExpiryInv
      <3>2. Render(Ttl, timer, page)
        BY <1>3, <2>1 DEF refreshWalletSession
      <3> QED BY <3>1, <3>2, RenderKeeps
    <2>2. CASE ~(left > 0)
      <3>1. ttlTimer' = timer /\ UNCHANGED <<left, shown, unlockedFor>>
        BY <1>3, <2>2 DEF refreshWalletSession
      <3> QED BY <3>1 DEF ExpiryInv
    <2> QED BY <2>1, <2>2
  <1>4. ASSUME Render(left, Arm(left), redirect) PROVE ExpiryInv'
    <2>1. left \in Nat /\ (~shown => left = 0) /\ (shown => Arm(left) = ttlTimer)
      BY DEF ExpiryInv, Arm
    <2> QED BY <1>4, <2>1, RenderKeeps
  <1>5. CASE Activity
    BY <1>3, <1>5 DEF Activity
  <1>6. CASE Focus \/ VisibilityChanges
    BY <1>4, <1>6 DEF Focus, VisibilityChanges
  <1>7. CASE HideTimerFires \/ Lock
    BY <1>1, <1>2, <1>7 DEF HideTimerFires, Lock
  <1>8. CASE TtlTimerFires
    BY <1>2, <1>3, <1>8 DEF TtlTimerFires
  <1>9. CASE \/ PromptOpens \/ PromptCloses \/ Unlock \/ StartVerification \/ ConfirmAndIssue \/ ResetVerification
             \/ UNCHANGED walletSessionVars
    BY <1>1, <1>9 DEF PromptOpens, PromptCloses, Unlock, StartVerification, ConfirmAndIssue, ResetVerification,
                      walletSessionVars
  <1>10. ASSUME NEW ok \in BOOLEAN, UnlockAnswered(ok) PROVE ExpiryInv'
    <2>1. Render(Ttl, Arm(Ttl), redirect) \/ UNCHANGED <<left, shown, unlockedFor, ttlTimer>>
      BY <1>10 DEF UnlockAnswered, startWalletSession
    <2>2. (shown => Arm(Ttl) = ttlTimer) /\ (~shown => Arm(Ttl) = Ttl + 1)
      BY Zenon DEF Arm
    <2> QED BY <1>1, <2>1, <2>2, RenderKeeps
  <1>11. CASE Poll
    BY <1>1, <1>3, <1>11 DEF Poll
  <1>12. CASE Tick
    <2>1. /\ left' = Less(left) /\ ttlTimer' = Less(ttlTimer) /\ (shown' <=> shown)
          /\ unlockedFor' = IF ~shown \/ unlockedFor = Ttl THEN unlockedFor ELSE unlockedFor + 1
      BY <1>12 DEF Tick
    <2>2. left' \in Nat /\ unlockedFor' \in 0..Ttl /\ (~shown' => left' = 0 /\ ttlTimer' = Off)
      BY <2>1 DEF ExpiryInv, Less
    <2>3. ASSUME ttlTimer' # Off
          PROVE  ttlTimer' \in Nat /\ (unlockedFor' = Ttl \/ ttlTimer' + unlockedFor' = Ttl + 1)
      <3>1. ttlTimer \in Nat /\ shown /\ (unlockedFor = Ttl \/ ttlTimer + unlockedFor = Ttl + 1)
        BY <2>1, <2>3 DEF ExpiryInv, Less
      <3>2. ttlTimer' = IF ttlTimer = 0 THEN 0 ELSE ttlTimer - 1
        BY <2>1, <3>1 DEF Less
      <3> QED BY <2>1, <3>1, <3>2 DEF ExpiryInv
    <2> QED BY <2>2, <2>3 DEF ExpiryInv
  <1> QED BY <1>5, <1>6, <1>7, <1>8, <1>9, <1>10, <1>11, <1>12 DEF WalletSessionNext

\* Neither timer takes a session that has not expired from under a passkey prompt,
\* however prompts nest, or from under a verification; the hidden tab is locked only
\* after its whole grace period, and by the expiry timer of use-wallet-session only
\* a whole Ttl after the unlock.
THEOREM PromptsAreSpared == WalletSessionSpec => TimersSparePrompts
  <1>1. WalletSessionInit => SessionInv /\ ExpiryInv
    BY SessionTimes DEF WalletSessionInit, SessionInv, ExpiryInv
  <1>2. SessionInv /\ ExpiryInv =>
          ((HideTimerFires \/ TtlTimerFires) /\ left > 0 /\ left' = 0
             => /\ prompts = 0 /\ redirect = "none"
                /\ HideTimerFires => hiddenFor = Grace
                /\ TtlTimerFires => unlockedFor = Ttl)
    <2> SUFFICES ASSUME SessionInv, ExpiryInv, HideTimerFires \/ TtlTimerFires, left > 0, left' = 0
                 PROVE  /\ prompts = 0 /\ redirect = "none"
                        /\ HideTimerFires => hiddenFor = Grace
                        /\ TtlTimerFires => unlockedFor = Ttl
      OBVIOUS
    <2>1. left' # left
      OBVIOUS
    <2>2. ASSUME HideTimerFires PROVE ~isAutoLockSuspended /\ hideTimer = 0
      BY <2>1, <2>2 DEF HideTimerFires
    <2>3. ASSUME TtlTimerFires PROVE ~isAutoLockSuspended /\ ttlTimer = 0
      BY <2>3, SessionTimes DEF TtlTimerFires, refreshWalletSession, Render
    <2>4. prompts = 0 /\ redirect = "none"
      BY <2>2, <2>3 DEF isAutoLockSuspended, SessionInv
    <2>5. HideTimerFires => hiddenFor = Grace
      BY <2>2, SessionTimes DEF SessionInv
    <2>6. TtlTimerFires => unlockedFor = Ttl
      BY <2>3, SessionTimes DEF ExpiryInv
    <2> QED BY <2>4, <2>5, <2>6
  <1> QED BY <1>1, <1>2, SessionStep, ExpiryStep, PTL DEF WalletSessionSpec, TimersSparePrompts

-----------------------------------------------------------------------------
(* The presentation through the SDK.                                       *)

\* A nonempty set of naturals has its minimum.
LEMMA LeastIn == ASSUME NEW S \in SUBSET Nat, S # {} PROVE Min(S) \in S
  <1>1. \E R : IsWellFoundedOn(R, Nat) /\ \A x, y \in Nat : <<y, x>> \in R <=> y < x
    <2>1. \A x, y \in Nat : <<y, x>> \in OpToRel(<, Nat) <=> y < x
      BY DEF OpToRel
    <2> QED BY <2>1, NatLessThanWellFounded, Zenon
  <1>2. PICK R : IsWellFoundedOn(R, Nat) /\ \A x, y \in Nat : <<y, x>> \in R <=> y < x
    BY <1>1
  <1>3. \E x \in S : \A y \in S : ~(<<y, x>> \in R)
    BY <1>2, WFMin, Zenon
  <1>4. PICK x \in S : \A y \in S : ~(<<y, x>> \in R)
    BY <1>3
  <1>5. \A y \in S : x =< y
    <2> TAKE y \in S
    <2>1. x \in Nat /\ y \in Nat
      OBVIOUS
    <2>2. ~(y < x)
      BY <1>2, <1>4, <2>1, Zenon
    <2> QED BY <2>1, <2>2
  <1> QED BY <1>5, Zenon DEF Min

\* The options of a credential set are rows of ids.
SetsOK == request.sets # NoExt => \A s \in Range(request.sets) : s.options \in Seq(Seq(STRING))

\* The ids asked for in the one format the wallet and the service know.
Known == {id \in Ids : QueryOf(id).format = SdJwt}

\* The first row the wallet can answer is one of the rows, and is answerable.
LEMMA FirstRowFits ==
    ASSUME NEW options \in Seq(Seq(STRING)), \E i \in DOMAIN options : RowIn(options[i], Matched)
    PROVE  /\ FirstRow(options) \subseteq Matched
           /\ \E i \in DOMAIN options : Range(options[i]) \subseteq FirstRow(options)
  <1> DEFINE rows == {i \in DOMAIN options : RowIn(options[i], Matched)}
  <1>1. rows \in SUBSET Nat /\ rows # {}
    OBVIOUS
  <1>2. Min(rows) \in rows
    <2> HIDE DEF rows
    <2> QED BY <1>1, LeastIn
  <1>3. FirstRow(options) = Range(options[Min(rows)])
    BY <1>1 DEF FirstRow
  <1>4. PICK m \in DOMAIN options : RowIn(options[m], Matched) /\ m = Min(rows)
    BY <1>2, Zenon
  <1> HIDE DEF rows
  <1> QED BY <1>3, <1>4 DEF RowIn

\* What checkCredentialSets finds answerable, chooseAcrossSets covers, as
\* check_credential_sets of the service sees it.
LEMMA ChoiceCovers ==
    ASSUME SetsOK, checkCredentialSets(Matched)
    PROVE  IdsNeeded \subseteq Known /\ check_credential_sets(IdsNeeded)
  <1>1. Matched \subseteq Known
    BY DEF Matched, Candidates, credentialSatisfies, Known
  <1>2. CASE request.sets = NoExt
    BY <1>1, <1>2 DEF IdsNeeded, checkCredentialSets, check_credential_sets
  <1>3. CASE request.sets # NoExt
    <2>1. IdsNeeded = UNION {FirstRow(s.options) : s \in Range(request.sets)}
      BY <1>3 DEF IdsNeeded
    <2>2. ASSUME NEW s \in Range(request.sets) PROVE FirstRow(s.options) \subseteq Matched
      <3>1. CASE \E i \in DOMAIN s.options : RowIn(s.options[i], Matched)
        BY <1>3, <3>1, FirstRowFits DEF SetsOK
      <3>2. CASE ~\E i \in DOMAIN s.options : RowIn(s.options[i], Matched)
        BY <3>2 DEF FirstRow
      <3> QED BY <3>1, <3>2
    <2>3. ASSUME NEW s \in Range(request.sets), s.required
          PROVE  \E i \in DOMAIN s.options : Range(s.options[i]) \subseteq IdsNeeded
      <3>1. \E row \in Range(s.options) : RowIn(row, Matched)
        BY <1>3, <2>3 DEF checkCredentialSets
      <3>2. \E i \in DOMAIN s.options : RowIn(s.options[i], Matched)
        BY <3>1 DEF Range
      <3>3. \E i \in DOMAIN s.options : Range(s.options[i]) \subseteq FirstRow(s.options)
        BY <1>3, <3>2, FirstRowFits DEF SetsOK
      <3>4. FirstRow(s.options) \subseteq IdsNeeded
        BY <2>1
      <3> QED BY <3>3, <3>4
    <2>4. IdsNeeded \subseteq Known
      BY <1>1, <2>1, <2>2
    <2> QED BY <1>3, <2>3, <2>4 DEF check_credential_sets
  <1> QED BY <1>2, <1>3

-----------------------------------------------------------------------------
\* What the request asks for: the sets of ids that answer it, and the predicate
\* behind each id.
Enough == {ids \in SUBSET Known : check_credential_sets(ids)}
Owl == [id \in Ids |-> QueryOf(id).owl]

\* The keys of picks are on chain, for some month; a token of such picks that answers
\* the request.
OnChain(picks, ids) == \A id \in ids : \E m \in 1..MaxMonths : AttestKey(picks[id], Owl[id], m) \in keys
Acceptable(picks) == DOMAIN picks \in Enough /\ OnChain(picks, DOMAIN picks)

FlowFields == {"promise", "timer", "sock", "asked", "token", "checks"}
AnswerFields == {"promise", "timer", "sock", "pc", "picks", "todo", "current"}
WireFields == {"holder", "verifier"}
ShapesOK ==
    /\ flow = [x \in FlowFields |-> flow[x]]
    /\ answer = [x \in AnswerFields |-> answer[x]]
    /\ wire = [x \in WireFields |-> wire[x]]
ClockOK == clock \in [{"wallet", "service"} -> 1..MaxMonths]

\* One request is sent and answered once; every pick is signed with its key on
\* the chain, so the response, and what the verifier has of it, is acceptable.
AskedOnce ==
    /\ answer.pc \in {"waiting", "consent"} => answer.picks = <<>> /\ answer.current = {}
    /\ ~flow.asked => answer.pc = "waiting"
    /\ wire.holder = "request" => flow.asked /\ answer.pc = "waiting"
    /\ wire.verifier = "response" => answer.pc = "done"
    /\ flow.promise = "verifying" => flow.sock # "open"
SignedOnChain ==
    answer.pc = "present" =>
      /\ DOMAIN answer.picks \in Enough
      /\ answer.todo \subseteq DOMAIN answer.picks /\ answer.current \subseteq answer.todo
      /\ OnChain(answer.picks, (DOMAIN answer.picks \ answer.todo) \cup answer.current)
SentAcceptable ==
    /\ wire.verifier = "response" => Acceptable(answer.picks)
    /\ flow.promise = "verifying" => Acceptable(flow.token)
ExchangeInv ==
    /\ SetsOK /\ ShapesOK /\ ClockOK
    /\ Extended(request) => AskedOnce /\ SignedOnChain /\ SentAcceptable

\* The request stays, and so does what it asks for; keys are only added, clocks advance.
LEMMA RequestStays ==
    ASSUME [ExchangeNext]_exchangeVars
    PROVE  /\ UNCHANGED request /\ keys \subseteq keys' /\ Enough' = Enough /\ Owl' = Owl
           /\ SetsOK => SetsOK'
           /\ ClockOK => ClockOK'
           /\ Extended(request)' => Extended(request)
  <1>1. UNCHANGED request
    BY Zenon DEF ExchangeNext, ExchangeStep, SessionReady, Requested, Deny, Match, Ensure, Sign, FlowReceives, Verified,
           CardRemoved, ClockTurns, Mirrors, chainAndStore, FlowTimeout, AnswerTimeout, FlowErrors, AnswerErrors, FlowCloses, AnswerCloses,
           Fails, Reply, Flow, Answer, Asks, exchangeVars
  <1>2. keys \subseteq keys'
    BY Zenon DEF ExchangeNext, ExchangeStep, SessionReady, Requested, Deny, Match, Ensure, Sign, FlowReceives, Verified,
           CardRemoved, ClockTurns, Mirrors, chainAndStore, FlowTimeout, AnswerTimeout, FlowErrors, AnswerErrors, FlowCloses, AnswerCloses,
           Fails, Reply, Flow, Answer, Asks, exchangeVars
  <1>3. Ids' = Ids
    BY <1>1 DEF Ids
  <1>4. Owl' = Owl /\ Known' = Known
    BY <1>1, <1>3 DEF Owl, Known, QueryOf, ById
  <1>5. Enough' = Enough
    BY <1>1, <1>3, <1>4 DEF Enough, check_credential_sets
  <1>6. ASSUME ClockOK PROVE ClockOK'
    <2>1. UNCHANGED clock \/ ClockTurns
      BY Zenon DEF ExchangeNext, ExchangeStep, SessionReady, Requested, Deny, Match, Ensure, Sign, FlowReceives, Verified,
             CardRemoved, Mirrors, FlowTimeout, AnswerTimeout, FlowErrors, AnswerErrors, FlowCloses, AnswerCloses,
             Fails, Reply, Flow, Answer, Asks, exchangeVars
    <2>2. CASE ClockTurns
      BY <1>6, <2>2, ExchangeAssumption DEF ClockTurns, ClockOK
    <2> QED BY <1>6, <2>1, <2>2 DEF ClockOK
  <1> QED BY <1>1, <1>2, <1>4, <1>5, <1>6 DEF SetsOK, Extended

\* A query of an extended request names a predicate, and the service recomputes its key,
\* for the month of its own clock, unless the format or the vct is not the one asked for.
LEMMA KeyRecomputed ==
    ASSUME Extended(request), NEW id \in Ids, NEW c
    PROVE  /\ Owl[id] # NoExt /\ requiredAttestationsFor(QueryOf(id)) = {Owl[id]} /\ Owl[id] = QueryOf(id).owl
           /\ id \in Known /\ VctAsked(QueryOf(id), c)
                => derive_attest_key(QueryOf(id), c) = AttestKey(c, Owl[id], clock.service)
  <1>1. PICK i \in DOMAIN request.credentials : request.credentials[i].id = id
    BY DEF Ids
  <1>2. ById(id) \in DOMAIN request.credentials
    BY <1>1 DEF ById
  <1>3. QueryOf(id).claims = {} /\ QueryOf(id).owl # NoExt
    BY <1>2 DEF QueryOf, Extended
  <1>4. Owl[id] = QueryOf(id).owl
    BY DEF Owl
  <1> QED BY <1>3, <1>4 DEF requiredAttestationsFor, derive_attest_key, Known

\* What is acceptable and is refused all the same has one of the four causes.
LEMMA AcceptableVerifies ==
    ASSUME Extended(request), Acceptable(flow.token), NEW checks \in [DOMAIN flow.token -> Checks],
           \A id \in DOMAIN flow.token :
             /\ checks[id] # "refused" /\ ~WrongVct(id) /\ ~OtherMonth(id) /\ ~NotSeen(id, checks[id])
    PROVE  verify_dcql(flow.token, checks)
  <1>1. DOMAIN flow.token \subseteq Known /\ Known \subseteq Ids /\ check_credential_sets(DOMAIN flow.token)
    BY DEF Acceptable, Enough, Known
  <1>2. ASSUME NEW id \in DOMAIN flow.token
        PROVE  Attested(id, flow.token[id], checks[id])
    <2>1. derive_attest_key(QueryOf(id), flow.token[id]) = KeyIn(id, clock.service)
      BY <1>1, KeyRecomputed, Zenon DEF WrongVct, KeyIn
    <2>2. \E m \in 1..MaxMonths : KeyIn(id, m) \in keys
      BY <1>1, KeyRecomputed, Zenon DEF Acceptable, OnChain, KeyIn
    <2>3. KeyIn(id, clock.service) \in keys
      BY <2>2 DEF OtherMonth
    <2>4. checks[id] = "ok" \/ KeyIn(id, clock.service) \in mirrored
      BY <2>3 DEF NotSeen, Checks
    <2> QED BY <2>1, <2>3, <2>4 DEF Attested, attestation_on_chain
  <1>3. {id \in DOMAIN flow.token : checks[id] # "refused" /\ Attested(id, flow.token[id], checks[id])} = DOMAIN flow.token
    BY <1>2
  <1> QED BY <1>1, <1>3 DEF verify_dcql

-----------------------------------------------------------------------------
\* The steps that leave the picks alone and send nothing: a side times out, errs,
\* loses its socket, a card is removed, a clock turns, the mirror learns of a key.
LEMMA EndsKeep ==
    ASSUME ExchangeInv, UNCHANGED <<request, keys, wire>>, Enough' = Enough, Owl' = Owl,
           SetsOK', ClockOK', Extended(request)' => Extended(request),
           \/ flow' = Ends(flow, "rejected") /\ answer' = answer
           \/ flow' = CleanedUp(flow) /\ answer' = answer
           \/ answer' = Ends(answer, "rejected") /\ flow' = flow
           \/ answer' = [answer EXCEPT !.sock = "closed"] /\ flow' = flow
           \/ UNCHANGED <<flow, answer>>
    PROVE  ExchangeInv'
  <1>1. ShapesOK'
    BY Zenon DEF ExchangeInv, ShapesOK, Ends, CleanedUp, Settles, FlowFields, AnswerFields
  <1>2. /\ answer'.pc = answer.pc /\ answer'.picks = answer.picks
        /\ answer'.todo = answer.todo /\ answer'.current = answer.current
    BY Zenon DEF ExchangeInv, ShapesOK, Ends, CleanedUp, Settles, AnswerFields
  <1>3. /\ flow'.asked = flow.asked /\ flow'.token = flow.token
        /\ flow'.promise \in {flow.promise, "rejected"} /\ (flow'.sock = "closed" \/ flow' = flow)
    BY Zenon DEF ExchangeInv, ShapesOK, Ends, CleanedUp, Settles, FlowFields
  <1>4. ASSUME Extended(request)' PROVE AskedOnce'
    BY <1>2, <1>3, <1>4 DEF ExchangeInv, AskedOnce
  <1>5. ASSUME Extended(request)' PROVE SignedOnChain' /\ SentAcceptable'
    BY <1>2, <1>3, <1>5 DEF ExchangeInv, SignedOnChain, SentAcceptable, Acceptable, OnChain
  <1> QED BY <1>1, <1>4, <1>5 DEF ExchangeInv

\* The handler of the wallet ends: with a refusal, or with a response that is acceptable.
LEMMA ReplyKeeps ==
    ASSUME ExchangeInv, UNCHANGED request, keys \subseteq keys', Enough' = Enough, Owl' = Owl,
           SetsOK', ClockOK', Extended(request)' => Extended(request),
           answer.pc \in {"consent", "present"}, flow' = flow,
           answer' = [x \in AnswerFields |-> answer'[x]], answer'.pc = "done", answer'.picks = answer.picks,
           NEW m, wire' = ToVerifier(m), Extended(request) /\ m = "response" => Acceptable(answer.picks)
    PROVE  ExchangeInv'
  <1>1. wire' = [x \in WireFields |-> wire'[x]] /\ wire'.holder = wire.holder /\ wire'.verifier \in {wire.verifier, m}
    BY DEF ExchangeInv, ShapesOK, ToVerifier, WireFields
  <1>2. ShapesOK'
    BY <1>1 DEF ExchangeInv, ShapesOK
  <1>3. ASSUME Extended(request)' PROVE AskedOnce'
    BY <1>1, <1>3 DEF ExchangeInv, AskedOnce
  <1>4. ASSUME Extended(request)' PROVE SignedOnChain' /\ SentAcceptable'
    <2>1. wire'.verifier = "response" => Acceptable(answer.picks)
      BY <1>1, <1>4 DEF ExchangeInv, AskedOnce
    <2> QED BY <1>4, <2>1 DEF ExchangeInv, SignedOnChain, SentAcceptable, Acceptable, OnChain
  <1> QED BY <1>2, <1>3, <1>4 DEF ExchangeInv

\* Consent is given.
LEMMA MatchKeeps ==
    ASSUME ExchangeInv, Match, UNCHANGED <<request, keys>>, Enough' = Enough, Owl' = Owl,
           SetsOK', ClockOK', Extended(request)' => Extended(request)
    PROVE  ExchangeInv'
  <1>1. answer.pc = "consent"
    BY DEF Match
  <1>2. \/ Fails
        \/ checkCredentialSets(Matched) /\ IdsNeeded = {} /\ Reply("response", Ends(answer, "resolved"))
        \/ /\ checkCredentialSets(Matched)
           /\ Answer([answer EXCEPT !.pc = "present", !.picks = chooseAcrossSets, !.todo = IdsNeeded])
    BY DEF Match
  <1>3. CASE Fails
    <2>1. /\ flow' = flow /\ wire' = ToVerifier("proof_failed")
          /\ answer' = [Ends(answer, "rejected") EXCEPT !.pc = "done"]
      BY <1>3 DEF Fails, Reply, Asks
    <2>2. answer' = [x \in AnswerFields |-> answer'[x]] /\ answer'.pc = "done" /\ answer'.picks = answer.picks
      BY <2>1, Zenon DEF ExchangeInv, ShapesOK, Ends, CleanedUp, Settles, AnswerFields
    <2> QED BY <1>1, <2>1, <2>2, ReplyKeeps
  <1>4. CASE checkCredentialSets(Matched) /\ IdsNeeded = {} /\ Reply("response", Ends(answer, "resolved"))
    <2>1. /\ flow' = flow /\ wire' = ToVerifier("response")
          /\ answer' = [Ends(answer, "resolved") EXCEPT !.pc = "done"]
      BY <1>4 DEF Reply, Asks
    <2>2. answer' = [x \in AnswerFields |-> answer'[x]] /\ answer'.pc = "done" /\ answer'.picks = answer.picks
      BY <2>1, Zenon DEF ExchangeInv, ShapesOK, Ends, CleanedUp, Settles, AnswerFields
    <2>3. ASSUME Extended(request) PROVE Acceptable(answer.picks)
      <3>1. DOMAIN answer.picks = {}
        BY <1>1, <2>3 DEF ExchangeInv, AskedOnce
      <3>2. {} \in Enough
        BY <1>4, ChoiceCovers DEF ExchangeInv, Enough
      <3> QED BY <3>1, <3>2 DEF Acceptable, OnChain
    <2> QED BY <1>1, <2>1, <2>2, <2>3, ReplyKeeps
  <1>5. CASE /\ checkCredentialSets(Matched)
             /\ Answer([answer EXCEPT !.pc = "present", !.picks = chooseAcrossSets, !.todo = IdsNeeded])
    <2>1. /\ UNCHANGED <<flow, wire>>
          /\ answer' = [answer EXCEPT !.pc = "present", !.picks = chooseAcrossSets, !.todo = IdsNeeded]
      BY <1>5 DEF Answer, Asks
    <2>2. /\ ShapesOK' /\ answer'.pc = "present" /\ answer'.picks = chooseAcrossSets
          /\ answer'.todo = IdsNeeded /\ answer'.current = answer.current
      BY <2>1, Zenon DEF ExchangeInv, ShapesOK, AnswerFields
    <2>3. DOMAIN chooseAcrossSets = IdsNeeded
      BY DEF chooseAcrossSets
    <2>4. IdsNeeded \in Enough
      BY <1>5, ChoiceCovers DEF ExchangeInv, Enough
    <2>5. ASSUME Extended(request)' PROVE AskedOnce'
      BY <1>1, <2>1, <2>2, <2>5 DEF ExchangeInv, AskedOnce
    <2>6. ASSUME Extended(request)' PROVE SignedOnChain'
      BY <1>1, <2>2, <2>3, <2>4, <2>6 DEF ExchangeInv, AskedOnce, SignedOnChain, OnChain
    <2>7. ASSUME Extended(request)' PROVE SentAcceptable'
      BY <1>1, <2>1, <2>7 DEF ExchangeInv, AskedOnce, SentAcceptable, Acceptable, OnChain
    <2> QED BY <2>2, <2>5, <2>6, <2>7 DEF ExchangeInv
  <1> QED BY <1>2, <1>3, <1>4, <1>5

\* A pick is attested, or the run for it fails.
LEMMA EnsureKeeps ==
    ASSUME ExchangeInv, NEW id \in answer.todo, Ensure(id), UNCHANGED request, keys \subseteq keys',
           Enough' = Enough, Owl' = Owl, SetsOK', ClockOK', Extended(request)' => Extended(request)
    PROVE  ExchangeInv'
  <1> DEFINE required == requiredAttestationsFor(QueryOf(id))
  <1>1. answer.pc = "present" /\ answer.current = {} /\ flow' = flow
    BY DEF Ensure, Asks
  <1>2. PICK found \in SUBSET {p \in required : AttestKey(answer.picks[id], p, clock.service) \in keys},
             proved \in SUBSET required :
          /\ keys' = keys \cup {AttestKey(answer.picks[id], p, clock.wallet) : p \in proved \ found}
          /\ \/ /\ required \ (found \cup proved) = {} /\ UNCHANGED wire
                /\ answer' = [answer EXCEPT !.current = {id}]
             \/ /\ answer' = [Ends(answer, "rejected") EXCEPT !.pc = "done"]
                /\ wire' = ToVerifier("proof_failed")
    BY DEF Ensure, unattestedRequiredPredicates, Asks
  <1>3. CASE /\ required \ (found \cup proved) = {} /\ UNCHANGED wire
             /\ answer' = [answer EXCEPT !.current = {id}]
    <2>1. /\ ShapesOK' /\ answer'.pc = "present" /\ answer'.picks = answer.picks
          /\ answer'.todo = answer.todo /\ answer'.current = {id}
      BY <1>1, <1>3 DEF ExchangeInv, ShapesOK, AnswerFields
    <2>2. ASSUME Extended(request)' PROVE AskedOnce'
      BY <1>1, <1>3, <2>1, <2>2 DEF ExchangeInv, AskedOnce
    <2>3. ASSUME Extended(request)' PROVE SignedOnChain'
      <3>1. Extended(request) /\ SignedOnChain
        BY <2>3 DEF ExchangeInv
      <3>2. id \in Ids
        BY <1>1, <3>1, Zenon DEF SignedOnChain, Enough, Known
      <3>3. Owl[id] \in found \/ Owl[id] \in proved \ found
        <4>1. required = {Owl[id]}
          BY <3>1, <3>2, KeyRecomputed, Zenon
        <4> HIDE DEF required
        <4> QED BY <1>3, <4>1
      <3>4. \E m \in {clock.service, clock.wallet} : AttestKey(answer.picks[id], Owl[id], m) \in keys'
        BY <1>2, <3>3
      <3>5. clock.service \in 1..MaxMonths /\ clock.wallet \in 1..MaxMonths
        BY Zenon DEF ExchangeInv, ClockOK
      <3>6. \E m \in 1..MaxMonths : AttestKey(answer.picks[id], Owl[id], m) \in keys'
        BY <3>4, <3>5
      <3> QED BY <1>1, <2>1, <3>1, <3>6 DEF SignedOnChain, OnChain
    <2>4. ASSUME Extended(request)' PROVE SentAcceptable'
      BY <1>1, <1>3, <2>1, <2>4 DEF ExchangeInv, AskedOnce, SentAcceptable, Acceptable, OnChain
    <2> QED BY <2>1, <2>2, <2>3, <2>4, Zenon DEF ExchangeInv
  <1>4. CASE /\ answer' = [Ends(answer, "rejected") EXCEPT !.pc = "done"]
             /\ wire' = ToVerifier("proof_failed")
    <2>1. answer' = [x \in AnswerFields |-> answer'[x]] /\ answer'.pc = "done" /\ answer'.picks = answer.picks
      BY <1>4, Zenon DEF ExchangeInv, ShapesOK, Ends, CleanedUp, Settles, AnswerFields
    <2> QED BY <1>1, <1>4, <2>1, ReplyKeeps
  <1> HIDE DEF required
  <1> QED BY <1>2, <1>3, <1>4

\* A pick is signed; the last one sends the response.
LEMMA SignKeeps ==
    ASSUME ExchangeInv, NEW id \in answer.todo, Sign(id), UNCHANGED request, keys \subseteq keys',
           Enough' = Enough, Owl' = Owl, SetsOK', ClockOK', Extended(request)' => Extended(request)
    PROVE  ExchangeInv'
  <1>1. answer.pc = "present" /\ answer.current = {id} /\ flow' = flow /\ keys' = keys
    BY DEF Sign, Answer, Fails, Reply, Asks, chainAndStore
  <1>2. \/ /\ answer.todo \ {id} # {} /\ UNCHANGED wire
           /\ answer' = [answer EXCEPT !.todo = answer.todo \ {id}, !.current = {}]
        \/ /\ answer.todo \ {id} = {} /\ wire' = ToVerifier("response")
           /\ answer' = [[Ends(answer, "resolved") EXCEPT !.todo = {}] EXCEPT !.pc = "done"]
        \/ /\ wire' = ToVerifier("proof_failed")
           /\ answer' = [Ends(answer, "rejected") EXCEPT !.pc = "done"]
    BY DEF Sign, Answer, Fails, Reply, Asks
  <1>3. CASE /\ answer.todo \ {id} # {} /\ UNCHANGED wire
             /\ answer' = [answer EXCEPT !.todo = answer.todo \ {id}, !.current = {}]
    <2>1. /\ ShapesOK' /\ answer'.pc = "present" /\ answer'.picks = answer.picks
          /\ answer'.todo = answer.todo \ {id} /\ answer'.current = {}
      BY <1>1, <1>3, Zenon DEF ExchangeInv, ShapesOK, AnswerFields
    <2>2. ASSUME Extended(request)' PROVE AskedOnce'
      BY <1>1, <1>3, <2>1, <2>2 DEF ExchangeInv, AskedOnce
    <2>3. ASSUME Extended(request)' PROVE SignedOnChain'
      BY <1>1, <2>1, <2>3 DEF ExchangeInv, SignedOnChain, OnChain
    <2>4. ASSUME Extended(request)' PROVE SentAcceptable'
      BY <1>1, <1>3, <2>1, <2>4 DEF ExchangeInv, AskedOnce, SentAcceptable, Acceptable, OnChain
    <2> QED BY <2>1, <2>2, <2>3, <2>4 DEF ExchangeInv
  <1>4. CASE /\ answer.todo \ {id} = {} /\ wire' = ToVerifier("response")
             /\ answer' = [[Ends(answer, "resolved") EXCEPT !.todo = {}] EXCEPT !.pc = "done"]
    <2>1. answer' = [x \in AnswerFields |-> answer'[x]] /\ answer'.pc = "done" /\ answer'.picks = answer.picks
      BY <1>4, Zenon DEF ExchangeInv, ShapesOK, Ends, CleanedUp, Settles, AnswerFields
    <2>2. ASSUME Extended(request) PROVE Acceptable(answer.picks)
      <3>1. (DOMAIN answer.picks \ answer.todo) \cup answer.current = DOMAIN answer.picks
        BY <1>1, <1>4, <2>2 DEF ExchangeInv, SignedOnChain
      <3> QED BY <1>1, <2>2, <3>1 DEF ExchangeInv, SignedOnChain, Acceptable
    <2> QED BY <1>1, <1>4, <2>1, <2>2, ReplyKeeps
  <1>5. CASE /\ wire' = ToVerifier("proof_failed")
             /\ answer' = [Ends(answer, "rejected") EXCEPT !.pc = "done"]
    <2>1. answer' = [x \in AnswerFields |-> answer'[x]] /\ answer'.pc = "done" /\ answer'.picks = answer.picks
      BY <1>5, Zenon DEF ExchangeInv, ShapesOK, Ends, CleanedUp, Settles, AnswerFields
    <2> QED BY <1>1, <1>5, <2>1, ReplyKeeps
  <1> QED BY <1>2, <1>3, <1>4, <1>5

\* The request goes out and arrives.
LEMMA RequestKeeps ==
    ASSUME ExchangeInv, SessionReady \/ Requested, UNCHANGED request, Enough' = Enough, Owl' = Owl,
           SetsOK', ClockOK', Extended(request)' => Extended(request)
    PROVE  ExchangeInv'
  <1>1. CASE SessionReady
    <2>1. /\ flow' = [flow EXCEPT !.asked = TRUE] /\ answer' = answer /\ keys' = keys /\ ~flow.asked
          /\ wire' = [wire EXCEPT !.holder = "request"]
      BY <1>1 DEF SessionReady, Asks, chainAndStore
    <2>2. /\ ShapesOK' /\ flow'.asked /\ flow'.promise = flow.promise /\ flow'.sock = flow.sock
          /\ flow'.token = flow.token /\ wire'.verifier = wire.verifier
      BY <2>1, Zenon DEF ExchangeInv, ShapesOK, FlowFields, WireFields
    <2>3. ASSUME Extended(request)' PROVE AskedOnce'
      BY <2>1, <2>2, <2>3 DEF ExchangeInv, AskedOnce
    <2>4. ASSUME Extended(request)' PROVE SignedOnChain' /\ SentAcceptable'
      BY <2>1, <2>2, <2>4 DEF ExchangeInv, SignedOnChain, SentAcceptable, Acceptable, OnChain
    <2> QED BY <2>2, <2>3, <2>4 DEF ExchangeInv
  <1>2. CASE Requested
    <2>1. /\ answer' = [answer EXCEPT !.pc = "consent"] /\ flow' = flow /\ keys' = keys /\ wire.holder = "request"
          /\ wire' = [wire EXCEPT !.holder = NoMsg]
      BY <1>2 DEF Requested, Asks, chainAndStore
    <2>2. /\ ShapesOK' /\ answer'.pc = "consent" /\ answer'.picks = answer.picks /\ answer'.current = answer.current
          /\ wire'.verifier = wire.verifier /\ wire'.holder # "request"
      BY <2>1 DEF ExchangeInv, ShapesOK, AnswerFields, WireFields, NoMsg
    <2>3. ASSUME Extended(request)' PROVE AskedOnce'
      BY <2>1, <2>2, <2>3 DEF ExchangeInv, AskedOnce
    <2>4. ASSUME Extended(request)' PROVE SignedOnChain' /\ SentAcceptable'
      BY <2>1, <2>2, <2>4 DEF ExchangeInv, AskedOnce, SignedOnChain, SentAcceptable, Acceptable, OnChain
    <2> QED BY <2>2, <2>3, <2>4 DEF ExchangeInv
  <1> QED BY <1>1, <1>2

\* The verifier gets its answer and has it judged.
LEMMA VerifierKeeps ==
    ASSUME ExchangeInv, FlowReceives \/ Verified, UNCHANGED request, Enough' = Enough, Owl' = Owl,
           SetsOK', ClockOK', Extended(request)' => Extended(request)
    PROVE  ExchangeInv'
  <1>1. CASE FlowReceives
    <2>1. /\ flow' = [Ends(flow, Outcome(wire.verifier)) EXCEPT
                        !.token = IF wire.verifier = "response" THEN answer.picks ELSE @]
          /\ answer' = answer /\ keys' = keys /\ flow.sock = "open" /\ wire' = [wire EXCEPT !.verifier = NoMsg]
      BY <1>1 DEF FlowReceives, Asks, chainAndStore
    <2>2. /\ ShapesOK' /\ flow'.asked = flow.asked /\ flow'.sock = "closed" /\ wire'.holder = wire.holder
          /\ wire'.verifier # "response"
          /\ flow'.token = IF wire.verifier = "response" THEN answer.picks ELSE flow.token
          /\ flow'.promise \in {flow.promise, Outcome(wire.verifier)}
      BY <2>1, Zenon DEF ExchangeInv, ShapesOK, Ends, CleanedUp, Settles, FlowFields, WireFields, NoMsg
    <2>3. ASSUME Extended(request)' PROVE AskedOnce'
      BY <2>1, <2>2, <2>3 DEF ExchangeInv, AskedOnce
    <2>4. ASSUME Extended(request)' PROVE SignedOnChain'
      BY <2>1, <2>4 DEF ExchangeInv, SignedOnChain, OnChain
    <2>5. ASSUME Extended(request)' PROVE SentAcceptable'
      BY <2>1, <2>2, <2>5 DEF ExchangeInv, AskedOnce, SentAcceptable, Acceptable, OnChain, Outcome
    <2> QED BY <2>2, <2>3, <2>4, <2>5 DEF ExchangeInv
  <1>2. CASE Verified
    <2>1. /\ UNCHANGED <<answer, wire, keys>>
          /\ \/ \E checks, p : /\ flow' = [flow EXCEPT !.checks = checks, !.promise = p]
                               /\ p \in {"valid", "invalid"}
             \/ flow' = [flow EXCEPT !.promise = "rejected"]
      BY <1>2, Zenon DEF Verified, Flow, Asks, chainAndStore
    <2>2. /\ ShapesOK' /\ flow'.asked = flow.asked /\ flow'.sock = flow.sock
          /\ flow'.promise \in {"valid", "invalid", "rejected"}
      BY <2>1, Zenon DEF ExchangeInv, ShapesOK, FlowFields
    <2>3. ASSUME Extended(request)' PROVE AskedOnce'
      BY <2>1, <2>2, <2>3, Zenon DEF ExchangeInv, AskedOnce
    <2>4. ASSUME Extended(request)' PROVE SignedOnChain' /\ SentAcceptable'
      BY <2>1, <2>2, <2>4, Zenon DEF ExchangeInv, SignedOnChain, SentAcceptable, Acceptable, OnChain
    <2> QED BY <2>2, <2>3, <2>4 DEF ExchangeInv
  <1> QED BY <1>1, <1>2

LEMMA ExchangeInvNext == ASSUME ExchangeInv, [ExchangeNext]_exchangeVars PROVE ExchangeInv'
  <1>1. /\ UNCHANGED request /\ keys \subseteq keys' /\ Enough' = Enough /\ Owl' = Owl
        /\ SetsOK' /\ ClockOK' /\ (Extended(request)' => Extended(request))
    BY RequestStays DEF ExchangeInv
  <1>2. CASE SessionReady \/ Requested
    BY <1>1, <1>2, RequestKeeps
  <1>3. CASE Deny
    <2>1. /\ answer.pc = "consent" /\ flow' = flow /\ wire' = ToVerifier("consent_denied")
          /\ answer' = [Ends(answer, "resolved") EXCEPT !.pc = "done"]
      BY <1>3 DEF Deny, Reply, Asks
    <2>2. answer' = [x \in AnswerFields |-> answer'[x]] /\ answer'.pc = "done" /\ answer'.picks = answer.picks
      BY <2>1, Zenon DEF ExchangeInv, ShapesOK, Ends, CleanedUp, Settles, AnswerFields
    <2> QED BY <1>1, <2>1, <2>2, ReplyKeeps
  <1>4. CASE Match
    <2>1. UNCHANGED keys
      BY <1>4 DEF Match, Fails, Reply, Answer, chainAndStore
    <2> QED BY <1>1, <1>4, <2>1, MatchKeeps
  <1>5. CASE \E id \in answer.todo : Ensure(id) \/ Sign(id)
    BY <1>1, <1>5, EnsureKeeps, SignKeeps
  <1>6. CASE FlowReceives \/ Verified
    BY <1>1, <1>6, VerifierKeeps
  <1>7. CASE \/ CardRemoved \/ ClockTurns \/ Mirrors \/ FlowTimeout \/ AnswerTimeout \/ FlowErrors \/ AnswerErrors \/ FlowCloses
             \/ AnswerCloses \/ UNCHANGED exchangeVars
    <2>1. /\ UNCHANGED <<keys, wire>>
          /\ \/ flow' = Ends(flow, "rejected") /\ answer' = answer
             \/ flow' = CleanedUp(flow) /\ answer' = answer
             \/ answer' = Ends(answer, "rejected") /\ flow' = flow
             \/ answer' = [answer EXCEPT !.sock = "closed"] /\ flow' = flow
             \/ UNCHANGED <<flow, answer>>
      BY <1>7 DEF CardRemoved, ClockTurns, Mirrors, FlowTimeout, AnswerTimeout, FlowErrors, AnswerErrors, FlowCloses,
                  AnswerCloses, Flow, Answer, Asks, chainAndStore, exchangeVars
    <2> QED BY <1>1, <2>1, EndsKeep
  <1> QED BY <1>2, <1>3, <1>4, <1>5, <1>6, <1>7 DEF ExchangeNext, ExchangeStep

LEMMA ExchangeInvInit == ASSUME ExchangeInit PROVE ExchangeInv
  <1>1. SetsOK
    <2>1. CASE request \in DcqlAsked
      BY <2>1, ExchangeAssumption DEF SetsOK
    <2>2. CASE request \in {buildDcqlRequest(ps) : ps \in Predicated}
      <3>1. PICK queries : request = [credentials |-> queries, sets |-> NoExt]
        BY <2>2, Zenon DEF buildDcqlRequest
      <3> QED BY <3>1 DEF SetsOK
    <2> QED BY <2>1, <2>2 DEF ExchangeInit
  <1>2. ShapesOK
    BY DEF ExchangeInit, ShapesOK, FlowFields, AnswerFields, WireFields
  <1>3. AskedOnce
    BY DEF ExchangeInit, AskedOnce, NoMsg
  <1>4. SignedOnChain /\ SentAcceptable
    BY DEF ExchangeInit, SignedOnChain, SentAcceptable, NoMsg
  <1>5. ClockOK
    <2>1. clock = [wallet |-> 1, service |-> 1]
      BY Zenon DEF ExchangeInit
    <2>2. clock = [side \in {"wallet", "service"} |-> 1]
      BY <2>1
    <2> QED BY <2>2, ExchangeAssumption DEF ClockOK
  <1> QED BY <1>1, <1>2, <1>3, <1>4, <1>5 DEF ExchangeInv

\* Only the verdict of verify_dcql makes a presentation invalid.
LEMMA InvalidIsVerdict ==
    ASSUME ExchangeInv, [ExchangeNext]_exchangeVars, flow.promise = "verifying", flow'.promise = "invalid"
    PROVE  \E checks \in [DOMAIN flow.token -> Checks] : flow'.checks = checks /\ ~verify_dcql(flow.token, checks)
  <1>1. flow' = flow => FALSE
    OBVIOUS
  <1>2. CASE Verified
    <2>1. CASE Flow([flow EXCEPT !.promise = "rejected"])
      BY <2>1 DEF Flow, Asks, ExchangeInv, ShapesOK, FlowFields
    <2>2. CASE ~Flow([flow EXCEPT !.promise = "rejected"])
      <3>1. PICK checks \in [DOMAIN flow.token -> Checks] :
              flow' = [flow EXCEPT !.checks = checks,
                                   !.promise = IF verify_dcql(flow.token, checks) THEN "valid" ELSE "invalid"]
        BY <1>2, <2>2, Zenon DEF Verified, Asks
      <3> DEFINE p == IF verify_dcql(flow.token, checks) THEN "valid" ELSE "invalid"
      <3>2. flow' = [flow EXCEPT !.checks = checks, !.promise = p]
        BY <3>1
      <3> HIDE DEF p
      <3>3. flow'.checks = checks /\ flow'.promise = p
        BY <3>2 DEF ExchangeInv, ShapesOK, FlowFields
      <3>4. ~verify_dcql(flow.token, checks)
        BY <3>3 DEF p
      <3> QED BY <3>3, <3>4
    <2> QED BY <2>1, <2>2
  <1>3. CASE SessionReady \/ FlowReceives \/ FlowTimeout \/ FlowErrors \/ FlowCloses
    <2>1. /\ \/ flow' = [flow EXCEPT !.asked = TRUE] \/ flow' = Ends(flow, "rejected") \/ flow' = CleanedUp(flow)
             \/ \E o, t : flow' = [Ends(flow, o) EXCEPT !.token = t]
      BY <1>3 DEF SessionReady, FlowReceives, FlowTimeout, FlowErrors, FlowCloses, Flow, Asks
    <2>2. flow'.promise = flow.promise
      BY <2>1, Zenon DEF ExchangeInv, ShapesOK, Ends, CleanedUp, Settles, FlowFields
    <2> QED BY <2>2
  <1>4. CASE \/ Requested \/ Deny \/ Match \/ (\E id \in answer.todo : Ensure(id) \/ Sign(id))
             \/ CardRemoved \/ ClockTurns \/ Mirrors \/ AnswerTimeout \/ AnswerErrors \/ AnswerCloses
             \/ UNCHANGED exchangeVars
    BY <1>1, <1>4, Zenon DEF Requested, Deny, Match, Ensure, Sign, CardRemoved, ClockTurns, Mirrors, AnswerTimeout, AnswerErrors,
                      AnswerCloses, Fails, Reply, Answer, Asks, exchangeVars
  <1> QED BY <1>2, <1>3, <1>4 DEF ExchangeNext, ExchangeStep

\* For any cards, vcts, stamps and circuits, clocks that turn at any moment, and any
\* request of owl_predicate queries however its credential_sets are laid out: what
\* OwlWallet chooses, attests, signs and sends, verify_dcql finds invalid only for
\* its own checks, a vct that was not asked for, a month that is not the key's, or
\* a key on the chain that it has neither mirrored nor read.
THEOREM RefusalIsExplained == ExchangeSpec => RefusalHasCause
  <1>1. ExchangeInv /\ [ExchangeNext]_exchangeVars =>
          [Extended(request) /\ flow.promise = "verifying" /\ flow'.promise = "invalid"
             => \E id \in DOMAIN flow.token :
                  LET check == flow'.checks[id] IN
                  check = "refused" \/ WrongVct(id) \/ OtherMonth(id) \/ NotSeen(id, check)]_exchangeVars
    <2> SUFFICES ASSUME ExchangeInv, [ExchangeNext]_exchangeVars, Extended(request),
                        flow.promise = "verifying", flow'.promise = "invalid"
                 PROVE  \E id \in DOMAIN flow.token :
                          LET check == flow'.checks[id] IN
                          check = "refused" \/ WrongVct(id) \/ OtherMonth(id) \/ NotSeen(id, check)
      OBVIOUS
    <2>1. PICK checks \in [DOMAIN flow.token -> Checks] : flow'.checks = checks /\ ~verify_dcql(flow.token, checks)
      BY InvalidIsVerdict
    <2>2. Acceptable(flow.token)
      BY DEF ExchangeInv, SentAcceptable
    <2> QED BY <2>1, <2>2, AcceptableVerifies
  <1> QED BY <1>1, ExchangeInvInit, ExchangeInvNext, PTL DEF ExchangeSpec, RefusalHasCause
===============================================================================
