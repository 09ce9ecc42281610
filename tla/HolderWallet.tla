------------------------------ MODULE HolderWallet ------------------------------
(***************************************************************************)
(* The credential store of the holder app and what is done to it from      *)
(* several tabs: a verified session restores or issues a credential        *)
(* (app/src/hooks/use-idp-api, lib/credential-recovery), cards are removed *)
(* or revoked, the wallet is reset, exported to a recovery file and        *)
(* restored from one (sdk/src/recovery-wallet), and passkeys come and go.  *)
(* The keys of localStorage are shared by the tabs (sdk/src/storage); a    *)
(* tab's operation runs from one await to the next.                        *)
(***************************************************************************)
EXTENDS FiniteSets, Naturals

CONSTANTS
    Tabs, Passkeys, None,
    Cards,     \* credentials; a card is the one its verified session can be issued
    MaxOps     \* bound: operations begun

ASSUME WalletAssumption == None \notin Passkeys

VARIABLES
    index, blob, key, hint,  \* owl_wallet_index, _cred:, _key:, owl_webauthn_credential
    passkeys,                \* the passkeys this device can use
    backedUp,                \* the issuer's recovery table: the passkey of each blob
    slotUsed,                \* sessions whose issuance slot is taken
    revokedCards,            \* revoked on the chain
    file,                    \* the cards in the recovery file, None without one
    tab,                     \* the operation each tab is in
    ops

disk == <<index, blob, key, hint>>
beyond == <<passkeys, backedUp, slotUsed, revokedCards, file, ops>>
walletVars == <<disk, beyond, tab>>

Idle == [op |-> "idle", step |-> "none", card |-> None, next |-> None, todo |-> {}, all |-> {},
         seen |-> {}, seal |-> None, got |-> None]

WalletInit ==
    /\ index = {} /\ blob = {} /\ key = [c \in Cards |-> None] /\ hint = None
    /\ passkeys = {} /\ backedUp = [c \in Cards |-> None]
    /\ slotUsed = {} /\ revokedCards = {} /\ file = None
    /\ tab = [t \in Tabs |-> Idle] /\ ops = 0

Goes(t, next) == tab' = [tab EXCEPT ![t] = next]
Starts(t) == tab[t].op = "idle" /\ ops < MaxOps /\ ops' = ops + 1
Done(t, got) == Goes(t, [Idle EXCEPT !.got = got])
-----------------------------------------------------------------------------
\* listCredentials: the indexed cards whose blob can be read.
listCredentials == index \cap blob

\* prfSecret: the passkey named by the hint, or the one picked without a hint.
prfSecret(id) == IF id = None THEN passkeys ELSE passkeys \cap {id}

\* openHolderKey(s): with the hint, else once more with the picker.  Every blob
\* must open.
MutopenHolderKeys(cards) == {key[c] : c \in cards}  \* mutant: a blob that does not is dropped
openHolderKeys(cards) == {p \in Passkeys : \A c \in cards : key[c] = p}

\* openRecoveryBundles: what the passkey of the hint opens; only when that is
\* nothing, what a picked one does.
openRecoveryBundles(cards) ==
    {<<p, {c \in cards : backedUp[c] = p}>> :
       p \in IF hint = None \/ \E c \in cards : backedUp[c] = hint
               THEN prfSecret(hint)
             ELSE IF hint \in passkeys THEN passkeys ELSE {}}

\* addCredential, after its read of the index: the three items are written in
\* turn, and localStorage may be full before any of them.
WriteOrder == <<"blob", "key", "index">>
Writes(t, c, n) ==
    LET done == {WriteOrder[i] : i \in 1..n} IN
    /\ blob' = IF "blob" \in done THEN blob \cup {c} ELSE blob
    /\ key' = IF "key" \in done THEN [key EXCEPT ![c] = tab[t].seal] ELSE key
    /\ index' = IF "index" \in done THEN tab[t].seen \cup {c} ELSE index
    /\ UNCHANGED <<hint, beyond>>
-----------------------------------------------------------------------------
\* registerWalletPasskey: offered while no passkey is remembered.  Logging in
\* remembers the passkey that answered.
Register(p) ==
    /\ hint = None /\ listCredentials = {} /\ p \notin passkeys
    /\ passkeys' = passkeys \cup {p} /\ hint' = p
    /\ UNCHANGED <<index, blob, key, backedUp, slotUsed, revokedCards, file, ops, tab>>
Login ==
    /\ hint' \in prfSecret(hint) /\ hint' # hint
    /\ UNCHANGED <<index, blob, key, beyond, tab>>
PasskeyLost(p) ==
    /\ p \in passkeys /\ passkeys' = passkeys \ {p}
    /\ UNCHANGED <<disk, backedUp, slotUsed, revokedCards, file, ops, tab>>
-----------------------------------------------------------------------------
\* A verified session is confirmed (again, after a failure): restore first.
MutIssueFrom == "issue"  \* mutant: the seed is wrapped when the credential is there
IssueFrom == "wrap"
RestoreFails(t) == Goes(t, [Idle EXCEPT !.op = "verify", !.step = IssueFrom, !.card = tab[t].card])

Confirm(t, c) ==
    /\ hint # None
    /\ \A u \in Tabs : tab[u].card # c
    /\ Starts(t)
    /\ Goes(t, [Idle EXCEPT !.op = "verify", !.step = "list", !.card = c])
    /\ UNCHANGED <<disk, passkeys, backedUp, slotUsed, revokedCards, file>>

ListBackups(t) ==
    /\ tab[t].step = "list"
    /\ \/ RestoreFails(t)
       \/ LET cards == {c \in Cards : backedUp[c] # None} IN
          cards # {} /\ Goes(t, [tab[t] EXCEPT !.step = "decrypt", !.todo = cards])
    /\ UNCHANGED <<disk, beyond>>

\* One prompt to decrypt, one to wrap again; whatever throws is caught, and
\* the flow goes on to issue.
Decrypt(t) ==
    /\ tab[t].step = "decrypt"
    /\ \/ RestoreFails(t) /\ UNCHANGED hint
       \/ \E opened \in openRecoveryBundles(tab[t].todo) :
             /\ hint' = opened[1]
             /\ IF opened[2] = {} THEN RestoreFails(t)
                ELSE Goes(t, [tab[t] EXCEPT !.step = "rewrap", !.todo = opened[2], !.all = opened[2]])
    /\ UNCHANGED <<index, blob, key, beyond>>

Rewrap(t) ==
    /\ tab[t].step = "rewrap"
    /\ \/ /\ UNCHANGED hint
          /\ IF tab[t].op = "verify" THEN RestoreFails(t) ELSE Done(t, None)
       \/ /\ hint' \in prfSecret(hint)
          /\ Goes(t, [tab[t] EXCEPT !.step = "readd", !.seal = hint'])
    /\ UNCHANGED <<index, blob, key, beyond>>

\* The loop over the restored cards.  A card that cannot be stored is skipped.
ReadIndex(t) ==
    /\ tab[t].step = "readd" /\ tab[t].todo # {}
    /\ \E c \in tab[t].todo :
          Goes(t, [tab[t] EXCEPT !.step = "rewrite", !.seen = index, !.todo = @ \ {c}, !.next = c])
    /\ UNCHANGED <<disk, beyond>>
Rewrite(t) ==
    /\ tab[t].step = "rewrite"
    /\ \E n \in 0..3 :
          /\ Writes(t, tab[t].next, n)
          /\ Goes(t, [tab[t] EXCEPT !.step = "readd", !.next = None, !.seen = {},
                                    !.got = IF n = 3 /\ @ = None THEN tab[t].next ELSE @])
Restored(t) ==
    /\ tab[t].step = "readd" /\ tab[t].todo = {}
    /\ IF tab[t].got = None /\ tab[t].op = "verify" THEN RestoreFails(t) ELSE Done(t, tab[t].got)
    /\ UNCHANGED <<disk, beyond>>

\* issueAndStoreCredential: wrap, issue, store, back up.
Wrap(t) ==
    /\ tab[t].step = "wrap"
    /\ \/ Done(t, None) /\ UNCHANGED hint
       \/ /\ hint # None /\ hint' \in prfSecret(hint)
          /\ Goes(t, [tab[t] EXCEPT !.step = "issue", !.seal = hint'])
    /\ UNCHANGED <<index, blob, key, beyond>>

\* The slot is taken once; the answer may be lost.
Issue(t) ==
    /\ tab[t].step = "issue"
    /\ \/ Done(t, None) /\ UNCHANGED slotUsed
       \/ /\ tab[t].card \notin slotUsed /\ slotUsed' = slotUsed \cup {tab[t].card}
          /\ Done(t, None) \/ Goes(t, [tab[t] EXCEPT !.step = "read"])
    /\ UNCHANGED <<disk, passkeys, backedUp, revokedCards, file, ops>>

ReadForStore(t) ==
    /\ tab[t].step = "read"
    /\ Goes(t, [tab[t] EXCEPT !.step = "store", !.seen = index])
    /\ UNCHANGED <<disk, beyond>>
Store(t) ==
    /\ tab[t].step = "store"
    /\ \E n \in 0..3 :
          /\ Writes(t, tab[t].card, n)
          /\ IF n = 3 THEN Goes(t, [tab[t] EXCEPT !.step = "backup", !.seen = {}]) ELSE Done(t, None)

\* A failed backup does not fail the issuance; nor does one that is off.
Backup(t) ==
    /\ tab[t].step = "backup" /\ Done(t, tab[t].card)
    /\ \/ UNCHANGED <<hint, backedUp>>
       \/ /\ hint' \in prfSecret(hint)
          /\ backedUp' \in {backedUp, [backedUp EXCEPT ![tab[t].card] = hint']}
    /\ UNCHANGED <<index, blob, key, passkeys, slotUsed, revokedCards, file, ops>>
-----------------------------------------------------------------------------
\* removeCredential: the index is read, then the three items change together.
RemoveCard(t, c) ==
    /\ c \in listCredentials /\ Starts(t)
    /\ Goes(t, [Idle EXCEPT !.op = "remove", !.step = "remove", !.next = c, !.seen = index])
    /\ UNCHANGED <<disk, passkeys, backedUp, slotUsed, revokedCards, file>>
Remove(t) ==
    /\ tab[t].step = "remove"
    /\ blob' = blob \ {tab[t].next} /\ key' = [key EXCEPT ![tab[t].next] = None]
    /\ index' = tab[t].seen \ {tab[t].next}
    /\ Done(t, None) /\ UNCHANGED <<hint, beyond>>

\* ResetIdentityDialog: report every listed card lost, or just wipe.
Reset(t, report) ==
    /\ hint # None \/ listCredentials # {}
    /\ Starts(t)
    /\ LET lost == IF report THEN listCredentials ELSE {} IN
       Goes(t, [Idle EXCEPT !.op = "reset", !.step = "revoke", !.todo = lost, !.all = lost])
    /\ UNCHANGED <<disk, passkeys, backedUp, slotUsed, revokedCards, file>>

\* wallet.revoke, one card after the other; the first failure ends the reset.
\* A failure may be a lost answer.
MutRevokeFails(t, c) == Goes(t, [tab[t] EXCEPT !.todo = @ \ {c}])  \* mutant: the loop goes on
RevokeFails(t, c) == Done(t, None)
Revoke(t) ==
    /\ tab[t].step = "revoke"
    /\ \E c \in tab[t].todo :
          \/ RevokeFails(t, c) /\ UNCHANGED <<hint, revokedCards>>
          \/ /\ c \in listCredentials
             /\ hint' \in openHolderKeys({c}) \cap passkeys
             /\ revokedCards' = revokedCards \cup {c}
             /\ RevokeFails(t, c) \/ Goes(t, [tab[t] EXCEPT !.todo = @ \ {c}])
    /\ UNCHANGED <<index, blob, key, passkeys, backedUp, slotUsed, file, ops>>

\* clearAll, on a fresh read of the index, and the page is loaded again.
Wipe(t) ==
    /\ tab[t].step = "revoke" /\ tab[t].todo = {}
    /\ index' = {} /\ blob' = blob \ index /\ hint' = None
    /\ key' = [c \in Cards |-> IF c \in index THEN None ELSE key[c]]
    /\ Done(t, None) /\ UNCHANGED beyond
-----------------------------------------------------------------------------
\* createRecoveryFile: the listed cards and their wrapped keys are read, then
\* one prompt opens them all.
Export(t) ==
    /\ listCredentials # {} /\ \A c \in listCredentials : key[c] # None
    /\ Starts(t)
    /\ \E p \in openHolderKeys(listCredentials) :
          Goes(t, [Idle EXCEPT !.op = "export", !.step = "open", !.seal = p, !.todo = listCredentials,
                               !.all = {c \in listCredentials : key[c] = p}])
    /\ UNCHANGED <<disk, passkeys, backedUp, slotUsed, revokedCards, file>>
OpenAll(t) ==
    /\ tab[t].step = "open" /\ Done(t, None)
    /\ \/ UNCHANGED <<hint, file>>
       \/ tab[t].seal \in passkeys /\ hint' = tab[t].seal /\ file' = tab[t].all
    /\ UNCHANGED <<index, blob, key, passkeys, backedUp, slotUsed, revokedCards, ops>>

\* restoreRecoveryFile: wrap under this device's passkey, then add each card.
Import(t) ==
    /\ file # None /\ Starts(t)
    /\ Goes(t, [Idle EXCEPT !.op = "import", !.step = "rewrap", !.todo = file, !.all = file])
    /\ UNCHANGED <<disk, passkeys, backedUp, slotUsed, revokedCards, file>>

\* A tab is closed, or crashes, between two steps.
Close(t) == tab[t].op # "idle" /\ Done(t, None) /\ UNCHANGED <<disk, beyond>>

WalletNext ==
    \/ \E p \in Passkeys : Register(p) \/ PasskeyLost(p)
    \/ Login
    \/ \E t \in Tabs :
          \/ \E c \in Cards : Confirm(t, c) \/ RemoveCard(t, c)
          \/ ListBackups(t) \/ Decrypt(t) \/ Rewrap(t) \/ ReadIndex(t) \/ Rewrite(t) \/ Restored(t)
          \/ Wrap(t) \/ Issue(t) \/ ReadForStore(t) \/ Store(t) \/ Backup(t)
          \/ Remove(t) \/ \E report \in BOOLEAN : Reset(t, report)
          \/ Revoke(t) \/ Wipe(t) \/ Export(t) \/ OpenAll(t) \/ Import(t) \/ Close(t)

WalletSpec == WalletInit /\ [][WalletNext]_walletVars
-----------------------------------------------------------------------------
\* The one-shot issuance slot is only used for a key whose seed is already
\* wrapped: refusing the passkey prompt leaves the session reusable.
SlotForSealedSeed ==
    [][\A c \in slotUsed' \ slotUsed : \E t \in Tabs : tab[t].card = c /\ tab[t].seal # None]_walletVars

\* A reset that reports the wallet lost wipes nothing it listed and could not
\* revoke.
WipedIsRevoked ==
    [][\A t \in Tabs : Wipe(t) => tab[t].all \subseteq revokedCards]_walletVars

\* A recovery file holds all the cards the wallet listed when it was made.
ExportWhole ==
    [][\A t \in Tabs : OpenAll(t) /\ file' # file => file' = tab[t].todo]_walletVars
=================================================================================
