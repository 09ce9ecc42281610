------------------------------ MODULE MCIssuance ------------------------------
(***************************************************************************)
(* TLC instance of issuance on both ends: the issuer's verification        *)
(* session under concurrent requests, and the store of the holder app.     *)
(* They meet in one request, whose two ends are modelled in full on either *)
(* side, so a behaviour runs one of them, which `part' names.              *)
(***************************************************************************)
EXTENDS IssuerSession, HolderWallet, TLC

VARIABLE part

MCInit ==
    /\ Init /\ WalletInit
    /\ part \in {"issuer", "wallet"}
    /\ part = "wallet" => flow = "digid"

MCNext ==
    /\ UNCHANGED part
    /\ \/ part = "issuer" /\ Next /\ UNCHANGED walletVars
       \/ part = "wallet" /\ WalletNext /\ UNCHANGED vars

MCSpec == MCInit /\ [][MCNext]_<<vars, walletVars, part>>

\* No choice depends on which request, tab, card or passkey it is.
Symmetry == UNION {Permutations(S) : S \in {Requests, Tabs, Cards, Passkeys}}
===============================================================================
