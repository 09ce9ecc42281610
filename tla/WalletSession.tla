----------------------------- MODULE WalletSession -----------------------------
(***************************************************************************)
(* The unlock session of the holder app (app/src/lib/wallet-session,       *)
(* hooks/use-wallet-session, use-webauthn, the lock overlay of AppShell    *)
(* and the redirect verification of use-idp-api that lives under it).      *)
(* Time is counted in ticks; a timer that is due may fire late, as timers  *)
(* of a tab in the background do.                                          *)
(***************************************************************************)
EXTENDS Naturals

CONSTANTS
    Ttl,      \* WALLET_SESSION_TTL_MS
    Grace,    \* HIDDEN_LOCK_GRACE_MS
    MaxDepth, \* bound: nested passkey prompts
    Off       \* a timer that is not armed

ASSUME SessionTimes == Ttl \in Nat \ {0} /\ Grace \in Nat \ {0} /\ MaxDepth \in Nat /\ Off \notin Nat

VARIABLES
    left,      \* ticks until owl_wallet_unlocked_until; 0: expired or removed
    shown,     \* hasSession as React last rendered it
    unlockedFor,  \* how long the session has been shown, up to Ttl
    ttlTimer, hideTimer,
    visible, hiddenFor,  \* the tab, and how long it has been hidden
    prompts,   \* the passkey prompts that are open
    depth,     \* passkeyCeremonyDepth
    unlocking,
    redirect   \* completion.data of the redirect verification, "none" without one

promptVars == <<prompts, depth, unlocking>>
tabVars == <<visible, hiddenFor, hideTimer>>
walletSessionVars == <<left, shown, unlockedFor, ttlTimer, tabVars, promptVars, redirect>>

WalletSessionInit ==
    /\ left = 0 /\ shown = FALSE /\ unlockedFor = 0 /\ ttlTimer = Off /\ hideTimer = Off
    /\ visible = TRUE /\ hiddenFor = 0
    /\ prompts = 0 /\ depth = 0 /\ unlocking = FALSE
    /\ redirect = "none"
-----------------------------------------------------------------------------
isAutoLockSuspended == depth > 0 \/ redirect # "none"

\* React reads the session again.  The effect that arms the expiry timer runs
\* when hasSession changes and at no other time; the lock overlay takes the
\* place of the page, which unmounts a verification it was running.
Arm(remaining) == IF ~shown THEN remaining + 1 ELSE ttlTimer
Render(remaining, timer, page) ==
    /\ left' = remaining
    /\ shown' = (remaining > 0)
    /\ unlockedFor' = IF shown THEN unlockedFor ELSE 0
    /\ ttlTimer' = IF shown' THEN timer ELSE Off
    /\ redirect' = IF shown' THEN page ELSE "none"

\* startWalletSession, refreshWalletSession and endWalletSession announce the
\* change; refreshing a session that has lapsed is not a change.
startWalletSession(page) == Render(Ttl, Arm(Ttl), page)
endWalletSession == Render(0, Off, redirect)
refreshWalletSession(timer, page) ==
    IF left > 0 THEN Render(Ttl, timer, page)
    ELSE ttlTimer' = timer /\ redirect' = page /\ UNCHANGED <<left, shown, unlockedFor>>
-----------------------------------------------------------------------------
\* pointerdown, keydown, touchstart.
Activity ==
    /\ visible /\ refreshWalletSession(ttlTimer, redirect)
    /\ UNCHANGED <<tabVars, promptVars>>

Focus ==
    /\ visible /\ Render(left, Arm(left), redirect)
    /\ UNCHANGED <<tabVars, promptVars>>

\* visibilitychange: both listeners.  The grace period starts over each time.
lockWhenHidden(hidden) == IF hidden THEN Grace ELSE Off
VisibilityChanges ==
    /\ visible' = ~visible /\ hiddenFor' = 0
    /\ hideTimer' = lockWhenHidden(visible)
    /\ Render(left, Arm(left), redirect)
    /\ UNCHANGED <<promptVars>>

HideTimerFires ==
    /\ hideTimer = 0 /\ hideTimer' = Off
    /\ IF ~visible /\ ~isAutoLockSuspended THEN endWalletSession
       ELSE UNCHANGED <<left, shown, unlockedFor, ttlTimer, redirect>>
    /\ UNCHANGED <<visible, hiddenFor, promptVars>>

TtlTimerFires ==
    /\ ttlTimer = 0
    /\ IF isAutoLockSuspended THEN refreshWalletSession(Off, redirect) ELSE endWalletSession
    /\ UNCHANGED <<tabVars, promptVars>>

Lock == shown /\ endWalletSession /\ UNCHANGED <<tabVars, promptVars>>
-----------------------------------------------------------------------------
\* withPasskeyCeremony; ceremonies nest.
MutLeave == 0  \* mutant: a flag in place of a count
Leave == IF depth > 0 THEN depth - 1 ELSE 0

PromptOpens ==
    /\ shown /\ prompts < MaxDepth
    /\ prompts' = prompts + 1 /\ depth' = depth + 1
    /\ UNCHANGED <<left, shown, unlockedFor, ttlTimer, tabVars, unlocking, redirect>>
PromptCloses ==
    /\ prompts > (IF unlocking THEN 1 ELSE 0)
    /\ prompts' = prompts - 1 /\ depth' = Leave
    /\ UNCHANGED <<left, shown, unlockedFor, ttlTimer, tabVars, unlocking, redirect>>

\* unlock: the passkey answers, or refuses, or the backstop of 60 seconds aborts it.
Unlock ==
    /\ ~shown /\ ~unlocking /\ unlocking' = TRUE
    /\ prompts' = prompts + 1 /\ depth' = depth + 1
    /\ UNCHANGED <<left, shown, unlockedFor, ttlTimer, tabVars, redirect>>
UnlockAnswered(ok) ==
    /\ unlocking /\ unlocking' = FALSE
    /\ prompts' = prompts - 1 /\ depth' = Leave
    /\ IF ok THEN startWalletSession(redirect) ELSE UNCHANGED <<left, shown, unlockedFor, ttlTimer, redirect>>
    /\ UNCHANGED <<tabVars>>
-----------------------------------------------------------------------------
\* The redirect verification of use-idp-api: activeRedirect is set, the
\* completion query polls until the answer is final or an error.  A tab that is
\* hidden starts no poll, but may get the answer to one.
StartVerification ==
    /\ shown /\ redirect = "none"
    /\ redirect' = "pending"
    /\ UNCHANGED <<left, shown, unlockedFor, ttlTimer, tabVars, promptVars>>
Poll ==
    /\ redirect = "pending"
    /\ \E answer \in {"pending", "verified", "failed"} :
          \/ visible /\ refreshWalletSession(ttlTimer, answer)
          \/ ~visible /\ redirect' = answer /\ UNCHANGED <<left, shown, unlockedFor, ttlTimer>>
    /\ UNCHANGED <<tabVars, promptVars>>
ConfirmAndIssue ==
    /\ redirect = "verified" /\ redirect' = "none"
    /\ UNCHANGED <<left, shown, unlockedFor, ttlTimer, tabVars, promptVars>>
ResetVerification ==
    /\ redirect # "none" /\ redirect' = "none"
    /\ UNCHANGED <<left, shown, unlockedFor, ttlTimer, tabVars, promptVars>>

\* In a visible tab a poll every few seconds does come before a session of a
\* quarter of an hour ends.
Less(n) == IF n \in {0, Off} THEN n ELSE n - 1
Tick ==
    /\ ~(visible /\ redirect = "pending" /\ left = 1)
    /\ left' = Less(left) /\ ttlTimer' = Less(ttlTimer) /\ hideTimer' = Less(hideTimer)
    /\ hiddenFor' = IF visible \/ hiddenFor = Grace THEN hiddenFor ELSE hiddenFor + 1
    /\ unlockedFor' = IF ~shown \/ unlockedFor = Ttl THEN unlockedFor ELSE unlockedFor + 1
    /\ UNCHANGED <<shown, visible, promptVars, redirect>>

WalletSessionNext ==
    \/ Activity \/ Focus \/ VisibilityChanges \/ HideTimerFires \/ TtlTimerFires \/ Lock
    \/ PromptOpens \/ PromptCloses \/ Unlock \/ \E ok \in BOOLEAN : UnlockAnswered(ok)
    \/ StartVerification \/ Poll \/ ConfirmAndIssue \/ ResetVerification \/ Tick

WalletSessionSpec == WalletSessionInit /\ [][WalletSessionNext]_walletSessionVars
-----------------------------------------------------------------------------
\* What a timer may do to a session that has not expired.  Neither timer ends it under an open
\* passkey prompt, when prompts nest and when the prompt itself hid the tab, or under a running
\* verification; the hidden-tab timer only after a whole, unbroken grace period; the expiry timer
\* only a whole Ttl after the unlock.  That Ttl is not counted from the last activity: the timer
\* is armed by the unlock alone, and ends a session that activity has refreshed since.
TimersSparePrompts ==
    [][(HideTimerFires \/ TtlTimerFires) /\ left > 0 /\ left' = 0
          => /\ prompts = 0 /\ redirect = "none"
             /\ HideTimerFires => hiddenFor = Grace
             /\ TtlTimerFires => unlockedFor = Ttl]_walletSessionVars
===============================================================================
