----------------------------- MODULE BrowserPool -----------------------------
(* The pool of headless-browser tabs (src/browser.rs) and the two tools that *)
(* use it, browser_scrape and browser_screenshot (src/actions/browser.rs).   *)
(*                                                                           *)
(* A call waits for a permit of the semaphore, then for the mutex around     *)
(* PoolState, under which it launches Chrome when needed and opens a tab; it *)
(* lets the mutex go, navigates, extracts and closes the tab.  Every stage   *)
(* below is an .await of the code: between two of them other calls run,      *)
(* Chrome may die, and the call itself may be dropped because its deadline   *)
(* passed or its client left.                                                *)
EXTENDS Naturals, FiniteSets

CONSTANTS
    Request,        \* concurrent calls; each is reused for call after call
    MaxPages,       \* BrowserSettings::max_pages, the semaphore's permits
    OrphanCap,      \* orphan tabs are counted up to this many, then saturate
    Faults,         \* what the environment may do wrong, a subset of FaultKind
    Nobody          \* owner of the mutex when it is free

FaultKind == {"cancel", "crash", "launch", "open", "shot", "close"}

ASSUME PoolAssumption ==
    /\ IsFiniteSet(Request)
    /\ MaxPages \in Nat \ {0}
    /\ OrphanCap \in Nat \ {0}
    /\ Faults \subseteq FaultKind
    /\ Nobody \notin Request

VARIABLES
    pc,         \* the await each call is suspended at
    page,       \* the call's Page: none, a tab of the live Chrome, or a dead one
    permits,    \* permits left in page_sem
    mutex,      \* the call that holds the state mutex
    pool,       \* PoolState
    handler,    \* the task that drives the CDP connection
    chrome,     \* the Chrome process of the pool, up or down
    orphans     \* tabs open in Chrome that no call has a Page for

vars == <<pc, page, permits, mutex, pool, handler, chrome, orphans>>
shared == <<permits, mutex, pool, handler, chrome, orphans>>

Stage == {"idle", "permit", "lock", "launch", "open", "nav", "extract", "capture", "close"}
HoldsPermit == {"lock", "launch", "open", "nav", "extract", "capture", "close"}
HoldsMutex == {"launch", "open"}

Holders == {r \in Request : pc[r] \in HoldsPermit}

Go(r, from, to) == pc[r] = from /\ pc' = [pc EXCEPT ![r] = to]
DropPage(r) == page' = [page EXCEPT ![r] = "none"]

Init ==
    /\ pc = [r \in Request |-> "idle"]
    /\ page = [r \in Request |-> "none"]
    /\ permits = MaxPages
    /\ mutex = Nobody
    /\ pool = "NotStarted"
    /\ handler = "none"
    /\ chrome = "down"
    /\ orphans = 0

-----------------------------------------------------------------------------
(* The call up to the pool: a URL that is missing or that validate_url       *)
(* blocks is answered before any permit is asked for, so it is no step here. *)
Call(r) ==
    /\ Go(r, "idle", "permit")
    /\ UNCHANGED <<page, shared>>

UncountedPermit(r) ==              \* faulty: takes a slot that may not be there
    /\ Go(r, "permit", "lock")
    /\ permits' = IF permits > 0 THEN permits - 1 ELSE 0
    /\ UNCHANGED <<page, mutex, pool, handler, chrome, orphans>>

(* acquire_page: the permit first, so that callers queue on the semaphore.   *)
TakePermit(r) ==
    /\ permits > 0
    /\ Go(r, "permit", "lock")
    /\ permits' = permits - 1
    /\ UNCHANGED <<page, mutex, pool, handler, chrome, orphans>>


(* acquire_page: the mutex, and in the same poll the reset of a pool whose   *)
(* handler task has ended.                                                   *)
MustLaunch == pool = "NotStarted" \/ handler = "finished"

LockedCheckOnly(r) ==              \* faulty: lets the mutex go before it launches
    /\ mutex = Nobody
    /\ IF MustLaunch
       THEN Go(r, "lock", "launch") /\ pool' = "NotStarted" /\ handler' = "none"
       ELSE Go(r, "lock", "open") /\ UNCHANGED <<pool, handler>>
    /\ UNCHANGED <<page, permits, mutex, chrome, orphans>>

TakeMutex(r) ==
    /\ mutex = Nobody
    /\ mutex' = r
    /\ IF MustLaunch
       THEN Go(r, "lock", "launch") /\ pool' = "NotStarted" /\ handler' = "none"
       ELSE Go(r, "lock", "open") /\ UNCHANGED <<pool, handler>>
    /\ UNCHANGED <<page, permits, chrome, orphans>>

LaunchUnrecorded(r) ==             \* faulty: the launched browser is not stored
    /\ Go(r, "launch", "open")
    /\ handler' = "running" /\ chrome' = "up" /\ orphans' = 0
    /\ UNCHANGED <<page, permits, mutex, pool>>

(* do_launch: Chrome is started, its handler task spawned, the state set.    *)
LaunchOk(r) ==
    /\ Go(r, "launch", "open")
    /\ pool' = "Running"
    /\ handler' = "running"
    /\ chrome' = "up"
    /\ orphans' = 0
    /\ UNCHANGED <<page, permits, mutex>>

PermitLeaks(r) ==                  \* faulty: the permit is forgotten on an error
    /\ mutex' = Nobody
    /\ UNCHANGED <<page, permits, pool, handler, chrome, orphans>>

MutexLeaks(r) ==                   \* faulty: the guard is forgotten on an error
    /\ permits' = permits + 1
    /\ UNCHANGED <<page, mutex, pool, handler, chrome, orphans>>

(* Leaving acquire_page by `?`: the mutex guard and the permit are dropped.  *)
FailUnderMutex(r) ==
    /\ permits' = permits + 1
    /\ mutex' = Nobody
    /\ UNCHANGED <<page, pool, handler, chrome, orphans>>

LaunchFail(r) ==
    /\ "launch" \in Faults
    /\ Go(r, "launch", "idle")
    /\ FailUnderMutex(r)

OpenFail(r) ==
    /\ chrome = "down" \/ "open" \in Faults
    /\ Go(r, "open", "idle")
    /\ FailUnderMutex(r)

OpenLocked(r) ==                   \* faulty: the mutex is kept with the page
    /\ chrome = "up"
    /\ Go(r, "open", "nav")
    /\ page' = [page EXCEPT ![r] = "live"]
    /\ UNCHANGED <<permits, mutex, pool, handler, chrome, orphans>>

OpenOk(r) ==
    /\ chrome = "up"
    /\ Go(r, "open", "nav")
    /\ page' = [page EXCEPT ![r] = "live"]
    /\ mutex' = Nobody
    /\ UNCHANGED <<permits, pool, handler, chrome, orphans>>

-----------------------------------------------------------------------------
(* The tool with its page.  goto may fail or outlast nav_timeout on any page *)
(* and both paths close the tab.                                             *)
NavOk(r) ==
    /\ page[r] = "live"
    /\ Go(r, "nav", "extract") \/ Go(r, "nav", "capture")
    /\ UNCHANGED <<page, shared>>

NavFail(r) ==
    /\ Go(r, "nav", "close")
    /\ UNCHANGED <<page, shared>>

(* browser_scrape: scrolling, waiting, scripts and extraction swallow every  *)
(* error, so a dead page yields an empty document, not an error, and either  *)
(* way the tab is closed.                                                    *)
Extract(r) ==
    /\ Go(r, "extract", "close")
    /\ UNCHANGED <<page, shared>>

ShotOk(r) ==
    /\ page[r] = "live"
    /\ Go(r, "capture", "close")
    /\ UNCHANGED <<page, shared>>

(* The Page of r goes away without a close that took effect: a live tab      *)
(* stays in Chrome, and nothing in the pool will ever close it.              *)
Saturate(n) == IF n < OrphanCap THEN n ELSE OrphanCap
AbandonTab(r) ==
    /\ DropPage(r)
    /\ orphans' = IF page[r] = "live" THEN Saturate(orphans + 1) ELSE orphans

(* browser_screenshot: `?` on the capture leaves without pooled.close().     *)
ShotFail(r) ==
    /\ page[r] = "dead" \/ "shot" \in Faults
    /\ Go(r, "capture", "idle")
    /\ AbandonTab(r)
    /\ permits' = permits + 1
    /\ UNCHANGED <<mutex, pool, handler, chrome>>

CloseTwice(r) ==                   \* faulty: close frees the permit, then Drop does
    /\ Go(r, "close", "idle")
    /\ permits' = permits + 2
    /\ DropPage(r)
    /\ UNCHANGED <<mutex, pool, handler, chrome, orphans>>

(* PooledPage::close: errors are swallowed, the permit goes with the value.  *)
Close(r) ==
    /\ Go(r, "close", "idle")
    /\ permits' = permits + 1
    /\ \/ DropPage(r) /\ UNCHANGED orphans
       \/ "close" \in Faults /\ AbandonTab(r)
    /\ UNCHANGED <<mutex, pool, handler, chrome>>

-----------------------------------------------------------------------------
(* The call's future is dropped at whatever await it is suspended at: the    *)
(* deadline around process_request, the HTTP TimeoutLayer, or a client that  *)
(* hung up.  Guards and permits are released by Drop; a tab is not closed,   *)
(* and a tab whose creation or close was under way may exist or not.         *)
Cancel(r) ==
    /\ "cancel" \in Faults
    /\ pc[r] # "idle"
    /\ pc' = [pc EXCEPT ![r] = "idle"]
    /\ permits' = IF r \in Holders THEN permits + 1 ELSE permits
    /\ mutex' = IF mutex = r THEN Nobody ELSE mutex
    /\ \/ AbandonTab(r)
       \/ pc[r] = "close" /\ DropPage(r) /\ UNCHANGED orphans
       \/ pc[r] = "open" /\ chrome = "up" /\ DropPage(r) /\ orphans' = Saturate(orphans + 1)
    /\ UNCHANGED <<pool, handler, chrome>>

(* Chrome dies and every tab with it; its handler task notices later.  Losing *)
(* the connection to a Chrome that lives on is the same to the pool.         *)
Crash ==
    /\ "crash" \in Faults
    /\ chrome = "up"
    /\ chrome' = "down"
    /\ orphans' = 0
    /\ page' = [r \in Request |-> IF page[r] = "none" THEN "none" ELSE "dead"]
    /\ UNCHANGED <<pc, permits, mutex, pool, handler>>

HandlerExit ==
    /\ handler = "running"
    /\ chrome = "down"
    /\ handler' = "finished"
    /\ UNCHANGED <<pc, page, permits, mutex, pool, chrome, orphans>>

-----------------------------------------------------------------------------
Acquire(r) == LaunchOk(r) \/ LaunchFail(r) \/ OpenOk(r) \/ OpenFail(r)
UsePage(r) ==
    NavOk(r) \/ NavFail(r) \/ Extract(r) \/ ShotOk(r) \/ ShotFail(r) \/ Close(r)

Next ==
    \/ \E r \in Request :
          Call(r) \/ TakePermit(r) \/ TakeMutex(r) \/ Acquire(r) \/ UsePage(r) \/ Cancel(r)
    \/ Crash
    \/ HandlerExit

(* Tokio's semaphore and mutex are first-in first-out, so a waiter is not    *)
(* overtaken for ever: strong fairness.  Every CDP command is answered or    *)
(* fails on chromiumoxide's own timer, goto on nav_timeout: weak fairness.   *)
(* Nothing obliges a client to call, to hang up, or Chrome to crash, and the *)
(* deadline is deliberately not fair: calls must end without its help.       *)
Fairness ==
    /\ \A r \in Request :
          /\ SF_vars(TakePermit(r))
          /\ SF_vars(TakeMutex(r))
          /\ WF_vars(Acquire(r))
          /\ WF_vars(UsePage(r))
    /\ WF_vars(HandlerExit)

Spec == Init /\ [][Next]_vars
FairSpec == Spec /\ Fairness
-----------------------------------------------------------------------------
(* Every variable stays in its type.                                         *)
TypeOK ==
    /\ pc \in [Request -> Stage]
    /\ page \in [Request -> {"none", "live", "dead"}]
    /\ permits \in 0..MaxPages
    /\ mutex \in Request \cup {Nobody}
    /\ pool \in {"NotStarted", "Running"}
    /\ handler \in {"none", "running", "finished"}
    /\ chrome \in {"up", "down"}
    /\ orphans \in 0..OrphanCap

(* No permit is lost or minted on any path out of a call: launch failures,   *)
(* navigation errors, a capture that fails, a future dropped at any await.   *)
PermitConservation == permits + Cardinality(Holders) = MaxPages

(* The state mutex is held during launch and page creation and at no other   *)
(* time: never while a page is active, and never after its owner is gone.    *)
MutexOnlyInside == \A r \in Request : mutex = r <=> pc[r] \in HoldsMutex

(* PoolState tells the truth about the handler, and Chrome is alive only     *)
(* under a handler that drives it.                                           *)
PoolTellsTruth ==
    /\ pool = "Running" <=> handler # "none"
    /\ chrome = "up" => handler = "running"

(* A Chrome is only started where none runs, so calls that race to be the    *)
(* first, or the first after a crash, start one browser between them, and no *)
(* launch takes the browser away from under the tabs of other calls.         *)
Launches == \E r \in Request : pc[r] = "launch" /\ pc'[r] = "open"
NoSecondChrome == [][Launches => chrome = "down"]_vars

(* The tabs open in Chrome, with or without a call that owns them, are at    *)
(* most max_pages ("Bounds simultaneous open tabs").                         *)
LiveTabs == {r \in Request : page[r] = "live"}
TabsBounded == Cardinality(LiveTabs) + orphans <= MaxPages

(* Every call ends, by itself: no waiter starves behind the semaphore or the *)
(* mutex, and a dead Chrome blocks nobody.                                   *)
EveryCallEnds == \A r \in Request : pc[r] # "idle" ~> pc[r] = "idle"

(* A call wants a page of a pool whose handler has ended; a call that wants  *)
(* a page is dropped, or its launch fails.                                   *)
DeadAndAsked == handler = "finished" /\ \E r \in Request : pc[r] \in {"permit", "lock"}
GivesUp == \E r \in Request : pc[r] \in {"permit", "lock", "launch"} /\ pc'[r] = "idle"


(* The pool implements the abstract slots, liveness included.                *)
Slots == INSTANCE PageSlots WITH holders <- Holders
SlotsSafety == Slots!Safety
SlotsSpec == Slots!Spec
=============================================================================
