---------------------------- MODULE SummaryIndex ----------------------------
(* The board summary cache of internal/board (summary_cache.go and           *)
(* summary_refresh.go): the index the terminal interface reads its list      *)
(* from.  A View takes a snapshot of the index under its mutex, scans the    *)
(* board without the mutex, and publishes what it built only if nobody       *)
(* invalidated the index meanwhile; otherwise it starts again.  Bodies are   *)
(* reread only when a mark, the fingerprint or a strong pass asks for it.    *)
(*                                                                           *)
(* A card's text is the number of its last edit.  Its fingerprint (state,    *)
(* path, revision, size, time, file index) moves with every kander command   *)
(* and with most external edits; an external edit may leave it alone.        *)
EXTENDS Naturals, Functions

CONSTANTS
  IndexCards,  \* the cards of the board
  Viewers,     \* concurrent callers of View
  MaxEdits,    \* bound: edits of the board
  MaxMarks     \* bound: calls of Invalidate and Close (the generation)

VARIABLES
  live,      \* cards on the board
  text,      \* text[c]: number of the card's last edit
  edits,     \* edits of the board so far, which number them
  finger,    \* finger[c]: what documentFingerprint returns
  cache,     \* SummaryIndex.cards: card -> [shows, finger]
  shown,     \* SummaryIndex.view: card -> text its summary was made from
  dirty,     \* SummaryIndex.dirty
  rebuild,   \* SummaryIndex.rebuild
  closed,    \* SummaryIndex.closed
  gen,       \* SummaryIndex.gen
  phase,     \* phase[v]: "idle", "scan" or "finish"
  snap,      \* snap[v]: the summarySnapshot of beginView, with its strong flag
  todo,      \* todo[v]: selected cards the scan has still to read
  next,      \* next[v]: cachedCard of each card read so far
  changed,   \* changed[v]: the scan differs from the snapshot's view
  asked,     \* ghost, asked[c]: text when Invalidate was last called for c
  begun      \* ghost, begun[v]: board at the beginView of the call's last round

indexBoard == <<live, text, finger, edits>>
indexState == <<cache, shown, dirty, rebuild, closed, gen>>
viewState  == <<phase, snap, todo, next, changed, begun>>
indexVars  == <<indexBoard, indexState, viewState, asked>>

NoView == [c \in {} |-> 0]
NoSnap == [gen |-> 0, rebuild |-> TRUE, dirty |-> {}, cache |-> NoView,
           shown |-> NoView, strong |-> FALSE]
NoBoard == [live |-> {}, finger |-> [c \in IndexCards |-> 0]]

IndexInit ==
  /\ live = IndexCards
  /\ text = [c \in IndexCards |-> 0]
  /\ finger = [c \in IndexCards |-> 0]
  /\ edits = 0
  /\ cache = NoView /\ shown = NoView
  /\ dirty = {} /\ rebuild = TRUE /\ closed = FALSE /\ gen = 0
  /\ phase = [v \in Viewers |-> "idle"]
  /\ snap = [v \in Viewers |-> NoSnap]
  /\ todo = [v \in Viewers |-> {}]
  /\ next = [v \in Viewers |-> NoView]
  /\ changed = [v \in Viewers |-> FALSE]
  /\ asked = [c \in IndexCards |-> 0]
  /\ begun = [v \in Viewers |-> NoBoard]

-----------------------------------------------------------------------------
(* The board.  captureCommittedScan holds the shared lock of every card it   *)
(* selected, so a kander command waits for a scan; an editor does not.       *)

Scanning == \E v \in Viewers : phase[v] = "scan"

\* A kander command rewrites card c.
Rewrite(c) ==
  /\ ~Scanning /\ c \in live /\ edits < MaxEdits
  /\ edits' = edits + 1
  /\ text' = [text EXCEPT ![c] = edits + 1]
  /\ finger' = [finger EXCEPT ![c] = edits + 1]
  /\ UNCHANGED <<live, indexState, viewState, asked>>

\* A kander command moves card c out of the listed states, or brings it back.
Relist(c) ==
  /\ ~Scanning /\ edits < MaxEdits
  /\ live' = IF c \in live THEN live \ {c} ELSE live \cup {c}
  /\ edits' = edits + 1
  /\ text' = [text EXCEPT ![c] = edits + 1]
  /\ finger' = [finger EXCEPT ![c] = edits + 1]
  /\ UNCHANGED <<indexState, viewState, asked>>

\* An editor saves card c; "hidden" keeps size, time and file index.
EditOutside(c, hidden) ==
  /\ c \in live /\ edits < MaxEdits
  /\ edits' = edits + 1
  /\ text' = [text EXCEPT ![c] = edits + 1]
  /\ finger' = IF hidden THEN finger ELSE [finger EXCEPT ![c] = edits + 1]
  /\ UNCHANGED <<live, indexState, viewState, asked>>

-----------------------------------------------------------------------------
(* The index.                                                                *)

\* Invalidate(ids...): marks cards, or the whole index when called with none.
Invalidate(ids) ==
  /\ ~closed /\ gen < MaxMarks
  /\ gen' = gen + 1
  /\ IF ids = {} THEN rebuild' = TRUE /\ dirty' = {}
                 ELSE dirty' = dirty \cup ids /\ UNCHANGED rebuild
  /\ asked' = [c \in IndexCards |->
                 IF c \in ids \/ ids = {} THEN text[c] ELSE asked[c]]
  /\ UNCHANGED <<indexBoard, cache, shown, closed, viewState>>

\* Close: forgets everything; calls of View fail from here on.
CloseIndex ==
  /\ ~closed /\ gen < MaxMarks
  /\ closed' = TRUE /\ gen' = gen + 1
  /\ cache' = NoView /\ dirty' = {} /\ shown' = NoView
  /\ UNCHANGED <<indexBoard, rebuild, viewState, asked>>

\* beginView, and captureCommittedScan that selects the listed cards and locks
\* them.  A strong pass is due when its interval has passed since the last one.
BeginRound(v, strong) ==
  /\ ~closed /\ (strong => ~rebuild)
  /\ phase' = [phase EXCEPT ![v] = "scan"]
  /\ snap' = [snap EXCEPT ![v] =
       [gen |-> gen, rebuild |-> rebuild, dirty |-> dirty, cache |-> cache,
        shown |-> shown, strong |-> strong]]
  /\ todo' = [todo EXCEPT ![v] = live]
  /\ next' = [next EXCEPT ![v] = NoView]
  /\ changed' = [changed EXCEPT ![v] = rebuild]
  /\ begun' = [begun EXCEPT ![v] = [live |-> live, finger |-> finger]]
  /\ UNCHANGED <<indexBoard, indexState, asked>>

View(v, strong) == phase[v] = "idle" /\ BeginRound(v, strong)

\* The call returns; what it worked with is gone.
Return(v) ==
  /\ phase' = [phase EXCEPT ![v] = "idle"]
  /\ snap' = [snap EXCEPT ![v] = NoSnap]
  /\ next' = [next EXCEPT ![v] = NoView]
  /\ todo' = [todo EXCEPT ![v] = {}]
  /\ changed' = [changed EXCEPT ![v] = FALSE]
  /\ begun' = [begun EXCEPT ![v] = NoBoard]

\* The loop body of refreshFrom for one selected card: the cached summary is
\* kept when nothing asks for the body, or when the body turns out the same.
NeedBody(s, c) ==
  \/ s.strong \/ s.rebuild \/ c \in s.dirty
  \/ c \notin DOMAIN s.cache
  \/ s.cache[c].finger # finger[c]

KeepCached(s, c) ==
  \/ ~NeedBody(s, c)
  \/ /\ c \in DOMAIN s.cache /\ ~s.rebuild /\ c \notin s.dirty
     /\ s.cache[c] = [shows |-> text[c], finger |-> finger[c]]

ReadCard(v, c) ==
  /\ phase[v] = "scan" /\ c \in todo[v]
  /\ LET s == snap[v]
         keep == KeepCached(s, c)
         card == IF keep THEN s.cache[c]
                         ELSE [shows |-> text[c], finger |-> finger[c]]
     IN /\ next' = [next EXCEPT ![v] = [x \in DOMAIN @ \cup {c} |->
                                          IF x = c THEN card ELSE @[x]]]
        /\ changed' = [changed EXCEPT ![v] = @ \/ ~keep]
  /\ todo' = [todo EXCEPT ![v] = @ \ {c}]
  /\ UNCHANGED <<indexBoard, indexState, phase, snap, begun, asked>>

\* A cached card the scan did not meet means the list changed.
SomeGone(v) == \E c \in DOMAIN snap[v].cache : c \notin DOMAIN next[v]

\* The view refreshFrom returns: the snapshot's when nothing changed.
Built(v) ==
  IF changed[v] \/ SomeGone(v) THEN [c \in DOMAIN next[v] |-> next[v][c].shows]
                               ELSE snap[v].shown

\* The end of refreshFrom: the locks are released.
EndScan(v) ==
  /\ phase[v] = "scan" /\ todo[v] = {}
  /\ phase' = [phase EXCEPT ![v] = "finish"]
  /\ UNCHANGED <<indexBoard, indexState, snap, todo, next, changed,
                 begun, asked>>

\* Slip: what was built is published whatever happened meanwhile.
Superseded_Never(v) == FALSE
\* finishView.  Whatever was built from an older generation is thrown away.
Superseded(v) == gen # snap[v].gen

Publish(v) ==
  /\ phase[v] = "finish" /\ ~closed /\ ~Superseded(v)
  /\ cache' = next[v]
  /\ shown' = Built(v)
  /\ rebuild' = FALSE /\ dirty' = {}
  /\ Return(v)
  /\ UNCHANGED <<indexBoard, closed, gen, asked>>

RoundAgain(v, strong) ==
  /\ phase[v] = "finish" /\ Superseded(v) /\ BeginRound(v, strong)

\* The call fails: the index was closed, the scan met an error, or the caller's
\* context ended before or during the scan.
ViewFails(v) ==
  /\ phase[v] # "idle" /\ (phase[v] = "finish" => closed)
  /\ Return(v)
  /\ UNCHANGED <<indexBoard, indexState, asked>>

IndexNext ==
  \/ \E c \in IndexCards : Rewrite(c) \/ Relist(c)
  \/ \E c \in IndexCards, hidden \in BOOLEAN : EditOutside(c, hidden)
  \/ \E ids \in SUBSET IndexCards : Invalidate(ids)
  \/ CloseIndex
  \/ \E v \in Viewers, strong \in BOOLEAN : View(v, strong) \/ RoundAgain(v, strong)
  \/ \E v \in Viewers, c \in IndexCards : ReadCard(v, c)
  \/ \E v \in Viewers : EndScan(v) \/ Publish(v) \/ ViewFails(v)

IndexSpec == IndexInit /\ [][IndexNext]_indexVars

-----------------------------------------------------------------------------
(* A view that is returned lists exactly the cards on the board when its     *)
(* last round began, none of them older than the last Invalidate that named  *)
(* it (even one that ran during the scan, which must not be swallowed by the *)
(* publication) and none older than the fingerprint that round began with.   *)
ViewCurrent ==
  [][\A v \in Viewers : Publish(v) =>
       /\ DOMAIN Built(v) = begun[v].live
       /\ \A c \in DOMAIN Built(v) :
            /\ Built(v)[c] >= asked[c]
            /\ Built(v)[c] >= begun[v].finger[c]]_indexVars
=============================================================================
