-------------------------- MODULE ExtractModalProofs --------------------------
(***************************************************************************)
(* Proofs about ExtractModal, for any number of modals, runs, roots and    *)
(* selections: its types, that one extraction at most is live, and that a  *)
(* restore keeps its staging directory; and, until a second modal is       *)
(* opened, that what the screen waits for comes and what it says is true.  *)
(***************************************************************************)
EXTENDS ExtractModal, TLAPS

Modal == [state : States, gen : 0..MaxGen, cancel : 0..MaxRuns, item : Items, queue : Seq(Items), diff : BOOLEAN,
          published : Seq(Paths), root : Roots, priv : BOOLEAN, isSudoBusy : BOOLEAN, refused : BOOLEAN,
          resultStaging : Paths \cup {NoPath}, ranTargetRoot : Roots \cup {NoRoot}, counts : 0..MaxModals]
Run == [session : 1..MaxModals, gen : 0..MaxGen, path : Paths, canceled : BOOLEAN,
        phase : {"start", "restore", "over"}]
Message == [type : {"run", "counts", "probe", "auth", "delete", "back"}, session : 1..MaxModals, gen : 0..MaxGen,
            out : {"none", "ok", "failed", "canceled", "refused"}, path : Paths \cup {NoPath}]
Deletion == [session : 1..MaxModals, gen : 0..MaxGen, path : Paths]

Shape ==
    /\ m \in Modal /\ active \in BOOLEAN /\ session \in 0..MaxModals /\ memo \in Roots \cup {NoRoot}
    /\ runs \in Seq(Run) /\ Len(runs) <= MaxRuns /\ m.cancel <= Len(runs)
    /\ deletions \subseteq Deletion /\ DOMAIN msgs \subseteq Message
    /\ staging \subseteq Paths /\ final \subseteq Paths /\ stopAsked \in BOOLEAN
    /\ active => session > 0

\* The live run is the one whose cancel function the modal holds.
LiveInv == \A r \in DOMAIN runs : Live(r) => active /\ runs[r].session = session /\ r = m.cancel

-----------------------------------------------------------------------------
(* A staging directory is in one hand at a time: that of the run that      *)
(* restores into it, then of its report, of the screen that shows it, and  *)
(* of the deletion asked for there.  A published one is gone for good: its *)
(* target stays, and where a target is nobody makes a staging directory.   *)

Restores(r) == runs[r].phase = "restore"
Reports(msg) == msg.type = "run" /\ msg.path # NoPath
Shows(path) == m.state \in {"canceled", "error"} /\ m.resultStaging = path

RunHolds ==
    \A r \in DOMAIN runs : Restores(r) =>
        /\ runs[r].path \in staging /\ ~Shows(runs[r].path)
        /\ \A q \in DOMAIN runs : Restores(q) /\ runs[q].path = runs[r].path => q = r
        /\ \A msg \in DOMAIN msgs : Reports(msg) => msg.path # runs[r].path
        /\ \A d \in deletions : d.path # runs[r].path

ReportHolds ==
    \A msg \in DOMAIN msgs : Reports(msg) =>
        /\ msgs[msg] = 1
        /\ \A other \in DOMAIN msgs : Reports(other) /\ other.path = msg.path => other = msg
        /\ msg.out = "ok" => msg.path \in final /\ msg.path \notin staging
        /\ msg.out # "ok" => /\ msg.path \in staging /\ ~Shows(msg.path)
                            /\ \A d \in deletions : d.path # msg.path

DeletionHolds ==
    \A d \in deletions :
        /\ d.path \in staging /\ ~Shows(d.path)
        /\ \A other \in deletions : other.path = d.path => other = d

ScreenHolds == \A path \in Paths : Shows(path) => path \in staging \cup final

OneHand == RunHolds /\ ReportHolds /\ DeletionHolds /\ ScreenHolds
IInv == Shape /\ LiveInv /\ OneHand

-----------------------------------------------------------------------------
(* Messages. *)

LEMMA Added ==
  ASSUME NEW B, NEW x
  PROVE  /\ DOMAIN BagAdd(B, x) = DOMAIN B \cup {x}
         /\ \A y \in DOMAIN B : y # x => BagAdd(B, x)[y] = B[y]
         /\ x \notin DOMAIN B => BagAdd(B, x)[x] = 1
  BY DEF BagAdd

LEMMA Removed ==
  ASSUME NEW B, NEW x
  PROVE  /\ DOMAIN BagRemove(B, x) \subseteq DOMAIN B
         /\ \A y \in DOMAIN B : y # x => y \in DOMAIN BagRemove(B, x)
         /\ \A y \in DOMAIN BagRemove(B, x) : y # x => BagRemove(B, x)[y] = B[y]
         /\ x \in DOMAIN B /\ B[x] = 1 => x \notin DOMAIN BagRemove(B, x)
  BY DEF BagRemove

LEMMA NoPathIsNone == NoPath \notin Paths
  BY ModalAssumption DEF NoPath, Paths

LEMMA Notes ==
  ASSUME Shape, session' \in 1..MaxModals, NEW type \in {"counts", "probe", "auth", "delete", "back"}, NEW gen \in 0..MaxGen,
         NEW s \in 1..MaxModals
  PROVE  Note(type, s, gen) \in Message /\ ~Reports(Note(type, s, gen))
  BY DEF Note, Message, Reports

-----------------------------------------------------------------------------
(* Runs and modals. *)

\* What canceling a run leaves as it was.
LEMMA Canceling ==
  ASSUME runs \in Seq(Run), NEW c \in 0..Len(runs)
  PROVE  /\ CancelRun(c) \in Seq(Run) /\ Len(CancelRun(c)) = Len(runs)
         /\ \A r \in DOMAIN runs :
              /\ CancelRun(c)[r].session = runs[r].session /\ CancelRun(c)[r].path = runs[r].path
              /\ CancelRun(c)[r].phase = runs[r].phase /\ CancelRun(c)[r].gen = runs[r].gen
              /\ runs[r].canceled \/ (r = c /\ runs[r].phase # "over") <=> CancelRun(c)[r].canceled
  <1>1. CASE c = NoRun \/ runs[c].phase = "over"
    BY <1>1 DEF CancelRun, NoRun
  <1>2. CASE c # NoRun /\ runs[c].phase # "over"
    <2>1. CancelRun(c) = [runs EXCEPT ![c].canceled = TRUE] /\ c \in 1..Len(runs)
      BY <1>2 DEF CancelRun, NoRun
    <2>2. \A r \in 1..Len(runs) : runs[r] \in Run
      OBVIOUS
    <2>3. [runs[c] EXCEPT !.canceled = TRUE] \in Run
      BY <2>1, <2>2 DEF Run
    <2>4. CancelRun(c) = [runs EXCEPT ![c] = [runs[c] EXCEPT !.canceled = TRUE]]
      BY <2>1
    <2>5. CancelRun(c) \in Seq(Run) /\ Len(CancelRun(c)) = Len(runs)
      BY <2>1, <2>3, <2>4
    <2>6. \A r \in 1..Len(runs) : CancelRun(c)[r] = IF r = c THEN [runs[c] EXCEPT !.canceled = TRUE] ELSE runs[r]
      BY <2>1, <2>4
    <2> QED BY <1>2, <2>1, <2>2, <2>5, <2>6 DEF Run
  <1> QED BY <1>1, <1>2

LEMMA Opening ==
  ASSUME NEW sel \in Selections, NEW root \in Roots
  PROVE  NewModal(sel, root) \in Modal /\ NewModal(sel, root).cancel = NoRun /\ NewModal(sel, root).state = "review"
  <1>1. sel \in Seq({sel[i] : i \in DOMAIN sel}) /\ Len(sel) \in {1, 2}
    BY ModalAssumption
  <1>2. {sel[i] : i \in DOMAIN sel} \subseteq Items
    BY DEF Items
  <1>3. sel \in Seq(Items)
    BY <1>1, <1>2
  <1>4. Head(sel) \in Items /\ Tail(sel) \in Seq(Items)
    BY <1>1, <1>3
  <1>5. <<>> \in Seq(Paths)
    OBVIOUS
  <1> QED BY <1>1, <1>4, <1>5, ModalAssumption DEF NewModal, Modal, States, NoRun

LEMMA Zero == ZeroModal \in Modal /\ ZeroModal.cancel = NoRun /\ ZeroModal.state = "review"
  <1>1. (CHOOSE s \in Selections : TRUE) \in Selections
    BY ModalAssumption
  <1> QED BY <1>1, Opening, ModalAssumption DEF ZeroModal

\* A dispatched run is the only live one, and at its start.
LEMMA Starting ==
  ASSUME Shape, LiveInv, active, NEW x \in Modal, x.cancel = m.cancel, StartRun(x)
  PROVE  /\ m' \in Modal /\ m'.cancel = Len(runs) + 1 /\ m'.state = "running" /\ m'.gen = x.gen + 1
         /\ m'.root = x.root /\ m'.item = x.item /\ m'.published = x.published /\ ~m'.isSudoBusy
         /\ runs' \in Seq(Run) /\ Len(runs') = Len(runs) + 1 /\ Len(runs') <= MaxRuns
         /\ runs'[Len(runs) + 1].session = session /\ runs'[Len(runs) + 1].phase = "start"
         /\ runs'[Len(runs) + 1].gen = x.gen + 1 /\ runs'[Len(runs) + 1].path = Path(x)
         /\ \A r \in DOMAIN runs : /\ runs'[r].phase = runs[r].phase /\ runs'[r].path = runs[r].path
                                   /\ runs'[r].session = runs[r].session /\ runs'[r].gen = runs[r].gen
                                   /\ runs'[r].canceled \/ runs[r].phase = "over"
  <1> DEFINE new == [session |-> session, gen |-> x.gen + 1, path |-> Path(x), canceled |-> FALSE, phase |-> "start"]
             old == CancelRun(m.cancel)
  <1>1. runs \in Seq(Run) /\ m.cancel \in 0..Len(runs) /\ session \in 1..MaxModals
    BY ModalAssumption DEF Shape, Modal
  <1>2. new \in Run
    BY <1>1, ModalAssumption DEF StartRun, Run, Modal, Path, Paths
  <1>3. old \in Seq(Run) /\ Len(old) = Len(runs)
    BY <1>1, Canceling
  <1>4. runs' = Append(old, new)
    BY DEF StartRun
  <1>5. /\ m' \in Modal /\ m'.cancel = Len(runs) + 1 /\ m'.state = "running" /\ m'.gen = x.gen + 1
        /\ m'.root = x.root /\ m'.item = x.item /\ m'.published = x.published /\ ~m'.isSudoBusy
    <2>1. x.gen + 1 \in 0..MaxGen /\ Len(runs) + 1 \in 0..MaxRuns
      <3>1. x.gen \in 0..MaxGen /\ Len(runs) \in Nat
        BY <1>1 DEF Modal
      <3> QED BY <3>1, ModalAssumption DEF StartRun
    <2>2. m' = [x EXCEPT !.gen = x.gen + 1, !.cancel = Len(runs) + 1, !.state = "running",
                         !.ranTargetRoot = x.root, !.isSudoBusy = FALSE]
      BY DEF StartRun
    <2> DEFINE g == x.gen + 1
               c == Len(runs) + 1
    <2> HIDE DEF g, c
    <2>3. m' = [x EXCEPT !.gen = g, !.cancel = c, !.state = "running", !.ranTargetRoot = x.root, !.isSudoBusy = FALSE]
      BY <2>2 DEF g, c
    <2>4. g \in 0..MaxGen /\ c \in 0..MaxRuns
      BY <2>1 DEF g, c
    <2>5. /\ m' \in Modal /\ m'.cancel = c /\ m'.state = "running" /\ m'.gen = g
          /\ m'.root = x.root /\ m'.item = x.item /\ m'.published = x.published /\ ~m'.isSudoBusy
      BY <2>3, <2>4 DEF Modal, States
    <2> QED BY <2>5 DEF c, g
  <1>6. \A r \in DOMAIN runs : old[r].canceled \/ runs[r].phase = "over"
    BY <1>1, Canceling DEF LiveInv, Live
  <1>7. /\ runs' \in Seq(Run) /\ Len(runs') = Len(runs) + 1 /\ runs'[Len(runs) + 1] = new
        /\ \A r \in 1..Len(runs) : runs'[r] = old[r]
    <2> HIDE DEF new, old
    <2> QED BY <1>1, <1>2, <1>3, <1>4
  <1>8. Len(runs) < MaxRuns
    BY DEF StartRun
  <1>9. \A r \in DOMAIN runs : /\ old[r].phase = runs[r].phase /\ old[r].path = runs[r].path
                               /\ old[r].session = runs[r].session /\ old[r].gen = runs[r].gen
    BY <1>1, Canceling
  <1>10. DOMAIN runs = 1..Len(runs)
    BY <1>1
  <1> HIDE DEF old
  <1> QED BY <1>1, <1>5, <1>6, <1>7, <1>8, <1>9, <1>10, ModalAssumption

\* A step that neither restores, reports, deletes nor shows anything new.
LEMMA Calm ==
  ASSUME Shape, OneHand, deletions' = deletions, staging' = staging, final \subseteq final',
         \A r \in DOMAIN runs' : runs'[r].phase = "restore" =>
             r \in DOMAIN runs /\ runs[r].phase = "restore" /\ runs'[r].path = runs[r].path,
         \A msg \in DOMAIN msgs' : Reports(msg) => msg \in DOMAIN msgs /\ msgs'[msg] = msgs[msg],
         \A path \in Paths : Shows(path)' => Shows(path)
  PROVE  OneHand'
  <1>1. /\ \A r \in DOMAIN runs : runs[r].path \in Paths
        /\ \A msg \in DOMAIN msgs : Reports(msg) => msg.path \in Paths
        /\ \A d \in deletions : d.path \in Paths
    <2>1. \A r \in DOMAIN runs : runs[r] \in Run
      BY DEF Shape
    <2> QED BY <2>1 DEF Shape, Run, Message, Deletion, Reports
  <1>2. RunHolds'
    BY <1>1 DEF OneHand, RunHolds, Restores
  <1>3. ReportHolds'
    BY <1>1 DEF OneHand, ReportHolds
  <1>4. DeletionHolds'
    BY <1>1 DEF OneHand, DeletionHolds
  <1>5. ScreenHolds'
    BY DEF OneHand, ScreenHolds
  <1> QED BY <1>2, <1>3, <1>4, <1>5 DEF OneHand

\* One message more or less, and not a report, leaves the reports as they are.
LEMMA Sending ==
  ASSUME Shape, NEW msg \in Message, ~Reports(msg), msgs' = BagAdd(msgs, msg)
  PROVE  /\ DOMAIN msgs' \subseteq Message
         /\ \A n \in DOMAIN msgs' : Reports(n) => n \in DOMAIN msgs /\ msgs'[n] = msgs[n]
  <1>1. DOMAIN msgs' = DOMAIN msgs \cup {msg} /\ \A n \in DOMAIN msgs : n # msg => msgs'[n] = msgs[n]
    BY Added
  <1>2. \A n \in DOMAIN msgs' : Reports(n) => n \in DOMAIN msgs /\ n # msg
    BY <1>1
  <1> QED BY <1>1, <1>2 DEF Shape

-----------------------------------------------------------------------------
(* Keys. *)

LEMMA Opens == ASSUME IInv, OpenModal PROVE IInv'
  <1>1. Shape /\ LiveInv /\ OneHand /\ session' = session + 1 /\ session' \in 1..MaxModals /\ ~active
    BY ModalAssumption DEF IInv, Shape, OpenModal
  <1>2. PICK sel \in Selections, isDir \in BOOLEAN :
          /\ m' = NewModal(sel, IF memo = NoRoot THEN DefaultRoot ELSE memo)
          /\ msgs' = IF isDir THEN BagAdd(msgs, Note("counts", session + 1, 0)) ELSE msgs
    BY DEF OpenModal
  <1>3. m' \in Modal /\ m'.cancel = NoRun /\ m'.state = "review"
    BY <1>1, <1>2, Opening, ModalAssumption DEF Shape
  <1>4. /\ DOMAIN msgs' \subseteq Message
        /\ \A n \in DOMAIN msgs' : Reports(n) => n \in DOMAIN msgs /\ msgs'[n] = msgs[n]
    <2>1. CASE isDir
      <3>1. Note("counts", session', 0) \in Message /\ ~Reports(Note("counts", session', 0))
        BY <1>1, Notes, ModalAssumption
      <3> QED BY <1>1, <1>2, <2>1, <3>1, Sending
    <2>2. CASE ~isDir
      BY <1>1, <1>2, <2>2 DEF Shape
    <2> QED BY <2>1, <2>2
  <1>5. runs' = runs /\ deletions' = deletions /\ staging' = staging /\ final' = final /\ memo' = memo
        /\ active' = TRUE /\ stopAsked' = FALSE
    BY DEF OpenModal, diskVars
  <1>6. Shape'
    <2>1. Len(runs) \in Nat /\ session' > 0
      BY <1>1 DEF Shape
    <2>2. Len(runs') <= MaxRuns /\ m'.cancel <= Len(runs') /\ runs' \in Seq(Run)
      BY <1>1, <1>3, <1>5, <2>1 DEF Shape, NoRun
    <2>3. session' \in 0..MaxModals
      BY <1>1
    <2> QED BY <1>1, <1>3, <1>4, <1>5, <2>1, <2>2, <2>3 DEF Shape
  <1>7. LiveInv'
    BY <1>1, <1>5 DEF LiveInv, Live
  <1>8. OneHand'
    BY <1>1, <1>3, <1>4, <1>5, Calm DEF Shows
  <1> QED BY <1>6, <1>7, <1>8 DEF IInv

\* Keys that only turn to another screen of the modal.
LEMMA Turns ==
  ASSUME IInv, ClosePickerKey \/ TargetKey \/ PrivKey \/ PickRoot \/ RetargetKey
  PROVE  IInv'
  <1>1. UNCHANGED <<active, session, memo, runs, deletions, msgs, staging, final, stopAsked>>
    BY DEF ClosePickerKey, TargetKey, PrivKey, PickRoot, RetargetKey, rootVars, diskVars
  <1>2. Shape /\ LiveInv /\ OneHand
    BY DEF IInv
  <1>3. m' \in Modal /\ m'.cancel = m.cancel /\ m'.state \notin {"canceled", "error"}
    <2>1. m \in Modal
      BY <1>2 DEF Shape
    <2>2. CASE ClosePickerKey BY <2>1, <2>2 DEF ClosePickerKey, Modal, States
    <2>3. CASE TargetKey BY <2>1, <2>3 DEF TargetKey, Modal, States
    <2>4. CASE PrivKey BY <2>1, <2>4 DEF PrivKey, InReview, Modal
    <2>5. CASE PickRoot
      <3>1. PICK root \in Roots : m' = [m EXCEPT !.root = root, !.state = "review"]
        BY <2>5 DEF PickRoot
      <3> QED BY <2>1, <2>5, <3>1 DEF PickRoot, Modal, States
    <2>6. CASE RetargetKey BY <2>1, <2>6 DEF RetargetKey, Modal, States
    <2> QED BY <2>2, <2>3, <2>4, <2>5, <2>6
  <1>4. Shape'
    BY <1>1, <1>2, <1>3 DEF Shape
  <1>5. LiveInv'
    BY <1>1, <1>2, <1>3 DEF LiveInv, Live
  <1>6. OneHand'
    BY <1>1, <1>2, <1>3, Calm DEF Shows
  <1> QED BY <1>4, <1>5, <1>6 DEF IInv

\* What canceling the current run does to the invariant, whatever the modal does.
LEMMA Superseding ==
  ASSUME Shape, LiveInv, runs' = CancelRun(m.cancel)
  PROVE  /\ runs' \in Seq(Run) /\ Len(runs') = Len(runs) /\ DOMAIN runs' = DOMAIN runs
         /\ \A r \in DOMAIN runs : /\ runs'[r].phase = "over" \/ runs'[r].canceled
                                   /\ runs'[r].phase = runs[r].phase /\ runs'[r].path = runs[r].path
                                   /\ runs'[r].session = runs[r].session /\ runs'[r].gen = runs[r].gen
  <1>1. m.cancel \in 0..Len(runs) /\ runs \in Seq(Run)
    BY DEF Shape, Modal
  <1>2. \A r \in DOMAIN runs : runs[r].canceled \/ r = m.cancel \/ runs[r].phase = "over"
    BY DEF LiveInv, Live
  <1> QED BY <1>1, <1>2, Canceling

LEMMA Cancels == ASSUME IInv, CancelKey PROVE IInv'
  <1>1. UNCHANGED <<m, active, session, memo, deletions, msgs, staging, final>> /\ stopAsked' = TRUE
        /\ runs' = CancelRun(m.cancel)
    BY DEF CancelKey, rootVars, diskVars
  <1>2. Shape /\ LiveInv /\ OneHand
    BY DEF IInv
  <1>3. Shape'
    BY <1>1, <1>2, Superseding DEF Shape
  <1>4. LiveInv'
    BY <1>1, <1>2, Superseding DEF LiveInv, Live
  <1>5. OneHand'
    BY <1>1, <1>2, Superseding, Calm DEF Shows
  <1> QED BY <1>3, <1>4, <1>5 DEF IInv

LEMMA Leaves == ASSUME IInv, LeaveKey PROVE IInv'
  <1>1. /\ UNCHANGED <<active, session, memo, deletions, staging, final, stopAsked>>
        /\ runs' = CancelRun(m.cancel) /\ m' = [m EXCEPT !.gen = @ + 1, !.cancel = NoRun]
        /\ msgs' = BagAdd(msgs, Note("back", session, m.gen)) /\ active /\ m.gen < MaxGen
    BY DEF LeaveKey, Supersede, Send, rootVars, diskVars
  <1>2. Shape /\ LiveInv /\ OneHand
    BY DEF IInv
  <1>3. m' \in Modal /\ m'.cancel = 0 /\ m'.state = m.state /\ m'.resultStaging = m.resultStaging
    <2> DEFINE g == m.gen + 1
    <2>1. g \in 0..MaxGen /\ 0 \in 0..MaxRuns
      BY <1>1, <1>2, ModalAssumption DEF Shape, Modal
    <2>2. m' = [m EXCEPT !.gen = g, !.cancel = 0]
      BY <1>1 DEF NoRun
    <2> HIDE DEF g
    <2> QED BY <1>2, <2>1, <2>2 DEF Shape, Modal
  <1>4. Note("back", session, m.gen) \in Message /\ ~Reports(Note("back", session, m.gen))
    <2>1. session \in 1..MaxModals /\ session' \in 1..MaxModals /\ m.gen \in 0..MaxGen
      BY <1>1, <1>2, ModalAssumption DEF Shape, Modal
    <2> QED BY <1>2, <2>1, Notes
  <1>5. Shape'
    BY <1>1, <1>2, <1>3, <1>4, Superseding, Sending DEF Shape
  <1>6. LiveInv'
    BY <1>1, <1>2, Superseding DEF LiveInv, Live
  <1>7. OneHand'
    BY <1>1, <1>2, <1>3, <1>4, Superseding, Sending, Calm DEF Shows
  <1> QED BY <1>5, <1>6, <1>7 DEF IInv

\* The dispatch of a run, by enter or by a message, keeps the invariant.
LEMMA Dispatched ==
  ASSUME Shape, LiveInv, OneHand, active, NEW x \in Modal, x.cancel = m.cancel, StartRun(x),
         UNCHANGED <<active, session, memo, deletions, staging, final>>, stopAsked' \in BOOLEAN,
         DOMAIN msgs' \subseteq Message,
         \A n \in DOMAIN msgs' : Reports(n) => n \in DOMAIN msgs /\ msgs'[n] = msgs[n]
  PROVE  IInv'
  <1>1. Shape'
    BY Starting DEF Shape
  <1>2. DOMAIN runs' = 1..(Len(runs) + 1) /\ DOMAIN runs = 1..Len(runs)
    BY Starting DEF Shape
  <1>3. \A r \in DOMAIN runs' : r \in DOMAIN runs \/ r = Len(runs) + 1
    BY <1>2, Starting DEF Shape
  <1>4. LiveInv'
    BY <1>3, Starting DEF LiveInv, Live
  <1>5. OneHand'
    BY <1>3, Starting, Calm DEF Shows
  <1> QED BY <1>1, <1>4, <1>5 DEF IInv

LEMMA Enters == ASSUME IInv, EnterKey PROVE IInv'
  <1>1. /\ UNCHANGED <<active, session, memo, deletions, staging, final>>
        /\ stopAsked' = FALSE /\ active /\ m.state = "review"
    BY DEF EnterKey, InReview, rootVars, diskVars
  <1>2. Shape /\ LiveInv /\ OneHand
    BY DEF IInv
  <1>3. CASE StartRun(m) /\ UNCHANGED msgs
    BY <1>1, <1>2, <1>3, Dispatched DEF Shape
  <1>4. CASE /\ runs' = CancelRun(m.cancel) /\ m.gen < MaxGen
             /\ m' = [m EXCEPT !.gen = @ + 1, !.cancel = NoRun, !.isSudoBusy = TRUE]
             /\ msgs' = BagAdd(msgs, Note("probe", session, m.gen + 1))
    <2>1. m' \in Modal /\ m'.cancel = 0 /\ m'.state = "review"
      <3> DEFINE g == m.gen + 1
      <3>1. g \in 0..MaxGen /\ 0 \in 0..MaxRuns
        BY <1>2, <1>4, ModalAssumption DEF Shape, Modal
      <3>2. m' = [m EXCEPT !.gen = g, !.cancel = 0, !.isSudoBusy = TRUE]
        BY <1>4 DEF NoRun
      <3> HIDE DEF g
      <3> QED BY <1>1, <1>2, <3>1, <3>2 DEF Shape, Modal
    <2>2. Note("probe", session, m.gen + 1) \in Message /\ ~Reports(Note("probe", session, m.gen + 1))
      <3>1. session \in 1..MaxModals /\ session' \in 1..MaxModals /\ m.gen + 1 \in 0..MaxGen
        BY <1>1, <1>2, <1>4, ModalAssumption DEF Shape, Modal
      <3> QED BY <1>2, <3>1, Notes
    <2>3. Shape'
      <3>1. Len(runs) \in Nat /\ Len(runs') = Len(runs) /\ runs' \in Seq(Run)
        BY <1>2, <1>4, Superseding DEF Shape
      <3>2. DOMAIN msgs' \subseteq Message
        BY <1>2, <1>4, <2>2, Sending
      <3>3. Len(runs') <= MaxRuns /\ m'.cancel <= Len(runs')
        BY <1>2, <2>1, <3>1 DEF Shape
      <3> QED BY <1>1, <1>2, <2>1, <3>1, <3>2, <3>3 DEF Shape
    <2>4. LiveInv'
      BY <1>1, <1>2, <1>4, Superseding DEF LiveInv, Live
    <2>5. OneHand'
      BY <1>1, <1>2, <1>4, <2>1, <2>2, Superseding, Sending, Calm DEF Shows
    <2> QED BY <2>3, <2>4, <2>5 DEF IInv
  <1> QED BY <1>3, <1>4 DEF EnterKey, Supersede, Send

\* A deletion takes over what the screen showed.
LEMMA Deletes == ASSUME IInv, DeleteKey PROVE IInv'
  <1>1. /\ UNCHANGED <<active, session, memo, runs, staging, final, stopAsked>>
        /\ m' = [m EXCEPT !.state = "keepDelete"] /\ active /\ Shows(m.resultStaging) /\ m.resultStaging \in staging
    BY DEF DeleteKey, StagingPending, Shows, rootVars, diskVars
  <1>2. Shape /\ LiveInv /\ OneHand
    BY DEF IInv
  <1>3. m' \in Modal /\ m'.cancel = m.cancel /\ \A path : ~Shows(path)'
    BY <1>1, <1>2 DEF Shape, Modal, States, Shows
  <1>4. session \in 1..MaxModals /\ session' \in 1..MaxModals /\ m.gen \in 0..MaxGen
    BY <1>1, <1>2, ModalAssumption DEF Shape, Modal
  <1>5. LiveInv'
    BY <1>1, <1>2, <1>3 DEF LiveInv, Live
  <1>6. CASE /\ deletions' = deletions \cup {[session |-> session, gen |-> m.gen, path |-> m.resultStaging]}
             /\ msgs' = msgs
    <2> DEFINE d == [session |-> session, gen |-> m.gen, path |-> m.resultStaging]
    <2>1. d \in Deletion /\ d.path = m.resultStaging
      BY <1>1, <1>2, <1>4 DEF Shape, Deletion
    <2> HIDE DEF d
    <2>2. deletions' = deletions \cup {d}
      BY <1>6 DEF d
    <2>3. Shape'
      BY <1>1, <1>2, <1>3, <1>6, <2>1, <2>2 DEF Shape
    <2>4. RunHolds'
      BY <1>1, <1>2, <1>3, <1>6, <2>1, <2>2 DEF OneHand, RunHolds, Restores
    <2>5. ReportHolds'
      BY <1>1, <1>2, <1>3, <1>6, <2>1, <2>2 DEF OneHand, ReportHolds
    <2>6. DeletionHolds'
      BY <1>1, <1>2, <1>3, <1>6, <2>1, <2>2 DEF OneHand, DeletionHolds
    <2>7. ScreenHolds'
      BY <1>3 DEF ScreenHolds
    <2> QED BY <1>5, <2>3, <2>4, <2>5, <2>6, <2>7 DEF IInv, OneHand
  <1>7. CASE deletions' = deletions /\ msgs' = BagAdd(msgs, Note("delete", session, m.gen))
    <2>1. Note("delete", session, m.gen) \in Message /\ ~Reports(Note("delete", session, m.gen))
      BY <1>2, <1>4, Notes
    <2>2. Shape'
      BY <1>1, <1>2, <1>3, <1>7, <2>1, Sending DEF Shape
    <2>3. OneHand'
      BY <1>1, <1>2, <1>3, <1>7, <2>1, Sending, Calm
    <2> QED BY <1>5, <2>2, <2>3 DEF IInv
  <1> QED BY <1>6, <1>7 DEF DeleteKey, Send

-----------------------------------------------------------------------------
(* Messages and Update. *)

\* A message taken out takes its report along.
LEMMA Dropping ==
  ASSUME Shape, OneHand, NEW msg \in DOMAIN msgs
  PROVE  /\ DOMAIN BagRemove(msgs, msg) \subseteq Message
         /\ \A n \in DOMAIN BagRemove(msgs, msg) : Reports(n) =>
              n \in DOMAIN msgs /\ n # msg /\ BagRemove(msgs, msg)[n] = msgs[n]
  <1>1. /\ DOMAIN BagRemove(msgs, msg) \subseteq DOMAIN msgs
        /\ \A n \in DOMAIN BagRemove(msgs, msg) : n # msg => BagRemove(msgs, msg)[n] = msgs[n]
        /\ msgs[msg] = 1 => msg \notin DOMAIN BagRemove(msgs, msg)
    BY Removed
  <1>2. Reports(msg) => msgs[msg] = 1
    BY DEF OneHand, ReportHolds
  <1> QED BY <1>1, <1>2 DEF Shape

\* An answer to a message is no report either.
LEMMA Answering ==
  ASSUME Shape, OneHand, NEW msg \in DOMAIN msgs, NEW answer \in Message, ~Reports(answer),
         msgs' = BagAdd(BagRemove(msgs, msg), answer)
  PROVE  /\ DOMAIN msgs' \subseteq Message
         /\ \A n \in DOMAIN msgs' : Reports(n) => n \in DOMAIN msgs /\ msgs'[n] = msgs[n]
  <1> DEFINE rest == BagRemove(msgs, msg)
  <1>1. /\ DOMAIN rest \subseteq Message
        /\ \A n \in DOMAIN rest : Reports(n) => n \in DOMAIN msgs /\ n # msg /\ rest[n] = msgs[n]
    BY Dropping
  <1> HIDE DEF rest
  <1>2. DOMAIN msgs' = DOMAIN rest \cup {answer} /\ \A n \in DOMAIN rest : n # answer => msgs'[n] = rest[n]
    BY Added DEF rest
  <1>3. \A n \in DOMAIN msgs' : Reports(n) => n \in DOMAIN rest /\ n # answer
    BY <1>2
  <1> QED BY <1>1, <1>2, <1>3

\* A message that changes the modal at most, and shows nothing new.
LEMMA Quiet ==
  ASSUME IInv, UNCHANGED <<runs, active, session, memo, deletions, staging, final, stopAsked>>,
         m' \in Modal, m'.cancel = m.cancel, \A path \in Paths : Shows(path)' => Shows(path),
         DOMAIN msgs' \subseteq Message,
         \A n \in DOMAIN msgs' : Reports(n) => n \in DOMAIN msgs /\ msgs'[n] = msgs[n]
  PROVE  IInv'
  <1>1. Shape'
    BY DEF IInv, Shape
  <1>2. LiveInv'
    BY DEF IInv, LiveInv, Live
  <1>3. OneHand'
    BY Calm DEF IInv
  <1> QED BY <1>1, <1>2, <1>3 DEF IInv

\* A run's end is shown; the screen takes over the staging directory of its report.
LEMMA RunReceived ==
  ASSUME IInv, NEW msg \in DOMAIN msgs, active, msg.type = "run", ApplyRun(msg), msgs' = BagRemove(msgs, msg),
         UNCHANGED <<active, session, memo, deletions, staging, final, stopAsked>>
  PROVE  IInv'
  <1>1. Shape /\ LiveInv /\ OneHand /\ m \in Modal /\ msg \in Message
    BY DEF IInv, Shape
  <1>2. /\ DOMAIN msgs' \subseteq Message
        /\ \A n \in DOMAIN msgs' : Reports(n) => n \in DOMAIN msgs /\ n # msg /\ msgs'[n] = msgs[n]
    BY <1>1, Dropping
  <1> DEFINE published == IF m.diff THEN Append(m.published, Path(m)) ELSE m.published
             done == [m EXCEPT !.resultStaging = msg.path, !.refused = FALSE, !.published = published]
             next == [done EXCEPT !.item = Head(m.queue), !.queue = Tail(m.queue)]
  <1>3. published \in Seq(Paths)
    <2>1. Path(m) \in Paths /\ m.published \in Seq(Paths)
      BY <1>1 DEF Modal, Path, Paths
    <2> QED BY <2>1
  <1>4. done \in Modal /\ done.cancel = m.cancel
    <2> HIDE DEF published
    <2> QED BY <1>1, <1>3 DEF Modal, Message
  <1>5. CASE UNCHANGED <<m, runs>>
    BY <1>1, <1>2, <1>5, Quiet DEF Shows
  <1>6. CASE /\ msg.out # "ok" /\ runs' = runs
             /\ m' = [m EXCEPT !.resultStaging = msg.path,
                               !.state = IF msg.out = "canceled" THEN "canceled" ELSE "error",
                               !.refused = msg.out = "refused"]
    <2>1. m' \in Modal /\ m'.cancel = m.cancel /\ m'.resultStaging = msg.path
      BY <1>1, <1>6, ZenonT(40) DEF Modal, Message, States
    <2>2. \A path \in Paths : Shows(path)' => path = msg.path /\ Reports(msg) /\ msg.out # "ok"
      BY <1>6, <2>1, NoPathIsNone DEF Shows, Reports
    <2>3. Shape'
      BY <1>1, <1>2, <1>6, <2>1 DEF Shape
    <2>4. LiveInv'
      BY <1>1, <1>6, <2>1 DEF LiveInv, Live
    <2>5. \A r \in DOMAIN runs : runs[r].path \in Paths
      <3>1. \A r \in DOMAIN runs : runs[r] \in Run
        BY <1>1 DEF Shape
      <3> QED BY <3>1 DEF Run
    <2>6. RunHolds'
      BY <1>1, <1>2, <1>6, <2>2, <2>5 DEF OneHand, RunHolds, Restores
    <2>7. ReportHolds'
      <3>1. \A n \in DOMAIN msgs' : Reports(n) => n.path \in Paths
        BY <1>2 DEF Reports, Message
      <3> QED BY <1>1, <1>2, <2>2, <3>1 DEF OneHand, ReportHolds
    <2>8. DeletionHolds'
      <3>1. \A d \in deletions : d.path \in Paths
        BY <1>1 DEF Shape, Deletion
      <3> QED BY <1>1, <2>2, <3>1 DEF OneHand, DeletionHolds, ReportHolds
    <2>9. ScreenHolds'
      BY <1>1, <2>2 DEF OneHand, ScreenHolds, ReportHolds
    <2> QED BY <2>3, <2>4, <2>6, <2>7, <2>8, <2>9 DEF IInv, OneHand
  <1>7. CASE m.queue # <<>> /\ StartRun(next)
    <2>1. Head(m.queue) \in Items /\ Tail(m.queue) \in Seq(Items)
      BY <1>1, <1>7 DEF Modal
    <2>2. next \in Modal /\ next.cancel = m.cancel
      <3> HIDE DEF done
      <3> QED BY <1>4, <2>1 DEF Modal
    <2> HIDE DEF next
    <2>3. stopAsked' \in BOOLEAN
      BY <1>1 DEF Shape
    <2> QED BY <1>1, <1>2, <1>7, <2>2, <2>3, Dispatched
  <1>8. CASE m' = [done EXCEPT !.state = "success"] /\ runs' = runs
    <2>1. m' \in Modal /\ m'.cancel = m.cancel /\ m'.state = "success"
      <3> HIDE DEF done
      <3> QED BY <1>4, <1>8 DEF Modal, States
    <2> QED BY <1>2, <1>8, <2>1, Quiet DEF Shows
  <1>9. CASE msg.out = "ok" /\ m' = [done EXCEPT !.state = "error"] /\ runs' = runs
    <2>1. m' \in Modal /\ m'.cancel = m.cancel /\ m'.resultStaging = msg.path
      <3> HIDE DEF published
      <3> QED BY <1>1, <1>3, <1>4, <1>9 DEF Modal, Message, States
    <2>2. \A path \in Paths : Shows(path)' => path \in final /\ path \notin staging
      BY <1>1, <1>9, <2>1, NoPathIsNone DEF Shows, Reports, OneHand, ReportHolds
    <2>3. Shape'
      BY <1>1, <1>2, <1>9, <2>1 DEF Shape
    <2>4. LiveInv'
      BY <1>1, <1>9, <2>1 DEF LiveInv, Live
    <2>5. RunHolds'
      <3>1. \A r \in DOMAIN runs : runs[r] \in Run
        BY <1>1 DEF Shape
      <3>2. \A r \in DOMAIN runs : runs[r].path \in Paths
        BY <3>1 DEF Run
      <3> QED BY <1>1, <1>2, <1>9, <2>2, <3>2 DEF OneHand, RunHolds, Restores
    <2>6. ReportHolds'
      <3>1. \A n \in DOMAIN msgs' : Reports(n) => n.path \in Paths
        BY <1>2 DEF Reports, Message
      <3> QED BY <1>1, <1>2, <2>2, <3>1 DEF OneHand, ReportHolds
    <2>7. DeletionHolds'
      <3>1. \A d \in deletions : d.path \in Paths
        BY <1>1 DEF Shape, Deletion
      <3> QED BY <1>1, <2>2, <3>1 DEF OneHand, DeletionHolds
    <2>8. ScreenHolds'
      BY <2>2 DEF ScreenHolds
    <2> QED BY <2>3, <2>4, <2>5, <2>6, <2>7, <2>8 DEF IInv, OneHand
  <1> QED BY <1>5, <1>6, <1>7, <1>8, <1>9 DEF ApplyRun

\* The root closes the modal.
LEMMA Closed ==
  ASSUME IInv, NEW msg \in DOMAIN msgs, ApplyBack, msgs' = BagRemove(msgs, msg),
         UNCHANGED <<session, deletions, staging, final, stopAsked>>
  PROVE  IInv'
  <1>1. Shape /\ LiveInv /\ OneHand
    BY DEF IInv
  <1>2. m' \in Modal /\ m'.cancel = 0 /\ m'.state = "review" /\ active' = FALSE /\ runs' = CancelRun(m.cancel)
        /\ memo' \in Roots \cup {NoRoot}
    BY <1>1, Zero DEF ApplyBack, NoRun, Remembered, Shape, Modal
  <1>3. Shape'
    <2>1. Len(runs) \in Nat /\ Len(runs') = Len(runs) /\ runs' \in Seq(Run)
      BY <1>1, <1>2, Superseding DEF Shape
    <2>2. DOMAIN msgs' \subseteq Message
      BY <1>1, Dropping
    <2>3. m'.cancel <= Len(runs') /\ Len(runs') <= MaxRuns
      BY <1>1, <1>2, <2>1 DEF Shape
    <2> QED BY <1>1, <1>2, <2>1, <2>2, <2>3 DEF Shape
  <1>4. LiveInv'
    BY <1>1, <1>2, Superseding DEF LiveInv, Live
  <1>5. OneHand'
    BY <1>1, <1>2, Superseding, Dropping, Calm DEF Shows
  <1> QED BY <1>3, <1>4, <1>5 DEF IInv

LEMMA Delivers == ASSUME IInv, Deliver PROVE IInv'
  <1>1. PICK msg \in DOMAIN msgs : Receive(msg)
    BY DEF Deliver
  <1>2. UNCHANGED <<session, deletions, staging, final, stopAsked>>
    BY DEF Deliver, diskVars
  <1>3. Shape /\ LiveInv /\ OneHand /\ m \in Modal /\ msg \in Message
    BY <1>1 DEF IInv, Shape
  <1>4. stopAsked' \in BOOLEAN
    BY <1>2, <1>3 DEF Shape
  <1>5. /\ DOMAIN BagRemove(msgs, msg) \subseteq Message
        /\ \A n \in DOMAIN BagRemove(msgs, msg) : Reports(n) =>
             n \in DOMAIN msgs /\ n # msg /\ BagRemove(msgs, msg)[n] = msgs[n]
    BY <1>1, <1>3, Dropping
  <1>6. \A type \in {"auth", "back"} : active =>
            Note(type, session, m.gen) \in Message /\ ~Reports(Note(type, session, m.gen))
    <2>1. active => session \in 1..MaxModals /\ session' \in 1..MaxModals
      BY <1>2, <1>3, ModalAssumption DEF Shape
    <2> QED BY <1>3, <2>1, Notes DEF Modal
  <1>7. CASE /\ msgs' = BagRemove(msgs, msg) /\ UNCHANGED <<m, runs, active, memo>>
    BY <1>2, <1>3, <1>5, <1>7, Quiet DEF Shows
  <1>8. CASE /\ active /\ msgs' = BagRemove(msgs, msg) /\ UNCHANGED <<active, memo>>
             /\ StartRun(m) \/ Refuse
    <2>1. CASE StartRun(m)
      BY <1>2, <1>3, <1>4, <1>5, <1>8, <2>1, Dispatched
    <2>2. CASE Refuse
      <3>1. m' \in Modal /\ m'.cancel = m.cancel /\ m'.state = m.state /\ m'.resultStaging = m.resultStaging
            /\ runs' = runs
        BY <1>3, <2>2 DEF Refuse, Modal
      <3> QED BY <1>2, <1>5, <1>8, <3>1, Quiet DEF Shows
    <2> QED BY <1>8, <2>1, <2>2
  <1>9. CASE active /\ msg.type = "probe" /\ ApplyProbe(msg) /\ UNCHANGED <<active, memo>>
    <2>1. CASE /\ msgs' = BagAdd(BagRemove(msgs, msg), Note("auth", session, m.gen)) /\ UNCHANGED <<m, runs>>
      BY <1>1, <1>2, <1>3, <1>6, <1>9, <2>1, Answering, Quiet DEF Shows
    <2> QED BY <1>7, <1>8, <1>9, <2>1 DEF ApplyProbe
  <1>10. CASE active /\ msg.type = "delete" /\ ApplyDelete(msg) /\ UNCHANGED <<active, memo>>
    <2>1. CASE msgs' = BagAdd(BagRemove(msgs, msg), Note("back", session, m.gen))
      BY <1>1, <1>2, <1>3, <1>6, <1>10, <2>1, Answering, Quiet DEF ApplyDelete, Shows
    <2> QED BY <1>7, <1>10, <2>1 DEF ApplyDelete
  <1>11. CASE active /\ msgs' = BagRemove(msgs, msg) /\ msg.type = "run" /\ ApplyRun(msg) /\ UNCHANGED <<active, memo>>
    BY <1>1, <1>2, <1>11, RunReceived
  <1>12. CASE active /\ msgs' = BagRemove(msgs, msg) /\ ApplyCounts(msg) /\ UNCHANGED <<active, memo>>
    <2>1. m' \in Modal /\ m'.cancel = m.cancel /\ m'.state = m.state /\ m'.resultStaging = m.resultStaging
      <3>1. msg.session \in 0..MaxModals
        BY <1>3, ModalAssumption DEF Message
      <3> QED BY <1>3, <1>12, <3>1 DEF ApplyCounts, Modal
    <2> QED BY <1>2, <1>5, <1>12, <2>1, Quiet DEF ApplyCounts, Shows
  <1>13. CASE active /\ msgs' = BagRemove(msgs, msg) /\ ApplyAuth(msg) /\ UNCHANGED <<active, memo>>
    BY <1>7, <1>8, <1>13 DEF ApplyAuth
  <1>14. CASE msgs' = BagRemove(msgs, msg) /\ ApplyBack
    BY <1>1, <1>2, <1>14, Closed
  <1> QED BY <1>1, <1>7, <1>9, <1>10, <1>11, <1>12, <1>13, <1>14 DEF Receive

-----------------------------------------------------------------------------
(* Command goroutines. *)

\* Run r goes on to another phase, and nothing else about the runs changes.
LEMMA Phases ==
  ASSUME Shape, LiveInv, NEW r \in DOMAIN runs, runs[r].phase # "over", NEW p \in {"restore", "over"},
         runs' = [runs EXCEPT ![r].phase = p], UNCHANGED <<m, active, session>>
  PROVE  /\ runs' \in Seq(Run) /\ Len(runs') = Len(runs) /\ DOMAIN runs' = DOMAIN runs /\ runs'[r].phase = p
         /\ \A q \in DOMAIN runs : /\ runs'[q].path = runs[q].path /\ runs'[q].session = runs[q].session
                                   /\ runs'[q].gen = runs[q].gen /\ (q # r => runs'[q].phase = runs[q].phase)
         /\ LiveInv'
  <1>1. runs \in Seq(Run) /\ r \in 1..Len(runs) /\ runs[r] \in Run
    BY DEF Shape
  <1>2. [runs[r] EXCEPT !.phase = p] \in Run
    BY <1>1 DEF Run
  <1>3. runs' = [runs EXCEPT ![r] = [runs[r] EXCEPT !.phase = p]]
    OBVIOUS
  <1>4. runs' \in Seq(Run) /\ Len(runs') = Len(runs) /\ DOMAIN runs' = DOMAIN runs
    BY <1>1, <1>2, <1>3
  <1>5. /\ \A q \in DOMAIN runs : q # r => runs'[q] = runs[q]
        /\ runs'[r].phase = p /\ runs'[r].path = runs[r].path /\ runs'[r].canceled = runs[r].canceled
        /\ runs'[r].session = runs[r].session /\ runs'[r].gen = runs[r].gen
    <2> DEFINE new == [runs[r] EXCEPT !.phase = p]
    <2>1. /\ new.phase = p /\ new.path = runs[r].path /\ new.canceled = runs[r].canceled
          /\ new.session = runs[r].session /\ new.gen = runs[r].gen
      BY <1>1 DEF Run
    <2>2. runs' = [runs EXCEPT ![r] = new]
      BY <1>3
    <2> HIDE DEF new
    <2>3. runs'[r] = new /\ \A q \in DOMAIN runs : q # r => runs'[q] = runs[q]
      BY <1>1, <2>2
    <2> QED BY <2>1, <2>3
  <1>6. LiveInv'
    BY <1>4, <1>5 DEF LiveInv, Live
  <1> QED BY <1>4, <1>5, <1>6

Report(r, out, path) ==
    [type |-> "run", session |-> runs[r].session, gen |-> runs[r].gen, out |-> out, path |-> path]

\* A run that is over has sent its result.
Delivered(msg) ==
    /\ DOMAIN msgs' = DOMAIN msgs \cup {msg}
    /\ \A n \in DOMAIN msgs : n # msg => msgs'[n] = msgs[n]
    /\ msg \notin DOMAIN msgs => msgs'[msg] = 1

LEMMA Reporting ==
  ASSUME Shape, NEW r \in DOMAIN runs, NEW out \in {"ok", "failed", "canceled", "refused"},
         NEW path \in Paths \cup {NoPath}, Return(r, out, path)
  PROVE  /\ DOMAIN msgs' \subseteq Message /\ Report(r, out, path).path = path
         /\ Delivered(Report(r, out, path))
  <1> DEFINE msg == Report(r, out, path)
  <1>1. runs[r] \in Run
    BY DEF Shape
  <1>2. msg \in Message /\ msg.path = path
    BY <1>1 DEF Message, Run, Report
  <1>3. msgs' = BagAdd(msgs, msg)
    BY DEF Return, Send, Report
  <1> HIDE DEF msg
  <1>4. /\ DOMAIN msgs' = DOMAIN msgs \cup {msg} /\ \A n \in DOMAIN msgs : n # msg => msgs'[n] = msgs[n]
        /\ msg \notin DOMAIN msgs => msgs'[msg] = 1
    <2>1. /\ DOMAIN BagAdd(msgs, msg) = DOMAIN msgs \cup {msg}
          /\ \A n \in DOMAIN msgs : n # msg => BagAdd(msgs, msg)[n] = msgs[n]
          /\ msg \notin DOMAIN msgs => BagAdd(msgs, msg)[msg] = 1
      BY Added
    <2> QED BY <1>3, <2>1
  <1>5. DOMAIN msgs' \subseteq Message
    BY <1>2, <1>4 DEF Shape
  <1> QED BY <1>2, <1>4, <1>5 DEF msg, Delivered

LEMMA Returns ==
  ASSUME Shape, LiveInv, NEW r \in DOMAIN runs, runs[r].phase # "over", UNCHANGED <<m, active, session>>,
         NEW out, NEW path, Return(r, out, path)
  PROVE  /\ runs' \in Seq(Run) /\ Len(runs') = Len(runs) /\ DOMAIN runs' = DOMAIN runs /\ runs'[r].phase = "over"
         /\ \A q \in DOMAIN runs : /\ runs'[q].path = runs[q].path /\ runs'[q].session = runs[q].session
                                   /\ runs'[q].gen = runs[q].gen /\ (q # r => runs'[q].phase = runs[q].phase)
         /\ LiveInv'
  BY Phases DEF Return

\* A run makes its staging directory where none is, or returns without one.
LEMMA Begins == ASSUME IInv, NEW r \in DOMAIN runs, RunBegins(r) PROVE IInv'
  <1>1. UNCHANGED <<m, active, session, memo, deletions, final, stopAsked>> /\ runs[r].phase = "start"
    BY DEF RunBegins, rootVars
  <1>2. Shape /\ LiveInv /\ OneHand /\ runs[r] \in Run
    BY DEF IInv, Shape
  <1>3. runs[r].path \in Paths
    BY <1>2 DEF Run
  <1>4. CASE /\ runs[r].path \notin staging \cup final /\ staging' = staging \cup {runs[r].path}
             /\ runs' = [runs EXCEPT ![r].phase = "restore"] /\ msgs' = msgs
    <2>1. /\ runs' \in Seq(Run) /\ Len(runs') = Len(runs) /\ DOMAIN runs' = DOMAIN runs
          /\ \A q \in DOMAIN runs : runs'[q].path = runs[q].path /\ (q # r => runs'[q].phase = runs[q].phase)
          /\ LiveInv'
      BY <1>1, <1>2, <1>4, Phases
    <2>2. Shape'
      BY <1>1, <1>2, <1>3, <1>4, <2>1 DEF Shape
    <2>3. RunHolds'
      BY <1>1, <1>2, <1>3, <1>4, <2>1 DEF OneHand, RunHolds, ReportHolds, DeletionHolds, ScreenHolds, Restores, Shows
    <2>4. ReportHolds' /\ DeletionHolds' /\ ScreenHolds'
      BY <1>1, <1>2, <1>4 DEF OneHand, ReportHolds, DeletionHolds, ScreenHolds, Shows
    <2> QED BY <2>1, <2>2, <2>3, <2>4 DEF IInv, OneHand
  <1>5. ASSUME NEW out \in {"refused", "failed", "canceled"}, Return(r, out, NoPath), UNCHANGED staging
        PROVE  IInv'
    <2>1. /\ runs' \in Seq(Run) /\ Len(runs') = Len(runs) /\ DOMAIN runs' = DOMAIN runs /\ runs'[r].phase = "over"
          /\ \A q \in DOMAIN runs : runs'[q].path = runs[q].path /\ (q # r => runs'[q].phase = runs[q].phase)
          /\ LiveInv'
      BY <1>1, <1>2, <1>5, Returns
    <2>2. /\ DOMAIN msgs' \subseteq Message
          /\ \A n \in DOMAIN msgs' : Reports(n) => n \in DOMAIN msgs /\ msgs'[n] = msgs[n]
      <3>1. /\ DOMAIN msgs' \subseteq Message /\ DOMAIN msgs' = DOMAIN msgs \cup {Report(r, out, NoPath)}
            /\ \A n \in DOMAIN msgs : n # Report(r, out, NoPath) => msgs'[n] = msgs[n]
        <4>1. out \in {"ok", "failed", "canceled", "refused"} /\ NoPath \in Paths \cup {NoPath}
          OBVIOUS
        <4>2. DOMAIN msgs' \subseteq Message /\ Delivered(Report(r, out, NoPath))
          BY <1>2, <1>5, <4>1, Reporting
        <4> QED BY <4>2 DEF Delivered
      <3>2. ~Reports(Report(r, out, NoPath))
        BY DEF Report, Reports
      <3>3. \A n \in DOMAIN msgs' : Reports(n) => n \in DOMAIN msgs /\ n # Report(r, out, NoPath)
        BY <3>1, <3>2
      <3> QED BY <3>1, <3>3
    <2>3. Shape'
      BY <1>1, <1>2, <1>5, <2>1, <2>2 DEF Shape
    <2>4. OneHand'
      BY <1>1, <1>2, <1>5, <2>1, <2>2, Calm DEF Shows
    <2> QED BY <2>1, <2>3, <2>4 DEF IInv
  <1> QED BY <1>4, <1>5 DEF RunBegins, Fresh

\* Publishing takes the directory away from the only hand that has it.
LEMMA Publishes == ASSUME IInv, NEW r \in DOMAIN runs, RunPublishes(r) PROVE IInv'
  <1>1. /\ UNCHANGED <<m, active, session, memo, deletions, stopAsked>> /\ Restores(r)
        /\ staging' = staging \ {runs[r].path} /\ final' = final \cup {runs[r].path}
        /\ Return(r, "ok", runs[r].path)
    BY DEF RunPublishes, rootVars, Restores
  <1>2. Shape /\ LiveInv /\ OneHand /\ runs[r] \in Run
    BY DEF IInv, Shape
  <1>3. runs[r].path \in Paths /\ runs[r].phase # "over"
    BY <1>1, <1>2 DEF Run, Restores
  <1>4. /\ runs' \in Seq(Run) /\ Len(runs') = Len(runs) /\ DOMAIN runs' = DOMAIN runs /\ runs'[r].phase = "over"
        /\ \A q \in DOMAIN runs : runs'[q].path = runs[q].path /\ (q # r => runs'[q].phase = runs[q].phase)
        /\ LiveInv'
    BY <1>1, <1>2, <1>3, Returns
  <1> DEFINE msg == Report(r, "ok", runs[r].path)
  <1>5. /\ DOMAIN msgs' \subseteq Message /\ msg.path = runs[r].path /\ msg.out = "ok" /\ Reports(msg)
        /\ DOMAIN msgs' = DOMAIN msgs \cup {msg}
        /\ \A n \in DOMAIN msgs : n # msg => msgs'[n] = msgs[n]
        /\ msg \notin DOMAIN msgs => msgs'[msg] = 1
    <2>1. Reports(msg) /\ msg.path = runs[r].path /\ msg.out = "ok"
      BY <1>3, NoPathIsNone DEF Report, Reports
    <2>2. DOMAIN msgs' \subseteq Message /\ Delivered(msg)
      BY <1>1, <1>2, <1>3, Reporting
    <2> HIDE DEF msg
    <2> QED BY <2>1, <2>2 DEF Delivered
  <1> HIDE DEF msg
  <1>a. msg \notin DOMAIN msgs /\ msgs'[msg] = 1
    BY <1>1, <1>2, <1>5 DEF OneHand, RunHolds
  <1>6. Shape'
    BY <1>1, <1>2, <1>3, <1>4, <1>5 DEF Shape
  <1>7. RunHolds'
    BY <1>1, <1>2, <1>4, <1>5 DEF OneHand, RunHolds, Restores, Shows
  <1>8. ReportHolds'
    BY <1>1, <1>2, <1>5, <1>a DEF OneHand, RunHolds, ReportHolds, Shows
  <1>9. DeletionHolds' /\ ScreenHolds'
    BY <1>1, <1>2 DEF OneHand, RunHolds, DeletionHolds, ScreenHolds, Shows
  <1> QED BY <1>4, <1>6, <1>7, <1>8, <1>9 DEF IInv, OneHand

\* A run that fails hands its directory to its report.
LEMMA Fails == ASSUME IInv, NEW r \in DOMAIN runs, RunFails(r) PROVE IInv'
  <1>1. UNCHANGED <<m, active, session, memo, deletions, staging, stopAsked>> /\ Restores(r)
    BY DEF RunFails, rootVars, Restores
  <1>2. PICK out \in {"failed", "canceled", "refused"} : Return(r, out, runs[r].path)
    BY DEF RunFails
  <1>3. Shape /\ LiveInv /\ OneHand /\ runs[r] \in Run
    BY DEF IInv, Shape
  <1>4. runs[r].path \in Paths /\ runs[r].phase # "over"
    BY <1>1, <1>3 DEF Run, Restores
  <1>5. final' \subseteq Paths /\ final \subseteq final'
    BY <1>3, <1>4 DEF RunFails, Shape
  <1>6. /\ runs' \in Seq(Run) /\ Len(runs') = Len(runs) /\ DOMAIN runs' = DOMAIN runs /\ runs'[r].phase = "over"
        /\ \A q \in DOMAIN runs : runs'[q].path = runs[q].path /\ (q # r => runs'[q].phase = runs[q].phase)
        /\ LiveInv'
    BY <1>1, <1>2, <1>3, <1>4, Returns
  <1> DEFINE msg == Report(r, out, runs[r].path)
  <1>7. /\ DOMAIN msgs' \subseteq Message /\ msg.path = runs[r].path /\ Reports(msg) /\ msg.out # "ok"
        /\ DOMAIN msgs' = DOMAIN msgs \cup {msg}
        /\ \A n \in DOMAIN msgs : n # msg => msgs'[n] = msgs[n]
        /\ msg \notin DOMAIN msgs => msgs'[msg] = 1
    <2>1. Reports(msg) /\ msg.out # "ok"
      BY <1>4, NoPathIsNone DEF Report, Reports
    <2>2. out \in {"ok", "failed", "canceled", "refused"} /\ runs[r].path \in Paths \cup {NoPath}
      BY <1>4
    <2>3. DOMAIN msgs' \subseteq Message /\ msg.path = runs[r].path /\ Delivered(msg)
      <3>1. Return(r, out, runs[r].path)
        BY <1>2
      <3> QED BY <1>3, <2>2, <3>1, Reporting
    <2> HIDE DEF msg
    <2> QED BY <2>1, <2>3 DEF Delivered
  <1> HIDE DEF msg
  <1>8. msg \notin DOMAIN msgs /\ msgs'[msg] = 1
    BY <1>1, <1>3, <1>7 DEF OneHand, RunHolds
  <1>9. Shape'
    BY <1>1, <1>3, <1>5, <1>6, <1>7 DEF Shape
  <1>10. RunHolds'
    BY <1>1, <1>3, <1>6, <1>7, <1>8 DEF OneHand, RunHolds, Restores, Shows
  <1>11. ReportHolds'
    BY <1>1, <1>3, <1>5, <1>7, <1>8 DEF OneHand, RunHolds, ReportHolds, Shows
  <1>12. DeletionHolds' /\ ScreenHolds'
    BY <1>1, <1>3, <1>5 DEF OneHand, DeletionHolds, ScreenHolds, Shows
  <1> QED BY <1>6, <1>9, <1>10, <1>11, <1>12 DEF IInv, OneHand

\* A deletion ends with the directory it was asked to delete, and with no other.
LEMMA DeletionsEnd == ASSUME IInv, NEW d \in deletions, DeletionEnds(d) PROVE IInv'
  <1>1. /\ UNCHANGED <<m, active, session, memo, runs, final, stopAsked>> /\ deletions' = deletions \ {d}
        /\ staging \ {d.path} \subseteq staging' /\ staging' \subseteq staging
        /\ msgs' = BagAdd(msgs, Note("delete", d.session, d.gen))
    BY DEF DeletionEnds, rootVars, Send
  <1>2. Shape /\ LiveInv /\ OneHand /\ d \in Deletion
    BY DEF IInv, Shape
  <1>3. Note("delete", d.session, d.gen) \in Message /\ ~Reports(Note("delete", d.session, d.gen))
    BY <1>2 DEF Note, Message, Reports, Deletion
  <1>4. /\ DOMAIN msgs' \subseteq Message
        /\ \A n \in DOMAIN msgs' : Reports(n) => n \in DOMAIN msgs /\ msgs'[n] = msgs[n]
    BY <1>1, <1>2, <1>3, Sending
  <1>5. Shape'
    BY <1>1, <1>2, <1>4 DEF Shape
  <1>6. LiveInv'
    BY <1>1, <1>2 DEF LiveInv, Live
  <1>7. RunHolds'
    BY <1>1, <1>2, <1>4 DEF OneHand, RunHolds, Restores, Shows
  <1>8. ReportHolds'
    BY <1>1, <1>2, <1>4 DEF OneHand, ReportHolds, Shows
  <1>9. DeletionHolds' /\ ScreenHolds'
    BY <1>1, <1>2 DEF OneHand, DeletionHolds, ScreenHolds, Shows
  <1> QED BY <1>5, <1>6, <1>7, <1>8, <1>9 DEF IInv, OneHand

-----------------------------------------------------------------------------
LEMMA InitInv == Init => IInv
  <1> SUFFICES ASSUME Init PROVE IInv
    OBVIOUS
  <1>1. m \in Modal /\ m.cancel = 0 /\ m.state = "review"
    BY Zero DEF Init, NoRun
  <1>2. final \subseteq Paths
    BY ModalAssumption DEF Init, Paths, Items
  <1>3. DOMAIN msgs = {}
    BY DEF Init, EmptyBag, SetToBag
  <1>4. runs = <<>> /\ Len(runs) = 0 /\ runs \in Seq(Run) /\ DOMAIN runs = {}
    BY DEF Init
  <1>5. Shape
    <2>1. /\ Len(runs) <= MaxRuns /\ m.cancel <= Len(runs) /\ session \in 0..MaxModals /\ active = FALSE
          /\ memo = NoRoot /\ deletions = {} /\ staging = {} /\ stopAsked = FALSE
      BY <1>1, <1>4, ModalAssumption DEF Init
    <2> QED BY <1>1, <1>2, <1>3, <1>4, <2>1 DEF Shape
  <1>6. LiveInv /\ OneHand
    BY <1>1, <1>3, <1>4 DEF Init, LiveInv, OneHand, RunHolds, ReportHolds, DeletionHolds, ScreenHolds, Shows
  <1> QED BY <1>5, <1>6 DEF IInv

\* The strengthened invariant holds whatever the user presses and reopens, and
\* however late the answers are.
THEOREM Invariance == Spec => []IInv
  <1>1. IInv /\ [Next]_vars => IInv'
    <2> SUFFICES ASSUME IInv, [Next]_vars PROVE IInv'
      OBVIOUS
    <2>1. CASE Key
      BY <2>1, Turns, Cancels, Leaves, Enters, Deletes DEF Key
    <2>2. CASE \E r \in DOMAIN runs : RunStep(r)
      BY <2>2, Begins, Publishes, Fails DEF RunStep
    <2>3. CASE UNCHANGED vars
      BY <2>3 DEF vars, rootVars, diskVars, IInv, Shape, LiveInv, Live, OneHand, RunHolds, ReportHolds, DeletionHolds,
                  ScreenHolds, Restores, Shows
    <2> QED BY <2>1, <2>2, <2>3, Opens, Delivers, DeletionsEnd DEF Next
  <1> QED BY <1>1, InitInv, PTL DEF Spec

\* Every variable keeps its type.
THEOREM TypeCorrect == Spec => []TypeOK
  <1>1. IInv => TypeOK
    <2> SUFFICES ASSUME Shape PROVE TypeOK
      BY DEF IInv
    <2>1. /\ m.queue \in Seq(Items) /\ m.published \in Seq(Paths) /\ m \in Modal
          /\ \A i \in DOMAIN runs : runs[i] \in Run
      BY DEF Shape, Modal
    <2>2. \A i \in DOMAIN m.queue : m.queue[i] \in Items
      BY <2>1
    <2>3. \A i \in DOMAIN m.published : m.published[i] \in Paths
      BY <2>1
    <2>4. \A i \in DOMAIN runs : runs[i].path \in Paths /\ runs[i].phase \in {"start", "restore", "over"}
      BY <2>1 DEF Run
    <2>5. \A d \in deletions : d.path \in Paths
      BY DEF Shape, Deletion
    <2>6. /\ m.state \in States /\ m.gen \in 0..MaxGen /\ m.cancel \in 0..MaxRuns
          /\ m.root \in Roots /\ m.priv \in BOOLEAN /\ m.isSudoBusy \in BOOLEAN
          /\ m.refused \in BOOLEAN /\ m.resultStaging \in Paths \cup {NoPath}
          /\ m.ranTargetRoot \in Roots \cup {NoRoot} /\ m.counts \in 0..MaxModals
      BY <2>1 DEF Modal
    <2> QED BY <2>2, <2>3, <2>4, <2>5, <2>6 DEF Shape, TypeOK
  <1> QED BY <1>1, Invariance, PTL

\* At most one extraction is live, in the modal that is open.
THEOREM OneRun == Spec => []OneLiveRun
  <1>1. IInv => OneLiveRun
    BY DEF IInv, LiveInv, OneLiveRun
  <1> QED BY <1>1, Invariance, PTL

\* A restore never loses its staging directory.
THEOREM StagingStays == Spec => []StagingKept
  <1>1. IInv => StagingKept
    BY DEF IInv, OneHand, RunHolds, Restores, StagingKept
  <1> QED BY <1>1, Invariance, PTL
-----------------------------------------------------------------------------
(* The first modal: nothing of an earlier one is on its way, so a          *)
(* generation names one run, and its report comes once.                    *)

Results == {n \in DOMAIN msgs : n.type = "run" /\ n.gen = m.gen}

\* Only the last run of the modal can be at work, and only on the running screen.
LastRunWorks ==
    /\ \A r \in DOMAIN runs : /\ runs[r].session = session /\ runs[r].gen <= m.gen
                              /\ runs[r].phase # "over" => r = Len(runs) /\ m.state = "running" /\ runs[r].gen = m.gen
    /\ m.state = "running" =>
         /\ runs # <<>> /\ runs[Len(runs)].gen = m.gen /\ runs[Len(runs)].path = Path(m)
         /\ runs[Len(runs)].phase = "over" => Pending("run") # {}

\* A result of the current generation is that of the last run, and comes once.
ResultIsLast ==
    /\ \A n \in DOMAIN msgs : n.type = "run" => n.gen <= m.gen
    /\ \A n \in Results : /\ m.state = "running" /\ msgs[n] = 1 /\ \A other \in Results : other = n
                          /\ \A r \in DOMAIN runs : runs[r].phase = "over"
                          /\ n.out = "ok" => n.path = Path(m) /\ n.path \in final

ScreenIsTrue ==
    /\ m.isSudoBusy => m.state = "review"
    /\ m.state \in {"review", "picker"} => m.published = <<>>
    /\ SudoHasEnd /\ PublishedHere

FirstModal ==
    /\ session = 0 => runs = <<>> /\ DOMAIN msgs = {} /\ deletions = {}
    /\ active /\ session = 1 => LastRunWorks /\ ResultIsLast /\ ScreenIsTrue

Alone == LastRunWorks /\ ResultIsLast /\ ScreenIsTrue
First == Shape /\ active /\ session = 1 /\ Alone

\* No report of a run comes or goes.
SameReports ==
    \A n : n.type = "run" => /\ n \in DOMAIN msgs <=> n \in DOMAIN msgs'
                             /\ n \in DOMAIN msgs => msgs'[n] = msgs[n]

\* The runs are where they were.
SameRuns ==
    /\ Len(runs') = Len(runs) /\ DOMAIN runs' = DOMAIN runs
    /\ \A r \in DOMAIN runs : /\ runs'[r].phase = runs[r].phase /\ runs'[r].path = runs[r].path
                              /\ runs'[r].session = runs[r].session /\ runs'[r].gen = runs[r].gen

\* A step that leaves the runs and their reports alone: the modal stays on the
\* running screen or off it, and off it the generation may go on.
LEMMA Apart ==
  ASSUME First, SameRuns, SameReports, session' = session, final \subseteq final', m'.gen \in Nat,
         \/ m.state = "running" /\ m'.state = "running" /\ m'.gen = m.gen /\ Path(m') = Path(m)
         \/ m.state # "running" /\ m'.state # "running" /\ m'.gen >= m.gen
  PROVE  LastRunWorks' /\ ResultIsLast'
  <1>1. /\ m.gen \in Nat /\ \A n \in DOMAIN msgs : n.gen \in Nat
        /\ \A r \in DOMAIN runs : runs[r].gen \in Nat
        /\ runs # <<>> => Len(runs) \in DOMAIN runs
        /\ Len(runs) = 0 <=> runs = <<>>
    <2>1. \A r \in DOMAIN runs : runs[r] \in Run
      BY DEF First, Shape
    <2> QED BY <2>1, ModalAssumption DEF First, Shape, Modal, Message, Run
  <1>2. runs # <<>> => runs' # <<>>
    BY <1>1 DEF SameRuns
  <1>3. Results' \subseteq Results /\ \A n \in Results : m.gen = m'.gen => n \in Results' /\ msgs'[n] = msgs[n]
    <2>1. \A n \in Results' : n \in DOMAIN msgs /\ n.gen <= m.gen
      BY DEF Results, SameReports, First, Alone, ResultIsLast
    <2>2. \A n \in Results' : n.gen = m.gen
      BY <1>1, <2>1 DEF Results
    <2> QED BY <2>1, <2>2 DEF Results, SameReports
  <1>4. CASE m.state = "running" /\ m'.state = "running" /\ m'.gen = m.gen /\ Path(m') = Path(m)
    <2>1. LastRunWorks'
      <3>1. Pending("run") # {} => Pending("run")' # {}
        BY <1>4 DEF Pending, SameReports
      <3> QED BY <1>1, <1>2, <1>4, <3>1 DEF LastRunWorks, SameRuns, First, Alone
    <2>2. ResultIsLast'
      BY <1>3, <1>4 DEF ResultIsLast, SameRuns, SameReports, First, Alone, Results
    <2> QED BY <2>1, <2>2
  <1>5. CASE m.state # "running" /\ m'.state # "running" /\ m'.gen >= m.gen
    <2>1. LastRunWorks'
      BY <1>1, <1>5 DEF LastRunWorks, SameRuns, First, Alone
    <2>2. Results = {}
      BY <1>5 DEF ResultIsLast, First, Alone
    <2>3. \A n \in DOMAIN msgs' : n.type = "run" => n.gen <= m'.gen
      BY <1>1, <1>5 DEF ResultIsLast, SameReports, First, Alone
    <2> QED BY <1>3, <2>1, <2>2, <2>3 DEF ResultIsLast
  <1> QED BY <1>4, <1>5

LEMMA MailSent ==
  ASSUME NEW msg, msg.type # "run", msgs' = BagAdd(msgs, msg)
  PROVE  SameReports /\ msg \in DOMAIN msgs' /\ \A n \in DOMAIN msgs : n \in DOMAIN msgs'
  <1>1. /\ DOMAIN BagAdd(msgs, msg) = DOMAIN msgs \cup {msg}
        /\ \A n \in DOMAIN msgs : n # msg => BagAdd(msgs, msg)[n] = msgs[n]
    BY Added
  <1>2. \A n : n.type = "run" => n # msg
    OBVIOUS
  <1> QED BY <1>1, <1>2 DEF SameReports

LEMMA MailTaken ==
  ASSUME NEW msg, msg.type # "run", msgs' = BagRemove(msgs, msg)
  PROVE  SameReports /\ \A n \in DOMAIN msgs : n # msg => n \in DOMAIN msgs'
  <1>1. /\ DOMAIN msgs' \subseteq DOMAIN msgs
        /\ \A n \in DOMAIN msgs : n # msg => n \in DOMAIN msgs'
        /\ \A n \in DOMAIN msgs' : n # msg => msgs'[n] = msgs[n]
    BY Removed
  <1> QED BY <1>1 DEF SameReports

LEMMA MailAnswered ==
  ASSUME NEW msg, NEW answer, msg.type # "run", answer.type # "run", msgs' = BagAdd(BagRemove(msgs, msg), answer)
  PROVE  SameReports /\ answer \in DOMAIN msgs' /\ \A n \in DOMAIN msgs : n # msg => n \in DOMAIN msgs'
  <1> DEFINE rest == BagRemove(msgs, msg)
  <1>1. /\ DOMAIN rest \subseteq DOMAIN msgs
        /\ \A n \in DOMAIN msgs : n # msg => n \in DOMAIN rest
        /\ \A n \in DOMAIN rest : n # msg => rest[n] = msgs[n]
    BY Removed
  <1> HIDE DEF rest
  <1>2. DOMAIN msgs' = DOMAIN rest \cup {answer} /\ \A n \in DOMAIN rest : n # answer => msgs'[n] = rest[n]
    BY Added DEF rest
  <1> QED BY <1>1, <1>2 DEF SameReports

\* The dispatch of a run once those before it are over and their reports taken.
LEMMA FirstStarts ==
  ASSUME First, LiveInv, NEW x \in Modal, x.cancel = m.cancel, x.gen = m.gen, StartRun(x),
         \A r \in DOMAIN runs : runs[r].phase = "over",
         \A n \in DOMAIN msgs' : n.type = "run" => n \in DOMAIN msgs,
         \A i \in DOMAIN x.published : x.published[i] \in final /\ x.published[i][1] = x.root,
         UNCHANGED <<active, session, final>>
  PROVE  Alone'
  <1>1. /\ m'.gen = m.gen + 1 /\ m'.state = "running" /\ Path(m') = Path(x) /\ m'.published = x.published /\ ~m'.isSudoBusy
        /\ m'.root = x.root
        /\ runs' \in Seq(Run) /\ Len(runs') = Len(runs) + 1
        /\ LET r == runs'[Len(runs) + 1] IN r.session = session /\ r.phase = "start" /\ r.gen = m.gen + 1 /\ r.path = Path(x)
        /\ \A r \in DOMAIN runs : /\ runs'[r].phase = runs[r].phase /\ runs'[r].session = runs[r].session
                                  /\ runs'[r].gen = runs[r].gen
    BY Starting DEF First, Path
  <1>2. /\ m.gen \in Nat /\ Len(runs) \in Nat /\ \A r \in DOMAIN runs : runs[r].gen \in Nat
        /\ DOMAIN runs = 1..Len(runs) /\ \A n \in DOMAIN msgs : n.gen \in Nat
    <2>1. \A r \in DOMAIN runs : runs[r] \in Run
      BY DEF First, Shape
    <2> QED BY <2>1, ModalAssumption DEF First, Shape, Modal, Run, Message
  <1>3. DOMAIN runs' = DOMAIN runs \cup {Len(runs) + 1} /\ Len(runs) + 1 \notin DOMAIN runs /\ runs' # <<>>
    BY <1>1, <1>2
  <1>4. LastRunWorks'
    BY <1>1, <1>2, <1>3 DEF LastRunWorks, First, Alone
  <1>5. ResultIsLast'
    <2>1. \A n \in DOMAIN msgs' : n.type = "run" => n.gen <= m.gen
      BY DEF First, Alone, ResultIsLast
    <2>2. Results' = {}
      BY <1>1, <1>2, <2>1 DEF Results
    <2> QED BY <1>1, <1>2, <2>1, <2>2 DEF ResultIsLast
  <1>6. ScreenIsTrue'
    BY <1>1 DEF ScreenIsTrue, SudoHasEnd, PublishedHere
  <1> QED BY <1>4, <1>5, <1>6 DEF Alone

LEMMA FirstKeys ==
  ASSUME First, IInv, Key
  PROVE  Alone'
  <1>1. m \in Modal /\ m.gen \in 0..MaxGen /\ MaxGen \in Nat
    BY ModalAssumption DEF First, Shape, Modal
  <1>2. /\ LastRunWorks /\ ResultIsLast /\ ScreenIsTrue /\ session = 1 /\ active
        /\ m.isSudoBusy => m.state = "review"
    BY DEF First, Alone, ScreenIsTrue
  <1>3. UNCHANGED <<active, session, final>>
    BY DEF Key, CancelKey, LeaveKey, ClosePickerKey, TargetKey, PrivKey, EnterKey, PickRoot, DeleteKey, RetargetKey, rootVars,
           diskVars
  <1>4. PublishedHere => \A i \in DOMAIN m.published : m.published[i] \in final /\ m.published[i][1] = m.root
    BY <1>2 DEF PublishedHere
  <1>5. CASE ClosePickerKey \/ TargetKey \/ PrivKey \/ PickRoot \/ RetargetKey
    <2>1. /\ UNCHANGED <<runs, msgs>> /\ m'.gen = m.gen /\ m.state # "running" /\ m'.state # "running" /\ ~m'.isSudoBusy
          /\ m'.published = m.published /\ m'.state # "success"
      BY <1>1, <1>2, <1>5, ZenonT(40) DEF ClosePickerKey, TargetKey, PrivKey, PickRoot, RetargetKey, InReview, Modal, States
    <2>2. m'.state \in {"review", "picker"} => m'.published = <<>>
      BY <1>1, <1>2, <1>5, ZenonT(40) DEF ClosePickerKey, TargetKey, PrivKey, PickRoot, RetargetKey, InReview, ScreenIsTrue, Modal, States
    <2>3. m'.root = m.root \/ m'.published = <<>>
      BY <1>1, <1>2, <1>5 DEF ClosePickerKey, TargetKey, PrivKey, PickRoot, RetargetKey, ScreenIsTrue, Modal
    <2>4. SameRuns /\ SameReports
      BY <2>1 DEF SameRuns, SameReports
    <2>5. LastRunWorks' /\ ResultIsLast'
      BY <1>1, <1>3, <2>1, <2>4, Apart
    <2>6. ScreenIsTrue'
      BY <1>2, <1>3, <1>4, <2>1, <2>2, <2>3 DEF ScreenIsTrue, SudoHasEnd, PublishedHere
    <2> QED BY <2>5, <2>6 DEF Alone
  <1>6. CASE CancelKey
    <2>1. UNCHANGED <<m, msgs>> /\ SameRuns /\ SameReports /\ m.state = "running"
      BY <1>6, Superseding DEF CancelKey, IInv, SameRuns, SameReports
    <2>2. LastRunWorks' /\ ResultIsLast'
      BY <1>1, <1>3, <2>1, Apart
    <2>3. ScreenIsTrue'
      BY <1>2, <1>3, <2>1 DEF ScreenIsTrue, SudoHasEnd, PublishedHere, Pending
    <2> QED BY <2>2, <2>3 DEF Alone
  <1>7. CASE LeaveKey
    <2>1. /\ msgs' = BagAdd(msgs, Note("back", session, m.gen)) /\ SameRuns /\ m.state # "running"
          /\ m' = [m EXCEPT !.gen = @ + 1, !.cancel = NoRun]
      BY <1>7, Superseding DEF LeaveKey, Supersede, Send, IInv, SameRuns
    <2>2. /\ m'.gen = m.gen + 1 /\ m'.state = m.state /\ m'.published = m.published /\ m'.root = m.root
          /\ m'.isSudoBusy = m.isSudoBusy /\ m'.queue = m.queue /\ m'.item = m.item
      BY <1>1, <2>1 DEF Modal
    <2>3. SameReports /\ Note("back", session, m.gen) \in DOMAIN msgs'
      BY <2>1, MailSent DEF Note
    <2>4. LastRunWorks' /\ ResultIsLast'
      BY <1>1, <1>3, <2>1, <2>2, <2>3, Apart
    <2>5. SudoHasEnd'
      BY <2>3 DEF SudoHasEnd, Note
    <2>6. ScreenIsTrue'
      BY <1>2, <1>3, <2>2, <2>5 DEF ScreenIsTrue, PublishedHere, Path
    <2> QED BY <2>4, <2>6 DEF Alone
  <1>8. CASE EnterKey
    <2>1. m.state = "review" /\ m.published = <<>> /\ \A r \in DOMAIN runs : runs[r].phase = "over"
      BY <1>2, <1>8 DEF EnterKey, InReview, ScreenIsTrue, LastRunWorks
    <2>2. CASE StartRun(m) /\ UNCHANGED msgs
      BY <1>1, <1>3, <2>1, <2>2, FirstStarts DEF IInv
    <2>3. CASE /\ runs' = CancelRun(m.cancel) /\ msgs' = BagAdd(msgs, Note("probe", session, m.gen + 1))
               /\ m' = [m EXCEPT !.gen = @ + 1, !.cancel = NoRun, !.isSudoBusy = TRUE]
      <3>1. /\ m'.gen = m.gen + 1 /\ m'.state = m.state /\ m'.published = m.published /\ m'.root = m.root
        BY <1>1, <2>3 DEF Modal
      <3>2. SameReports /\ Note("probe", session, m.gen + 1) \in DOMAIN msgs'
        BY <2>3, MailSent DEF Note
      <3>3. SameRuns
        BY <2>3, Superseding DEF IInv, SameRuns
      <3>4. LastRunWorks' /\ ResultIsLast'
        BY <1>1, <1>3, <2>1, <3>1, <3>2, <3>3, Apart
      <3>5. SudoHasEnd'
        <4>1. Note("probe", session, m.gen + 1) \in Pending("probe")'
          BY <1>3, <3>1, <3>2 DEF Pending, Note
        <4> QED BY <4>1 DEF SudoHasEnd
      <3>6. ScreenIsTrue'
        BY <1>2, <1>3, <2>1, <3>1, <3>5 DEF ScreenIsTrue, PublishedHere
      <3> QED BY <3>4, <3>6 DEF Alone
    <2> QED BY <1>8, <2>2, <2>3 DEF EnterKey, Supersede, Send
  <1>9. CASE DeleteKey
    <2>1. m' = [m EXCEPT !.state = "keepDelete"] /\ m.state \in {"canceled", "error"} /\ runs' = runs
      BY <1>9 DEF DeleteKey
    <2>2. /\ m'.gen = m.gen /\ m'.state = "keepDelete" /\ m'.published = m.published /\ m'.root = m.root
          /\ m'.isSudoBusy = m.isSudoBusy
      BY <1>1, <2>1 DEF Modal
    <2>3. SameReports
      <3>1. Note("delete", session, m.gen).type # "run"
        BY DEF Note
      <3>2. msgs' = BagAdd(msgs, Note("delete", session, m.gen)) => SameReports
        BY <3>1, MailSent
      <3>3. msgs' = msgs => SameReports
        BY DEF SameReports
      <3> QED BY <1>9, <3>2, <3>3 DEF DeleteKey, Send
    <2>4. SameRuns
      BY <2>1 DEF SameRuns
    <2>5. LastRunWorks' /\ ResultIsLast'
      BY <1>1, <1>3, <2>1, <2>2, <2>3, <2>4, Apart
    <2>6. ScreenIsTrue'
      BY <1>2, <1>3, <2>1, <2>2 DEF ScreenIsTrue, SudoHasEnd, PublishedHere
    <2> QED BY <2>5, <2>6 DEF Alone
  <1> QED BY <1>5, <1>6, <1>7, <1>8, <1>9 DEF Key

\* The first modal receives the end of its run.
LEMMA FirstRunReceived ==
  ASSUME First, LiveInv, NEW msg \in DOMAIN msgs, msg.type = "run", ApplyRun(msg), msgs' = BagRemove(msgs, msg),
         UNCHANGED <<active, session, final>>
  PROVE  Alone'
  <1>1. m \in Modal /\ m.gen \in Nat /\ runs \in Seq(Run) /\ msg \in Message
    BY ModalAssumption DEF First, Shape, Modal
  <1>2. /\ LastRunWorks /\ ResultIsLast /\ ScreenIsTrue /\ session = 1 /\ active
        /\ m.isSudoBusy => m.state = "review"
        /\ \A i \in DOMAIN m.published : m.published[i] \in final /\ m.published[i][1] = m.root
    BY DEF First, Alone, ScreenIsTrue, PublishedHere
  <1>3. /\ DOMAIN msgs' \subseteq DOMAIN msgs
        /\ \A n \in DOMAIN msgs : n # msg => n \in DOMAIN msgs' /\ msgs'[n] = msgs[n]
        /\ msgs[msg] = 1 => msg \notin DOMAIN msgs'
    BY Removed
  <1>4. CASE msg.gen # m.gen /\ UNCHANGED <<m, runs>>
    <2>1. Results' = Results /\ Pending("run")' = Pending("run") /\ \A n \in Results : msgs'[n] = msgs[n]
      BY <1>3, <1>4 DEF Results, Pending
    <2>2. LastRunWorks'
      BY <1>2, <1>4, <2>1 DEF LastRunWorks, Path
    <2>3. ResultIsLast'
      BY <1>2, <1>3, <1>4, <2>1 DEF ResultIsLast, Path
    <2>4. SudoHasEnd'
      BY <1>2, <1>3, <1>4 DEF SudoHasEnd, Pending, ScreenIsTrue
    <2>5. ScreenIsTrue'
      BY <1>2, <1>4, <2>4 DEF ScreenIsTrue, PublishedHere
    <2> QED BY <2>2, <2>3, <2>5 DEF Alone
  <1>5. CASE msg.gen = m.gen
    <2>1. /\ m.state = "running" /\ \A r \in DOMAIN runs : runs[r].phase = "over"
          /\ \A n \in DOMAIN msgs' : n.type = "run" => n.gen # m.gen
          /\ msg.out = "ok" => Path(m) \in final
      BY <1>2, <1>3, <1>5 DEF ResultIsLast, Results
    <2>2. ~m.isSudoBusy
      BY <1>2, <2>1
    <2> DEFINE published == IF m.diff THEN Append(m.published, Path(m)) ELSE m.published
               done == [m EXCEPT !.resultStaging = msg.path, !.refused = FALSE, !.published = published]
               next == [done EXCEPT !.item = Head(m.queue), !.queue = Tail(m.queue)]
    <2>3. msg.out = "ok" => /\ published \in Seq(Paths)
                            /\ \A i \in DOMAIN published : published[i] \in final /\ published[i][1] = m.root
      <3>1. Path(m) \in Paths /\ m.published \in Seq(Paths) /\ Path(m)[1] = m.root
        BY <1>1 DEF Modal, Path, Paths
      <3>2. \A i \in DOMAIN Append(m.published, Path(m)) :
              \/ i \in DOMAIN m.published /\ Append(m.published, Path(m))[i] = m.published[i]
              \/ Append(m.published, Path(m))[i] = Path(m)
        BY <3>1
      <3> QED BY <1>2, <2>1, <3>1, <3>2
    <2>4. ASSUME UNCHANGED runs, m'.gen = m.gen, m'.state \in {"success", "canceled", "error"}, m'.root = m.root,
                 m'.isSudoBusy = m.isSudoBusy, \A i \in DOMAIN m'.published : m'.published[i] \in final /\ m'.published[i][1] = m.root,
                 m'.state = "success" => m'.queue = <<>> /\ Path(m') \in final
          PROVE  Alone'
      <3>1. LastRunWorks'
        BY <1>2, <2>1, <2>4 DEF LastRunWorks
      <3>2. Results' = {}
        BY <2>1, <2>4 DEF Results
      <3>3. ResultIsLast'
        BY <1>2, <1>3, <2>4, <3>2 DEF ResultIsLast
      <3>4. ScreenIsTrue'
        BY <1>2, <2>2, <2>4 DEF ScreenIsTrue, SudoHasEnd, PublishedHere
      <3> QED BY <3>1, <3>3, <3>4 DEF Alone
    <2>5. CASE /\ msg.out # "ok" /\ runs' = runs
               /\ m' = [m EXCEPT !.resultStaging = msg.path,
                                 !.state = IF msg.out = "canceled" THEN "canceled" ELSE "error",
                                 !.refused = msg.out = "refused"]
      <3>1. /\ m'.gen = m.gen /\ m'.state \in {"canceled", "error"} /\ m'.published = m.published /\ m'.root = m.root
            /\ m'.isSudoBusy = m.isSudoBusy
        BY <1>1, <2>5 DEF Modal
      <3> QED BY <1>2, <2>4, <2>5, <3>1
    <2>6. CASE msg.out = "ok" /\ m.queue # <<>> /\ StartRun(next)
      <3>1. Head(m.queue) \in Items /\ Tail(m.queue) \in Seq(Items)
        BY <1>1, <2>6 DEF Modal
      <3>2. /\ done \in Modal /\ done.cancel = m.cancel /\ done.gen = m.gen /\ done.published = published
            /\ done.root = m.root
        <4> HIDE DEF published
        <4> QED BY <1>1, <2>3, <2>6 DEF Modal, Message
      <3>3. /\ next \in Modal /\ next.cancel = m.cancel /\ next.gen = m.gen /\ next.published = published
            /\ next.root = m.root
        <4> HIDE DEF done, published
        <4> QED BY <3>1, <3>2 DEF Modal
      <3>4. \A n \in DOMAIN msgs' : n.type = "run" => n \in DOMAIN msgs
        BY <1>3
      <3> HIDE DEF next, published
      <3> QED BY <2>1, <2>3, <2>6, <3>3, <3>4, FirstStarts
    <2>7. CASE msg.out = "ok" /\ m.queue = <<>> /\ m' = [done EXCEPT !.state = "success"] /\ runs' = runs
      <3>1. /\ m'.gen = m.gen /\ m'.state = "success" /\ m'.published = published /\ m'.root = m.root /\ m'.item = m.item
            /\ m'.isSudoBusy = m.isSudoBusy /\ m'.queue = m.queue
        <4> HIDE DEF published
        <4> QED BY <1>1, <2>7 DEF Modal
      <3>2. Path(m') = Path(m)
        BY <3>1 DEF Path
      <3> HIDE DEF published
      <3> QED BY <2>1, <2>3, <2>4, <2>7, <3>1, <3>2
    <2>8. CASE msg.out = "ok" /\ m' = [done EXCEPT !.state = "error"] /\ runs' = runs
      <3>1. /\ m'.gen = m.gen /\ m'.state = "error" /\ m'.published = published /\ m'.root = m.root
            /\ m'.isSudoBusy = m.isSudoBusy
        <4> HIDE DEF published
        <4> QED BY <1>1, <2>8 DEF Modal
      <3> HIDE DEF published
      <3> QED BY <2>1, <2>3, <2>4, <2>8, <3>1
    <2> QED BY <1>5, <2>5, <2>6, <2>7, <2>8 DEF ApplyRun
  <1> QED BY <1>4, <1>5 DEF ApplyRun

\* A message that is no result leaves the runs alone, or starts one.
LEMMA FirstDelivers ==
  ASSUME First, IInv, Deliver, active'
  PROVE  Alone'
  <1>1. PICK msg \in DOMAIN msgs : Receive(msg)
    BY DEF Deliver
  <1>2. UNCHANGED <<session, final>> /\ active' = active /\ LiveInv /\ m \in Modal /\ m.gen \in Nat
    BY ModalAssumption DEF Deliver, diskVars, First, IInv, Shape, Modal
  <1>3. /\ LastRunWorks /\ ResultIsLast /\ ScreenIsTrue /\ session = 1 /\ active
        /\ m.isSudoBusy => m.state = "review"
        /\ \A i \in DOMAIN m.published : m.published[i] \in final /\ m.published[i][1] = m.root
    BY DEF First, Alone, ScreenIsTrue, PublishedHere
  <1>4. ~ApplyBack
    BY <1>2, <1>3 DEF ApplyBack
  <1>5. CASE msg.type = "run" /\ ApplyRun(msg) /\ msgs' = BagRemove(msgs, msg)
    BY <1>2, <1>5, FirstRunReceived
  \* The screen stays as it is, and so does the wait for sudo unless it is over.
  <1>6. ASSUME SameReports, UNCHANGED runs, m'.gen = m.gen, m'.state = m.state, m'.root = m.root, m'.item = m.item,
               m'.queue = m.queue, m'.published = m.published, m'.isSudoBusy => m.isSudoBusy,
               SudoHasEnd'
        PROVE  Alone'
    <2>1. SameRuns
      BY <1>6 DEF SameRuns
    <2>2. LastRunWorks' /\ ResultIsLast'
      BY <1>2, <1>6, <2>1, Apart DEF Path
    <2>3. ScreenIsTrue'
      BY <1>2, <1>3, <1>6 DEF ScreenIsTrue, PublishedHere, Path
    <2> QED BY <2>2, <2>3 DEF Alone
  <1>7. ASSUME Awaited(msg), SameReports, StartRun(m) PROVE Alone'
    <2>1. m.state = "review" /\ \A r \in DOMAIN runs : runs[r].phase = "over"
      BY <1>3, <1>7 DEF Awaited, LastRunWorks
    <2>2. \A n \in DOMAIN msgs' : n.type = "run" => n \in DOMAIN msgs
      BY <1>7 DEF SameReports
    <2> QED BY <1>2, <1>3, <1>7, <2>1, <2>2, FirstStarts
  <1>8. ASSUME msg.type # "run", Refuse, msgs' = BagRemove(msgs, msg) PROVE Alone'
    <2>1. SameReports
      BY <1>8, MailTaken
    <2>2. /\ UNCHANGED runs /\ m'.gen = m.gen /\ m'.state = m.state /\ m'.root = m.root /\ m'.item = m.item
          /\ m'.queue = m.queue /\ m'.published = m.published /\ ~m'.isSudoBusy
      BY <1>2, <1>8 DEF Refuse, Modal
    <2> QED BY <1>6, <2>1, <2>2 DEF SudoHasEnd
  \* A message that is not awaited says nothing of the sudo check.
  <1>9. ASSUME msg.type \in {"probe", "auth"}, ~Awaited(msg), UNCHANGED <<m, runs>>, msgs' = BagRemove(msgs, msg) PROVE Alone'
    <2>1. SameReports /\ \A n \in DOMAIN msgs : n # msg => n \in DOMAIN msgs'
      BY <1>9, MailTaken
    <2>2. SudoHasEnd'
      <3>1. m.isSudoBusy /\ m.state = "review" => msg.gen # m.gen
        BY <1>9 DEF Awaited
      <3>2. m.isSudoBusy /\ m.state = "review" =>
              \/ \E n \in DOMAIN msgs : n.type \in {"probe", "auth"} /\ n.session = session /\ n.gen = m.gen
              \/ \E n \in DOMAIN msgs : n.type = "back"
        BY <1>3 DEF ScreenIsTrue, SudoHasEnd, Pending
      <3> QED BY <1>2, <1>9, <2>1, <3>1, <3>2 DEF SudoHasEnd, Pending
    <2> QED BY <1>6, <1>9, <2>1, <2>2
  <1>10. CASE msg.type = "probe" /\ ApplyProbe(msg)
    <2>1. CASE Awaited(msg) /\ msgs' = BagAdd(BagRemove(msgs, msg), Note("auth", session, m.gen)) /\ UNCHANGED <<m, runs>>
      <3>1. Note("auth", session, m.gen).type = "auth" /\ Note("auth", session, m.gen).session = session
            /\ Note("auth", session, m.gen).gen = m.gen
        BY DEF Note
      <3>2. SameReports /\ Note("auth", session, m.gen) \in DOMAIN msgs'
        BY <1>10, <2>1, <3>1, MailAnswered
      <3>3. SudoHasEnd'
        BY <1>2, <2>1, <3>1, <3>2 DEF SudoHasEnd, Pending
      <3> QED BY <1>6, <2>1, <3>2, <3>3
    <2>2. msgs' = BagRemove(msgs, msg) => SameReports
      BY <1>10, MailTaken
    <2> QED BY <1>7, <1>8, <1>9, <1>10, <2>1, <2>2 DEF ApplyProbe
  <1>11. CASE msg.type = "auth" /\ ApplyAuth(msg) /\ msgs' = BagRemove(msgs, msg)
    <2>1. SameReports
      BY <1>11, MailTaken
    <2> QED BY <1>7, <1>8, <1>9, <1>11, <2>1 DEF ApplyAuth
  <1>12. CASE msg.type = "delete" /\ ApplyDelete(msg)
    <2>1. UNCHANGED <<m, runs>>
      BY <1>12 DEF ApplyDelete
    <2>2. Note("back", session, m.gen).type = "back"
      BY DEF Note
    <2>3. CASE msgs' = BagAdd(BagRemove(msgs, msg), Note("back", session, m.gen))
      <3>1. SameReports /\ Note("back", session, m.gen) \in DOMAIN msgs'
        BY <1>12, <2>2, <2>3, MailAnswered
      <3>2. SudoHasEnd'
        BY <2>2, <3>1 DEF SudoHasEnd
      <3> QED BY <1>6, <2>1, <3>1, <3>2
    <2>4. CASE msgs' = BagRemove(msgs, msg)
      <3>1. SameReports /\ \A n \in DOMAIN msgs : n # msg => n \in DOMAIN msgs'
        BY <1>12, <2>4, MailTaken
      <3>2. SudoHasEnd'
        BY <1>2, <1>3, <1>12, <2>1, <3>1 DEF SudoHasEnd, Pending, ScreenIsTrue
      <3> QED BY <1>6, <2>1, <3>1, <3>2
    <2> QED BY <1>12, <2>3, <2>4 DEF ApplyDelete
  <1>13. CASE msg.type = "counts" /\ ApplyCounts(msg) /\ msgs' = BagRemove(msgs, msg)
    <2>1. /\ UNCHANGED runs /\ m'.gen = m.gen /\ m'.state = m.state /\ m'.root = m.root /\ m'.item = m.item
          /\ m'.queue = m.queue /\ m'.published = m.published /\ m'.isSudoBusy = m.isSudoBusy
      BY <1>2, <1>13 DEF ApplyCounts, Modal
    <2>2. SameReports /\ \A n \in DOMAIN msgs : n # msg => n \in DOMAIN msgs'
      BY <1>13, MailTaken
    <2>3. SudoHasEnd'
      BY <1>2, <1>3, <1>13, <2>1, <2>2 DEF SudoHasEnd, Pending, ScreenIsTrue
    <2> QED BY <1>6, <2>1, <2>2, <2>3
  <1> QED BY <1>1, <1>3, <1>4, <1>5, <1>10, <1>11, <1>12, <1>13 DEF Receive

\* A run goes on to restore: it was the last one, and still is.
LEMMA FirstRunGoesOn ==
  ASSUME First, LiveInv, NEW r \in DOMAIN runs, runs[r].phase # "over", NEW p \in {"restore", "over"},
         runs' = [runs EXCEPT ![r].phase = p], UNCHANGED <<m, active, session>>
  PROVE  /\ r = Len(runs) /\ m.state = "running" /\ runs[r].gen = m.gen /\ runs[r].path = Path(m)
         /\ runs[r].session = session /\ Results = {}
         /\ Len(runs') = Len(runs) /\ DOMAIN runs' = DOMAIN runs /\ runs'[r].phase = p
         /\ \A q \in DOMAIN runs : /\ runs'[q].path = runs[q].path /\ runs'[q].session = runs[q].session
                                   /\ runs'[q].gen = runs[q].gen
                                   /\ q # r => runs'[q].phase = runs[q].phase /\ runs[q].phase = "over"
  <1>1. /\ Len(runs') = Len(runs) /\ DOMAIN runs' = DOMAIN runs /\ runs'[r].phase = p
        /\ \A q \in DOMAIN runs : /\ runs'[q].path = runs[q].path /\ runs'[q].session = runs[q].session
                                  /\ runs'[q].gen = runs[q].gen /\ (q # r => runs'[q].phase = runs[q].phase)
    BY Phases DEF First
  <1>2. LastRunWorks /\ ResultIsLast
    BY DEF First, Alone
  <1>3. r = Len(runs) /\ m.state = "running" /\ runs[r].gen = m.gen /\ runs[r].path = Path(m) /\ runs[r].session = session
    BY <1>2 DEF LastRunWorks
  <1>4. Results = {}
    BY <1>2 DEF ResultIsLast
  <1>5. \A q \in DOMAIN runs : q # r => runs[q].phase = "over"
    BY <1>2, <1>3 DEF LastRunWorks
  <1> QED BY <1>1, <1>3, <1>4, <1>5

LEMMA FirstReturns ==
  ASSUME First, LiveInv, NEW r \in DOMAIN runs, runs[r].phase # "over", NEW out \in {"ok", "failed", "canceled", "refused"},
         NEW path \in Paths \cup {NoPath}, Return(r, out, path), out = "ok" => path = runs[r].path /\ path \in final',
         final \subseteq final', UNCHANGED <<m, active, session>>
  PROVE  Alone'
  <1> DEFINE msg == Report(r, out, path)
  <1>1. /\ r = Len(runs) /\ m.state = "running" /\ runs[r].gen = m.gen /\ runs[r].path = Path(m)
        /\ runs[r].session = session /\ Results = {}
        /\ Len(runs') = Len(runs) /\ DOMAIN runs' = DOMAIN runs /\ runs'[r].phase = "over"
        /\ \A q \in DOMAIN runs : /\ runs'[q].path = runs[q].path /\ runs'[q].session = runs[q].session
                                  /\ runs'[q].gen = runs[q].gen /\ runs'[q].phase = "over"
    BY FirstRunGoesOn DEF Return
  <1>2. /\ msg.type = "run" /\ msg.gen = m.gen /\ msg.session = session /\ msg.out = out /\ msg.path = path
    BY <1>1 DEF Report
  <1>3. /\ DOMAIN msgs' = DOMAIN msgs \cup {msg}
        /\ \A n \in DOMAIN msgs : n # msg => msgs'[n] = msgs[n]
        /\ msg \notin DOMAIN msgs => msgs'[msg] = 1
    <2>1. Delivered(Report(r, out, path))
      <3>1. Shape
        BY DEF First
      <3> QED BY <3>1, Reporting
    <2> QED BY <2>1 DEF Delivered
  <1> HIDE DEF msg
  <1>4. /\ LastRunWorks /\ ResultIsLast /\ ScreenIsTrue
    BY DEF First, Alone
  <1>5. Results' = {msg} /\ msgs'[msg] = 1
    BY <1>1, <1>2, <1>3 DEF Results
  <1>6. runs' # <<>>
    BY <1>1
  <1>7. LastRunWorks'
    <2>1. msg \in Pending("run")'
      BY <1>2, <1>3 DEF Pending
    <2> QED BY <1>1, <1>4, <1>6, <2>1 DEF LastRunWorks
  <1>8. ResultIsLast'
    <2>1. m.gen \in Nat
      BY ModalAssumption DEF First, Shape, Modal
    <2>2. \A n \in DOMAIN msgs' : n.type = "run" => n.gen <= m'.gen
      BY <1>2, <1>3, <1>4, <2>1 DEF ResultIsLast
    <2> QED BY <1>1, <1>2, <1>5, <2>2 DEF ResultIsLast
  <1>9. ScreenIsTrue'
    BY <1>1, <1>4 DEF ScreenIsTrue, SudoHasEnd, PublishedHere
  <1> QED BY <1>7, <1>8, <1>9 DEF Alone

LEMMA FirstRuns ==
  ASSUME First, IInv, NEW r \in DOMAIN runs, RunStep(r)
  PROVE  Alone'
  <1>1. UNCHANGED <<m, active, session>> /\ final \subseteq final' /\ LiveInv
    BY DEF RunStep, RunBegins, RunPublishes, RunFails, rootVars, IInv
  <1>2. runs[r].path \in Paths
    <2>1. runs[r] \in Run
      BY DEF First, Shape
    <2> QED BY <2>1 DEF Run
  <1>3. CASE runs[r].phase = "start" /\ runs' = [runs EXCEPT ![r].phase = "restore"] /\ UNCHANGED <<msgs, final>>
    <2>1. /\ r = Len(runs) /\ m.state = "running" /\ Results = {}
          /\ Len(runs') = Len(runs) /\ DOMAIN runs' = DOMAIN runs /\ runs'[r].phase = "restore"
          /\ \A q \in DOMAIN runs : /\ runs'[q].path = runs[q].path /\ runs'[q].session = runs[q].session
                                    /\ runs'[q].gen = runs[q].gen /\ (q # r => runs'[q].phase = "over")
      BY <1>1, <1>3, FirstRunGoesOn
    <2>2. LastRunWorks /\ ResultIsLast /\ ScreenIsTrue
      BY DEF First, Alone
    <2>3. LastRunWorks'
      <3>1. runs' # <<>>
        BY <2>1
      <3> QED BY <1>1, <2>1, <2>2, <3>1 DEF LastRunWorks
    <2>4. ResultIsLast'
      BY <1>1, <1>3, <2>1, <2>2 DEF ResultIsLast, Results
    <2>5. ScreenIsTrue'
      BY <1>1, <1>3, <2>1, <2>2 DEF ScreenIsTrue, SudoHasEnd, PublishedHere
    <2> QED BY <2>3, <2>4, <2>5 DEF Alone
  <1>4. ASSUME runs[r].phase # "over", NEW out \in {"failed", "canceled", "refused"}, NEW path \in {NoPath, runs[r].path},
               Return(r, out, path)
        PROVE  Alone'
    BY <1>1, <1>2, <1>4, FirstReturns
  <1>5. CASE RunBegins(r)
    BY <1>3, <1>4, <1>5 DEF RunBegins
  <1>6. CASE RunPublishes(r)
    BY <1>1, <1>2, <1>6, FirstReturns DEF RunPublishes
  <1>7. CASE RunFails(r)
    BY <1>4, <1>7 DEF RunFails
  <1> QED BY <1>5, <1>6, <1>7 DEF RunStep

LEMMA FirstDeletionsEnd ==
  ASSUME First, NEW d \in deletions, DeletionEnds(d)
  PROVE  Alone'
  <1>1. UNCHANGED <<m, active, session, runs, final>> /\ msgs' = BagAdd(msgs, Note("delete", d.session, d.gen))
    BY DEF DeletionEnds, rootVars, Send
  <1>2. SameReports /\ \A n \in DOMAIN msgs : n \in DOMAIN msgs'
    <2>1. Note("delete", d.session, d.gen).type # "run"
      BY DEF Note
    <2> QED BY <1>1, <2>1, MailSent
  <1>3. SameRuns /\ m.gen \in Nat
    BY <1>1, ModalAssumption DEF SameRuns, First, Shape, Modal
  <1>4. LastRunWorks' /\ ResultIsLast'
    BY <1>1, <1>2, <1>3, Apart
  <1>5. ScreenIsTrue'
    BY <1>1, <1>2 DEF First, Alone, ScreenIsTrue, SudoHasEnd, PublishedHere, Pending
  <1> QED BY <1>4, <1>5 DEF Alone

LEMMA FirstOpens ==
  ASSUME FirstModal, IInv, OpenModal, session = 0
  PROVE  Alone'
  <1>1. session' = 1 /\ runs = <<>> /\ DOMAIN msgs = {} /\ runs' = runs /\ active'
    BY DEF FirstModal, OpenModal
  <1>2. PICK sel \in Selections, isDir \in BOOLEAN :
          /\ m' = NewModal(sel, IF memo = NoRoot THEN DefaultRoot ELSE memo)
          /\ msgs' = IF isDir THEN BagAdd(msgs, Note("counts", session + 1, 0)) ELSE msgs
    BY DEF OpenModal
  <1>3. m'.state = "review" /\ ~m'.isSudoBusy /\ m'.published = <<>>
    BY <1>2 DEF NewModal
  <1>4. \A n \in DOMAIN msgs' : n.type # "run"
    <2>1. Note("counts", session + 1, 0).type # "run"
      BY DEF Note
    <2>2. DOMAIN msgs' \subseteq DOMAIN msgs \cup {Note("counts", session + 1, 0)}
      BY <1>2, Added
    <2> QED BY <1>1, <2>1, <2>2
  <1>5. DOMAIN runs' = {}
    BY <1>1
  <1>6. LastRunWorks' /\ ResultIsLast'
    BY <1>3, <1>4, <1>5 DEF LastRunWorks, ResultIsLast, Results
  <1>7. ScreenIsTrue'
    BY <1>3 DEF ScreenIsTrue, SudoHasEnd, PublishedHere
  <1> QED BY <1>6, <1>7 DEF Alone

LEMMA FirstInvariance == Spec => [](IInv /\ FirstModal)
  <1>1. Init => FirstModal
    BY DEF Init, FirstModal, EmptyBag, SetToBag
  <1>2. IInv /\ FirstModal /\ [Next]_vars => FirstModal'
    <2> SUFFICES ASSUME IInv, FirstModal, [Next]_vars PROVE FirstModal'
      OBVIOUS
    <2>1. session \in Nat /\ (active => session > 0) /\ Shape
      BY ModalAssumption DEF IInv, Shape
    <2>2. CASE OpenModal
      <3>1. session' = session + 1
        BY <2>2 DEF OpenModal
      <3>2. session = 0 => Alone'
        BY <2>2, FirstOpens
      <3> QED BY <2>1, <3>1, <3>2 DEF FirstModal, Alone
    <2>3. CASE UNCHANGED vars
      BY <2>3 DEF vars, rootVars, diskVars, FirstModal, LastRunWorks, ResultIsLast, ScreenIsTrue, SudoHasEnd, PublishedHere,
                  Results, Pending, Path
    <2>4. CASE Key \/ Deliver \/ (\E r \in DOMAIN runs : RunStep(r)) \/ (\E d \in deletions : DeletionEnds(d))
      <3>1. session' = session /\ (active' => active)
        <4>1. CASE Key
          <5>1. UNCHANGED <<active, session>>
            BY <4>1 DEF Key, CancelKey, LeaveKey, ClosePickerKey, TargetKey, PrivKey, EnterKey, PickRoot, DeleteKey, RetargetKey,
                        rootVars
          <5> QED BY <5>1
        <4>2. CASE Deliver
          BY <2>1, <4>2 DEF Deliver, Receive, ApplyBack
        <4>3. CASE \E r \in DOMAIN runs : RunStep(r)
          BY <4>3 DEF RunStep, RunBegins, RunPublishes, RunFails, rootVars
        <4>4. CASE \E d \in deletions : DeletionEnds(d)
          BY <4>4 DEF DeletionEnds, rootVars
        <4> QED BY <2>4, <4>1, <4>2, <4>3, <4>4
      <3>2. session = 0 => ~active /\ deletions = {} /\ runs = <<>> /\ DOMAIN msgs = {}
        BY <2>1 DEF FirstModal
      <3>3. session # 0
        <4>1. Deliver => DOMAIN msgs # {}
          BY DEF Deliver
        <4>2. Key => active
          BY DEF Key, CancelKey, LeaveKey, ClosePickerKey, TargetKey, PrivKey, EnterKey, PickRoot, DeleteKey, RetargetKey,
                 InReview
        <4>3. runs = <<>> => DOMAIN runs = {}
          OBVIOUS
        <4> QED BY <2>4, <3>2, <4>1, <4>2, <4>3
      <3>4. active' /\ session = 1 => First
        BY <2>1, <3>1 DEF First, FirstModal, Alone
      <3>5. active' /\ session = 1 => Alone'
        BY <2>4, <3>4, FirstKeys, FirstDelivers, FirstRuns, FirstDeletionsEnd
      <3> QED BY <3>1, <3>3, <3>5 DEF FirstModal, Alone
    <2> QED BY <2>2, <2>3, <2>4 DEF Next
  <1> QED BY <1>1, <1>2, Invariance, PTL DEF Spec

\* Until a second modal is opened, the running screen always has an end coming.
THEOREM FirstRunEnds == Spec => [](session <= 1 => RunningHasEnd)
  <1>1. IInv /\ FirstModal => (session <= 1 => RunningHasEnd)
    <2> SUFFICES ASSUME Shape, FirstModal, session <= 1, active, m.state = "running"
                 PROVE  \/ \E r \in DOMAIN runs : runs[r].session = session /\ runs[r].gen = m.gen /\ runs[r].phase # "over"
                        \/ Pending("run") # {}
      BY DEF RunningHasEnd, IInv
    <2>1. session = 1
      BY DEF Shape
    <2>2. runs \in Seq(Run) /\ LastRunWorks
      BY <2>1 DEF FirstModal, Shape
    <2>3. runs # <<>> /\ Len(runs) \in DOMAIN runs
      BY <2>2 DEF LastRunWorks
    <2> QED BY <2>2, <2>3 DEF LastRunWorks
  <1> QED BY <1>1, FirstInvariance, PTL

\* Until a second modal is opened, a check of sudo has its answer coming.
THEOREM FirstSudoEnds == Spec => [](session <= 1 => SudoHasEnd)
  <1>1. IInv /\ FirstModal => (session <= 1 => SudoHasEnd)
    BY ModalAssumption DEF IInv, Shape, FirstModal, ScreenIsTrue, SudoHasEnd
  <1> QED BY <1>1, FirstInvariance, PTL

\* Until a second modal is opened, nothing goes on behind a terminal screen.
THEOREM FirstTerminalIsOver == Spec => [](session <= 1 => TerminalMeansOver)
  <1>1. IInv /\ FirstModal => (session <= 1 => TerminalMeansOver)
    BY ModalAssumption DEF IInv, Shape, FirstModal, LastRunWorks, TerminalMeansOver
  <1> QED BY <1>1, FirstInvariance, PTL

\* Until a second modal is opened, what it lists as published is on disk, under
\* the root it shows, and success means that nothing is missing.
THEOREM FirstPublished == Spec => [](session <= 1 => PublishedHere)
  <1>1. IInv /\ FirstModal => (session <= 1 => PublishedHere)
    BY ModalAssumption DEF IInv, Shape, FirstModal, ScreenIsTrue, PublishedHere
  <1> QED BY <1>1, FirstInvariance, PTL
=============================================================================
