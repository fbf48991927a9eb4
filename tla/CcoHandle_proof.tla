--------------------------- MODULE CcoHandle_proof ---------------------------
(***************************************************************************)
(* What is proved of the object heap stays true with clones and with the   *)
(* C++ wrapper.                                                            *)
(*                                                                         *)
(* A clone writes to slots nobody has, so IInv needs to know that a slot   *)
(* the clone has not come to is NULL and that its frames fill containers   *)
(* of their own: FramesRight.  The wrapper adds no step of its own to the  *)
(* heap: an assignment is a release and then a retain, as long as the      *)
(* reference it gave up is not given back in between: AssignRight.         *)
(***************************************************************************)
EXTENDS CcoHandle, CcoObject_proof, NaturalsInduction, WellFoundedInduction

(* The containers a clone is inside of are live and of the same length,    *)
(* and what is still to be copied is NULL.                                 *)
FrameRight(f) ==
    /\ f.src \in Obj /\ f.dst \in Obj /\ f.next \in 1 .. MaxItems + 1
    /\ status[f.src] = "live" /\ status[f.dst] = "live"
    /\ count[f.dst] = count[f.src]
    /\ \A i \in Index : f.next <= i => value[f.dst][i] = NoObj

FramesRight ==
    /\ frames \in Seq([src : Obj, dst : Obj, next : 1 .. MaxItems + 1])
    /\ frames # <<>> => stack = <<>> /\ pend.map = NoObj
    /\ \A k \in 1 .. Len(frames) : FrameRight(frames[k])
    /\ \A j, k \in 1 .. Len(frames) : frames[j].dst = frames[k].dst => j = k

CloneInv == IInv /\ FramesRight

-----------------------------------------------------------------------------
(* A slot that is not NULL becomes one more reference to a new object; a   *)
(* handle of it would do as well.                                          *)
LEMMA CopyKeeps ==
    ASSUME IInv, NEW s \in Obj, NEW d \in Obj, Copy(s, d), pend.map = NoObj,
           value' \in [Obj -> [Index -> Ref]],
           handle' \in [Handle -> Ref],
           \/ \E h \in Handle : /\ handle[h] = NoObj
                                /\ handle' = [handle EXCEPT ![h] = d]
                                /\ value' = [value EXCEPT ![d] = Empty]
           \/ \E c \in Obj, i \in Index :
                /\ status[c] = "live" /\ i <= count[c]
                /\ value[c][i] = NoObj
                /\ value' = [value EXCEPT ![d] = Empty, ![c][i] = d]
                /\ handle' = handle
    PROVE  IInv'
<1> USE DEF IInv
<1>1. /\ status[d] = "free"
      /\ status' = [status EXCEPT ![d] = "live"]
      /\ rc' = [rc EXCEPT ![d] = 1]
      /\ kind' = [kind EXCEPT ![d] = kind[s]]
      /\ count' = [count EXCEPT ![d] = count[s]]
      /\ capacity' = [capacity EXCEPT ![d] = capacity[s]]
      /\ UNCHANGED <<torn, cursor, stack, pend>>
  BY DEF Copy
<1>0. key' \in [Obj -> [Index -> Key \cup {NoKey}]]
  <2>1. PICK gone : key' = [key EXCEPT ![d] = [i \in Index |->
                              IF i \in gone THEN NoKey ELSE key[s][i]]]
    BY DEF Copy
  <2> QED BY <2>1 DEF TypeOK
<1>2. rc[d] = 0 /\ count[s] \in 0 .. MaxItems /\ cursor[d] = 1
  <2>1. rc[d] \in Nat /\ ~(rc[d] > 0) BY <1>1 DEF LiveIsCounted, TypeOK
  <2>2. cursor[d] = 1 BY <1>1 DEF CursorsRight
  <2>3. count[s] \in 0 .. MaxItems BY DEF TypeOK
  <2> HIDE DEF IInv
  <2> QED BY <2>1, <2>2, <2>3
<1>3. TypeOK' BY <1>0, <1>1 DEF TypeOK, Ref
<1>4. LiveIsCounted' BY <1>1 DEF LiveIsCounted, TypeOK
<1>5. StackDying'
  <2>1. \A j \in 1 .. Len(stack) : stack[j] \in Obj /\ stack[j] # d
    <3>1. \A j \in 1 .. Len(stack) : stack[j] \in Obj BY DEF TypeOK
    <3>2. \A j \in 1 .. Len(stack) : status[stack[j]] = "dying"
      BY DEF StackDying
    <3> HIDE DEF IInv
    <3> QED BY <1>1, <3>1, <3>2
  <2>2. \A o \in Obj : o # d => status'[o] = status[o] BY <1>1 DEF TypeOK
  <2> QED BY <1>1, <2>1, <2>2 DEF StackDying
<1>6. CursorsRight'
  <2>1. 1 <= count[s] + 1 BY <1>2
  <2> QED BY <1>1, <1>2, <2>1 DEF CursorsRight, TypeOK
<1>7. PendHeld' BY <1>1 DEF PendHeld
<1>8. RefCountExact'
  <2> SUFFICES ASSUME NEW o \in Obj
               PROVE  rc'[o] = Cardinality(HandleRefs(o)')
                               + Cardinality(ItemRefs(o)')
    BY DEF RefCountExact
  <2>1. rc'[o] = IF o = d THEN rc[o] + 1 ELSE rc[o]
    BY <1>1, <1>2 DEF TypeOK
  <2>2. CASE \E h \in Handle : /\ handle[h] = NoObj
                               /\ handle' = [handle EXCEPT ![h] = d]
                               /\ value' = [value EXCEPT ![d] = Empty]
    <3>1. PICK h \in Handle : /\ handle[h] = NoObj
                              /\ handle' = [handle EXCEPT ![h] = d]
                              /\ value' = [value EXCEPT ![d] = Empty]
      BY <2>2
    <3>2. \A c \in Obj, j \in Index :
            (Held(c, j)' <=> Held(c, j)) /\ (Held(c, j) => c # d)
      BY <1>1, <3>1 DEF Held, Empty, TypeOK
    <3>3. ItemRefs(o)' = ItemRefs(o) BY <3>1, <3>2 DEF ItemRefs, TypeOK
    <3>4. HandleRefs(o)' = IF o = d THEN HandleRefs(o) \cup {h}
                                    ELSE HandleRefs(o)
      BY <3>1, ObjAssumption DEF HandleRefs, TypeOK
    <3>5. o = d => h \notin HandleRefs(o)
      BY <3>1, ObjAssumption DEF HandleRefs
    <3> QED BY <2>1, <3>3, <3>4, <3>5, CountsAgree
  <2>3. CASE \E c \in Obj, i \in Index :
               /\ status[c] = "live" /\ i <= count[c]
               /\ value[c][i] = NoObj
               /\ value' = [value EXCEPT ![d] = Empty, ![c][i] = d]
               /\ handle' = handle
    <3>1. PICK c \in Obj, i \in Index :
            /\ status[c] = "live" /\ i <= count[c]
            /\ value[c][i] = NoObj
            /\ value' = [value EXCEPT ![d] = Empty, ![c][i] = d]
            /\ handle' = handle
      BY <2>3
    <3>2. c # d /\ cursor[c] = 1 /\ 1 <= i
      BY <1>1, <3>1 DEF CursorsRight, Index
    <3>3. \A b \in Obj, j \in Index :
            value'[b][j] = IF b = d THEN NoObj
                           ELSE IF b = c /\ j = i THEN d ELSE value[b][j]
      <4>1. value \in [Obj -> [Index -> Obj \cup {NoObj}]] BY DEF TypeOK
      <4>2. PICK w : w = [value EXCEPT ![d] = Empty] OBVIOUS
      <4>3. /\ w \in [Obj -> [Index -> Obj \cup {NoObj}]]
            /\ \A b \in Obj, j \in Index :
                 w[b][j] = IF b = d THEN NoObj ELSE value[b][j]
        BY <4>1, <4>2 DEF Empty
      <4>4. value' = [w EXCEPT ![c][i] = d] BY <3>1, <4>2
      <4>5. \A b \in Obj, j \in Index :
              value'[b][j] = IF b = c /\ j = i THEN d ELSE w[b][j]
        BY <4>3, <4>4
      <4> QED BY <3>2, <4>3, <4>5
    <3>4. \A b \in Obj, j \in Index :
            /\ Held(b, j)' <=> Held(b, j) \/ (b = c /\ j = i)
            /\ Held(b, j) => b # d
      <4> SUFFICES ASSUME NEW b \in Obj, NEW j \in Index
                   PROVE  /\ Held(b, j)' <=> Held(b, j) \/ (b = c /\ j = i)
                          /\ Held(b, j) => b # d
        OBVIOUS
      <4>1. CASE b = d BY <1>1, <3>2, <3>3, <4>1 DEF Held
      <4>2. CASE b # d
        <5>1. /\ status'[b] = status[b] /\ count'[b] = count[b]
              /\ cursor'[b] = cursor[b]
          BY <1>1, <4>2 DEF TypeOK
        <5>2. b = c /\ j = i => Held(b, j)'
          <6>1. d # NoObj /\ pend'.map # c BY <1>1, ObjAssumption
          <6> QED BY <3>1, <3>2, <3>3, <4>2, <5>1, <6>1 DEF Held
        <5>3. ~(b = c /\ j = i) => (Held(b, j)' <=> Held(b, j))
          BY <1>1, <3>3, <4>2, <5>1 DEF Held
        <5> QED BY <4>2, <5>2, <5>3
      <4> QED BY <4>1, <4>2
    <3>5. ~Held(c, i) BY <3>1 DEF Held
    <3>6. HandleRefs(o)' = HandleRefs(o) BY <3>1 DEF HandleRefs
    <3>7. ItemRefs(o)' = IF o = d THEN ItemRefs(o) \cup {<<c, i>>}
                                  ELSE ItemRefs(o)
      BY <3>1, <3>3, <3>4, <3>5 DEF ItemRefs
    <3>8. <<c, i>> \notin ItemRefs(o) BY <3>5 DEF ItemRefs
    <3> QED BY <2>1, <3>6, <3>7, <3>8, CountsAgree
  <2> QED BY <2>2, <2>3
<1> QED BY <1>3, <1>4, <1>5, <1>6, <1>7, <1>8

(* cco_object_clone, up to its loop over the items. *)
LEMMA CloneKeeps ==
    ASSUME CloneInv, NEW g \in Handle, NEW h \in Handle, Clone(g, h)
    PROVE  CloneInv'
<1> USE DEF CloneInv
<1>0. PICK s : s = handle[g] OBVIOUS
<1>1. PICK d \in Obj : /\ Copy(s, d)
                       /\ value' = [value EXCEPT ![d] = Empty]
                       /\ handle' = [handle EXCEPT ![h] = d]
                       /\ frames' = <<Enter(s, d)>>
  BY <1>0 DEF Clone
<1>2. stack = <<>> /\ pend.map = NoObj /\ handle[h] = NoObj
  BY DEF Clone, Idle
<1>3. s \in Obj /\ status[s] = "live" BY <1>0, HandleIsLive DEF Clone
<1>4. value' \in [Obj -> [Index -> Ref]] /\ handle' \in [Handle -> Ref]
  BY <1>1 DEF IInv, TypeOK, Ref, Empty
<1>5. IInv' BY <1>1, <1>2, <1>3, <1>4, CopyKeeps
<1>6. FramesRight'
  <2>0. PICK f : f = Enter(s, d) OBVIOUS
  <2>1. /\ f.src = s /\ f.dst = d /\ f.next = 1
        /\ f \in [src : Obj, dst : Obj, next : 1 .. MaxItems + 1]
    <3>1. 1 \in 1 .. MaxItems + 1 BY BoundAssumption
    <3> HIDE DEF CloneInv
    <3> QED BY <1>3, <2>0, <3>1 DEF Enter
  <2>2. /\ status'[s] = "live" /\ status'[d] = "live"
        /\ count'[d] = count'[s]
        /\ value'[d] = Empty
    BY <1>1, <1>3 DEF Copy, IInv, TypeOK
  <2>3. FrameRight(f)' BY <1>3, <2>1, <2>2 DEF FrameRight, Empty
  <2>4. /\ frames' \in Seq([src : Obj, dst : Obj, next : 1 .. MaxItems + 1])
        /\ Len(frames') = 1 /\ frames'[1] = f
    BY <1>1, <2>0, <2>1
  <2>5. stack' = <<>> /\ pend'.map = NoObj BY <1>1, <1>2 DEF Copy
  <2>6. \A k \in 1 .. Len(frames') : k = 1 BY <2>4
  <2>7. \A k \in 1 .. Len(frames') : FrameRight(frames[k])'
    <3> HIDE DEF CloneInv
    <3> QED BY <2>3, <2>4, <2>6
  <2> HIDE DEF CloneInv
  <2> QED BY <2>4, <2>5, <2>6, <2>7 DEF FramesRight
<1> QED BY <1>5, <1>6

(* What the innermost frame knows. *)
LEMMA FrameFacts ==
    ASSUME CloneInv, frames # <<>>
    PROVE  /\ Len(frames) \in 1 .. Len(frames) /\ FrameRight(Frame)
           /\ Frame \in [src : Obj, dst : Obj, next : 1 .. MaxItems + 1]
           /\ stack = <<>> /\ pend.map = NoObj
<1> DEFINE R == [src : Obj, dst : Obj, next : 1 .. MaxItems + 1]
<1>1. frames \in Seq(R) BY DEF CloneInv, FramesRight
<1>2. Len(frames) \in 1 .. Len(frames) BY <1>1
<1>3. Frame \in R
  <2> HIDE DEF R
  <2> QED BY <1>1, <1>2 DEF Frame
<1>4. FrameRight(Frame) BY <1>2 DEF CloneInv, FramesRight, Frame
<1> QED BY <1>2, <1>3, <1>4 DEF CloneInv, FramesRight

(* Going on to the next item of the innermost frame. *)
LEMMA AdvancedRight ==
    ASSUME CloneInv, frames # <<>>, Frame.next <= count[Frame.src]
    PROVE  /\ Advanced \in Seq([src : Obj, dst : Obj,
                                next : 1 .. MaxItems + 1])
           /\ Len(Advanced) = Len(frames)
           /\ Advanced[Len(frames)] = [Frame EXCEPT !.next = @ + 1]
           /\ \A k \in 1 .. Len(frames) :
                /\ Advanced[k].src = frames[k].src
                /\ Advanced[k].dst = frames[k].dst
                /\ k # Len(frames) => Advanced[k] = frames[k]
           /\ Frame.next \in Index /\ Frame.next + 1 \in 1 .. MaxItems + 1
<1> DEFINE R == [src : Obj, dst : Obj, next : 1 .. MaxItems + 1]
           n == Len(frames)
<1>1. n \in 1 .. n /\ Frame \in R /\ FrameRight(Frame) BY FrameFacts
<1>2. Frame.next \in Index /\ Frame.next + 1 \in 1 .. MaxItems + 1
  <2>1. count[Frame.src] \in 0 .. MaxItems
    BY <1>1 DEF CloneInv, IInv, TypeOK, FrameRight
  <2> QED BY <1>1, <2>1, BoundAssumption DEF Index
<1>3. [Frame EXCEPT !.next = @ + 1] \in R BY <1>1, <1>2
<1>4. frames \in Seq(R) BY DEF CloneInv, FramesRight
<1>5. Advanced = [frames EXCEPT ![n] = [Frame EXCEPT !.next = @ + 1]]
  BY <1>1, <1>4 DEF Advanced, Frame
<1> QED BY <1>1, <1>2, <1>3, <1>4, <1>5 DEF Frame

(* The copy of an item goes to a slot that is NULL.                         *)
LEMMA CloneItemKeeps ==
    ASSUME CloneInv, CloneItem
    PROVE  CloneInv'
<1> DEFINE R == [src : Obj, dst : Obj, next : 1 .. MaxItems + 1]
<1>0. PICK c, i, s, n : /\ c = Frame.dst /\ i = Frame.next /\ s = Child
                        /\ n = Len(frames)
  OBVIOUS
<1>1. frames # <<>> /\ Frame.next <= count[Frame.src] /\ s # NoObj
  BY <1>0 DEF CloneItem
<1>2. PICK d \in Obj :
        /\ Copy(s, d)
        /\ value' = [value EXCEPT ![d] = Empty, ![c][i] = d]
        /\ frames' = Append(Advanced, Enter(s, d))
        /\ handle' = handle
  BY <1>0 DEF CloneItem
<1>3. PICK f : f = Enter(s, d) OBVIOUS
<1>4. n \in 1 .. n /\ FrameRight(Frame) /\ Frame \in R /\ Frame = frames[n]
      /\ stack = <<>> /\ pend.map = NoObj
  BY <1>0, <1>1, FrameFacts DEF Frame
<1>5. /\ Advanced \in Seq(R) /\ Len(Advanced) = n
      /\ Advanced[n] = [Frame EXCEPT !.next = @ + 1]
      /\ \A k \in 1 .. n : /\ Advanced[k].src = frames[k].src
                           /\ Advanced[k].dst = frames[k].dst
                           /\ k # n => Advanced[k] = frames[k]
      /\ i \in Index /\ i + 1 \in 1 .. MaxItems + 1
  BY <1>0, <1>1, AdvancedRight
<1>6. /\ c \in Obj /\ status[c] = "live" /\ i <= count[c]
      /\ value[c][i] = NoObj
  <2>1. i <= i BY <1>5 DEF Index
  <2> QED BY <1>0, <1>1, <1>4, <1>5, <2>1 DEF FrameRight
<1>7. s \in Obj /\ status[s] = "live"
  <2> DEFINE b == Frame.src
  <2>1. b \in Obj /\ status[b] = "live" /\ i <= count[b] /\ value[b][i] = s
    BY <1>0, <1>1, <1>4 DEF FrameRight, Child
  <2>2. cursor[b] = 1 /\ 1 <= i
    BY <1>5, <2>1 DEF CloneInv, IInv, CursorsRight, Index
  <2>3. Held(b, i) BY <1>1, <1>4, <2>1, <2>2, ObjAssumption DEF Held
  <2> QED BY <1>5, <2>1, <2>3, SlotIsLive DEF CloneInv
<1>8. IInv'
  <2>1. value' \in [Obj -> [Index -> Ref]] /\ handle' \in [Handle -> Ref]
    BY <1>2, <1>5, <1>6 DEF CloneInv, IInv, TypeOK, Ref, Empty
  <2> QED BY <1>2, <1>4, <1>5, <1>6, <1>7, <2>1, CopyKeeps DEF CloneInv
<1>9. /\ d # s /\ status[d] = "free"
      /\ \A o \in Obj : o # d => status'[o] = status[o] /\ count'[o] = count[o]
      /\ status'[d] = "live" /\ count'[d] = count[s]
      /\ stack' = stack /\ pend' = pend
  BY <1>2, <1>7 DEF Copy, CloneInv, IInv, TypeOK
<1>10. \A b \in Obj, j \in Index :
         value'[b][j] = IF b = d THEN NoObj
                        ELSE IF b = c /\ j = i THEN d ELSE value[b][j]
  <2>1. c # d BY <1>6, <1>9
  <2> QED BY <1>2, <1>5, <1>6, <2>1 DEF Empty, CloneInv, IInv, TypeOK
<1>11. f \in R /\ f.src = s /\ f.dst = d /\ f.next = 1
  <2>1. 1 \in 1 .. MaxItems + 1 BY BoundAssumption
  <2> QED BY <1>3, <1>7, <2>1 DEF Enter
<1>12. /\ frames' \in Seq(R) /\ Len(frames') = n + 1 /\ frames'[n + 1] = f
       /\ \A k \in 1 .. n : frames'[k] = Advanced[k]
       /\ \A k \in 1 .. Len(frames') : k \in 1 .. n \/ k = n + 1
  <2> HIDE DEF R
  <2> QED BY <1>2, <1>3, <1>4, <1>5, <1>11
<1>13. ASSUME NEW k \in 1 .. Len(frames'), NEW e, e = frames'[k]
       PROVE  FrameRight(e)'
  <2>1. CASE k = n + 1
    BY <1>7, <1>9, <1>10, <1>11, <1>12, <1>13, <2>1 DEF FrameRight
  <2>2. CASE k \in 1 .. n
    <3>1. PICK a : a = frames[k] OBVIOUS
    <3>2. FrameRight(a) /\ (a.dst = c => k = n)
      BY <1>0, <1>4, <2>2, <3>1 DEF CloneInv, FramesRight
    <3>3. /\ e.src = a.src /\ e.dst = a.dst /\ (k # n => e = a)
          /\ k = n => e.next = i + 1 /\ a.next = i
      BY <1>0, <1>4, <1>5, <1>12, <1>13, <2>2, <3>1
    <3>4. a.src # d /\ a.dst # d BY <1>9, <3>2 DEF FrameRight
    <3>5. e.next \in 1 .. MaxItems + 1
      BY <1>5, <3>2, <3>3 DEF FrameRight
    <3>6. ASSUME NEW j \in Index, e.next <= j
          PROVE  value'[e.dst][j] = NoObj
      <4>1. CASE k = n
        <5>1. j # i /\ a.next <= j
          BY <1>5, <3>3, <3>6, <4>1 DEF Index
        <5> QED BY <1>10, <3>2, <3>3, <3>4, <5>1 DEF FrameRight
      <4>2. CASE k # n
        BY <1>10, <3>2, <3>3, <3>4, <3>6, <4>2 DEF FrameRight
      <4> QED BY <4>1, <4>2
    <3> QED BY <1>9, <3>2, <3>3, <3>4, <3>5, <3>6 DEF FrameRight
  <2> QED BY <1>12, <2>1, <2>2
<1>14. ASSUME NEW j \in 1 .. Len(frames'), NEW k \in 1 .. Len(frames'),
              frames'[j].dst = frames'[k].dst
       PROVE  j = k
  <2>1. \A m \in 1 .. n : /\ frames'[m].dst = frames[m].dst
                          /\ frames[m].dst # d
    BY <1>0, <1>5, <1>9, <1>12 DEF CloneInv, FramesRight, FrameRight
  <2>2. CASE j \in 1 .. n /\ k \in 1 .. n
    BY <1>0, <1>14, <2>1, <2>2 DEF CloneInv, FramesRight
  <2> QED BY <1>11, <1>12, <1>14, <2>1, <2>2
<1>15. FramesRight'
  <2>1. \A k \in 1 .. Len(frames') : FrameRight(frames[k])'
    <3> SUFFICES ASSUME NEW k \in 1 .. Len(frames')
                 PROVE  FrameRight(frames[k])'
      OBVIOUS
    <3>1. PICK e : e = frames'[k] OBVIOUS
    <3> QED BY <1>13, <3>1 DEF FrameRight
  <2> QED BY <1>4, <1>9, <1>12, <1>14, <2>1 DEF FramesRight
<1> QED BY <1>8, <1>15 DEF CloneInv

(* A step that goes on or returns in the clone changes nothing else.        *)
LEMMA CloneRestKeeps ==
    ASSUME CloneInv, CloneNothing \/ CloneReturn
    PROVE  CloneInv'
<1> DEFINE R == [src : Obj, dst : Obj, next : 1 .. MaxItems + 1]
<1>1. frames # <<>> /\ UNCHANGED vars BY DEF CloneNothing, CloneReturn, CloneDone
<1>2. IInv' BY <1>1, StepKeeps DEF CloneInv
<1>3. stack' = <<>> /\ pend'.map = NoObj BY <1>1, FrameFacts DEF vars
<1>4. \A f : FrameRight(f) => FrameRight(f)' BY <1>1 DEF FrameRight, vars
<1>5. CASE CloneNothing
  <2>0. PICK n, a : n = Len(frames) /\ a = Frame OBVIOUS
  <2>1. /\ frames' \in Seq(R) /\ Len(frames') = n /\ n \in 1 .. n
        /\ frames'[n] = [a EXCEPT !.next = @ + 1]
        /\ \A k \in 1 .. n : /\ frames'[k].dst = frames[k].dst
                             /\ k # n => frames'[k] = frames[k]
        /\ a.next \in Index /\ a.next + 1 \in 1 .. MaxItems + 1
        /\ FrameRight(a) /\ a \in R
    BY <1>1, <1>5, <2>0, AdvancedRight, FrameFacts DEF CloneNothing
  <2>2. PICK e : e = [a EXCEPT !.next = @ + 1] OBVIOUS
  <2>3. e.src = a.src /\ e.dst = a.dst /\ e.next = a.next + 1
    BY <2>1, <2>2
  <2>4. FrameRight(e)
    <3>1. \A j \in Index : e.next <= j => a.next <= j
      BY <2>1, <2>3 DEF Index
    <3> QED BY <2>1, <2>3, <3>1 DEF FrameRight
  <2>5. \A k \in 1 .. Len(frames') : FrameRight(frames[k])'
    <3> SUFFICES ASSUME NEW k \in 1 .. Len(frames')
                 PROVE  FrameRight(frames[k])'
      OBVIOUS
    <3>1. PICK b : b = frames'[k] OBVIOUS
    <3>2. FrameRight(b)
      BY <2>0, <2>1, <2>2, <2>4, <3>1 DEF CloneInv, FramesRight
    <3> QED BY <1>4, <3>1, <3>2 DEF FrameRight
  <2>6. \A j, k \in 1 .. Len(frames') :
          frames'[j].dst = frames'[k].dst => j = k
    BY <2>0, <2>1 DEF CloneInv, FramesRight
  <2> QED BY <1>2, <1>3, <2>1, <2>5, <2>6 DEF CloneInv, FramesRight
<1>6. CASE CloneReturn
  <2>1. /\ frames' \in Seq(R) /\ Len(frames') <= Len(frames)
        /\ \A k \in 1 .. Len(frames') : /\ k \in 1 .. Len(frames)
                                        /\ frames'[k] = frames[k]
    <3>0. PICK m : m = Len(frames) - 1 OBVIOUS
    <3>1. frames \in Seq(R) /\ m \in Nat /\ m <= Len(frames)
      BY <1>1, <3>0 DEF CloneInv, FramesRight
    <3>2. \A k \in 1 .. m : frames[k] \in R
      <4>1. \A k \in 1 .. m : k \in 1 .. Len(frames) BY <3>1
      <4>2. \A k \in 1 .. Len(frames) : frames[k] \in R
        <5> HIDE DEF R
        <5> QED BY <3>1
      <4> HIDE DEF R
      <4> QED BY <4>1, <4>2
    <3>3. frames' = SubSeq(frames, 1, m) BY <1>6, <3>0 DEF CloneReturn
    <3> HIDE DEF R
    <3> QED BY <3>0, <3>1, <3>2, <3>3
  <2>2. \A k \in 1 .. Len(frames') : FrameRight(frames[k])'
    <3> SUFFICES ASSUME NEW k \in 1 .. Len(frames')
                 PROVE  FrameRight(frames[k])'
      OBVIOUS
    <3>1. PICK b : b = frames'[k] OBVIOUS
    <3>2. FrameRight(b) BY <2>1, <3>1 DEF CloneInv, FramesRight
    <3> QED BY <1>4, <3>1, <3>2 DEF FrameRight
  <2>3. \A j, k \in 1 .. Len(frames') :
          frames'[j].dst = frames'[k].dst => j = k
    BY <2>1 DEF CloneInv, FramesRight
  <2> QED BY <1>2, <1>3, <2>1, <2>2, <2>3 DEF CloneInv, FramesRight
<1> QED BY <1>5, <1>6

-----------------------------------------------------------------------------
(* No step of a program that clones breaks the invariant...                 *)
LEMMA CloneStepKeeps == CloneInv /\ [CloneNext]_allVars => CloneInv'
<1> SUFFICES ASSUME CloneInv, [CloneNext]_allVars PROVE CloneInv'
  OBVIOUS
<1>1. ASSUME NEW g \in Handle, NEW h \in Handle, Clone(g, h) PROVE CloneInv'
  BY <1>1, CloneKeeps
<1>2. CASE CloneItem BY <1>2, CloneItemKeeps
<1>3. CASE CloneNothing \/ CloneReturn BY <1>3, CloneRestKeeps
<1>4. CASE frames = <<>> /\ Next /\ UNCHANGED cloneVars
  <2>1. IInv' BY <1>4, StepKeeps DEF CloneInv
  <2>2. frames' = <<>> BY <1>4 DEF cloneVars
  <2> QED BY <2>1, <2>2 DEF CloneInv, FramesRight
<1>5. CASE UNCHANGED allVars
  <2>1. IInv' BY <1>5, StepKeeps DEF CloneInv, allVars
  <2>2. FramesRight'
    BY <1>5 DEF CloneInv, FramesRight, FrameRight, allVars, vars
  <2> QED BY <2>1, <2>2 DEF CloneInv
<1> QED BY <1>1, <1>2, <1>3, <1>4, <1>5 DEF CloneNext

(* ... so counts stay exact and nothing dangles while trees are copied, by  *)
(* clones that share nothing and by clones that run out of memory.          *)
THEOREM CloneInvariant == CloneSpec => []CloneInv
<1>1. CloneInit => CloneInv
  BY InitEstablishes DEF CloneInit, CloneInv, FramesRight
<1> QED BY <1>1, CloneStepKeeps, PTL DEF CloneSpec

-----------------------------------------------------------------------------
(* The wrapper that is being assigned to owns nothing until it is done.     *)
AssignRight ==
    Assigning =>
        /\ assign.to \in Handle /\ assign.from \in Handle
        /\ assign.to # assign.from
        /\ handle[assign.to] = NoObj
        /\ pend.map = NoObj /\ frames = <<>>

HandleInv == CloneInv /\ AssignRight

(* A release in progress leaves the handles alone. *)
LEMMA ReleaseRunsOn ==
    ASSUME stack # <<>>, frames = <<>>, CloneNext
    PROVE  UNCHANGED <<handle, pend, frames>>
<1>1. Next /\ UNCHANGED cloneVars
  BY DEF CloneNext, Clone, CloneItem, CloneNothing, CloneReturn, CloneDone, Idle
<1>2. ReleaseItem \/ Free
  BY <1>1 DEF Next, Idle, Create, Retain, RetainItem, Release, ArrayAppend,
              MapReplace, MapReplaced, MapInsert, MapInsertNoKey,
              MapInsertHalfGrown
<1> QED BY <1>1, <1>2 DEF ReleaseItem, Free, cloneVars

(* The first half of an assignment is a release, or nothing.                *)
LEMMA AssignReleases ==
    ASSUME HandleInv, NEW h \in Handle, NEW g \in Handle, Assign(h, g)
    PROVE  [CloneNext]_allVars /\ AssignRight'
<1>1. /\ Idle /\ frames = <<>> /\ h # g
      /\ Drop(handle[h])
      /\ handle' = [handle EXCEPT ![h] = NoObj]
      /\ assign' = [to |-> h, from |-> g, old |-> handle[h]]
      /\ UNCHANGED <<heapVars, cursor, pend, cloneVars>>
  BY DEF Assign, NotSelf
<1>2. handle \in [Handle -> Obj \cup {NoObj}]
  BY DEF HandleInv, CloneInv, IInv, TypeOK
<1>3. AssignRight' BY <1>1, <1>2 DEF AssignRight, Idle, cloneVars
<1>4. CASE handle[h] = NoObj
  <2>1. handle' = handle BY <1>1, <1>2, <1>4
  <2>2. UNCHANGED <<rc, status, stack>> BY <1>1, <1>4 DEF Drop
  <2>3. UNCHANGED allVars
    BY <1>1, <2>1, <2>2 DEF allVars, vars, heapVars, cloneVars
  <2> QED BY <1>3, <2>3
<1>5. CASE handle[h] # NoObj
  <2>1. Release(h) BY <1>1, <1>5 DEF Release
  <2> QED BY <1>1, <1>3, <2>1 DEF CloneNext, Next
<1> QED BY <1>4, <1>5

(* The second half is a retain, or nothing.                                 *)
LEMMA AssignedRetains ==
    ASSUME HandleInv, Assigned
    PROVE  [CloneNext]_allVars /\ AssignRight'
<1> DEFINE h == assign.to
           g == assign.from
<1>1. /\ Assigning /\ stack = <<>>
      /\ assign' = NoAssign
      /\ UNCHANGED <<status, heapVars, cursor, stack, pend, cloneVars>>
  BY DEF Assigned
<1>2. /\ h \in Handle /\ g \in Handle /\ h # g
      /\ handle[h] = NoObj /\ pend.map = NoObj /\ frames = <<>>
  BY <1>1 DEF HandleInv, AssignRight
<1>3. Member(g) = handle[g] BY <1>2 DEF Member
<1>4. /\ handle' = [handle EXCEPT ![h] = handle[g]]
      /\ IF handle[g] # NoObj THEN rc' = [rc EXCEPT ![handle[g]] = @ + 1]
                              ELSE UNCHANGED rc
  BY <1>3 DEF Assigned
<1>5. AssignRight' BY <1>1 DEF AssignRight, Assigning, NoAssign
<1>6. CASE handle[g] = NoObj
  <2>1. handle \in [Handle -> Obj \cup {NoObj}]
    BY DEF HandleInv, CloneInv, IInv, TypeOK
  <2>2. handle' = handle BY <1>2, <1>4, <1>6, <2>1
  <2>3. UNCHANGED allVars
    BY <1>1, <1>4, <1>6, <2>2 DEF allVars, vars, heapVars, cloneVars
  <2> QED BY <1>5, <2>3
<1>7. CASE handle[g] # NoObj
  <2>1. Retain(g, h)
    BY <1>1, <1>2, <1>4, <1>7 DEF Retain, Keep, Idle
  <2> QED BY <1>1, <1>2, <1>5, <2>1 DEF CloneNext, Next
<1> QED BY <1>6, <1>7

(* Every step of a program that uses the wrapper is one of the heap or none.*)
LEMMA HandleStep ==
    HandleInv /\ [HandleNext]_handleVars => HandleInv' /\ [CloneNext]_allVars
<1> SUFFICES ASSUME HandleInv, [HandleNext]_handleVars
             PROVE  [CloneNext]_allVars /\ AssignRight'
  BY CloneStepKeeps DEF HandleInv
<1>1. ASSUME NEW h \in Handle, NEW g \in Handle, Assign(h, g)
      PROVE  [CloneNext]_allVars /\ AssignRight'
  BY <1>1, AssignReleases
<1>2. CASE Assigned BY <1>2, AssignedRetains
<1>3. CASE (Assigning => stack # <<>>) /\ CloneNext /\ UNCHANGED assign
  <2>1. AssignRight'
    BY <1>3, ReleaseRunsOn DEF HandleInv, AssignRight, Assigning
  <2> QED BY <1>3, <2>1
<1>4. CASE UNCHANGED handleVars
  <2>1. AssignRight'
    BY <1>4 DEF HandleInv, AssignRight, Assigning, handleVars, allVars, vars
  <2> QED BY <1>4, <2>1 DEF handleVars
<1> QED BY <1>1, <1>2, <1>3, <1>4 DEF HandleNext

(* The wrapper is a heap program; the invariant carries the proof along.    *)
LEMMA HandleInvariant == HandleSpec => []HandleInv
<1>1. HandleInit => HandleInv
  BY InitEstablishes, NoHandleAssumption
     DEF HandleInit, CloneInit, HandleInv, CloneInv, FramesRight, AssignRight,
         Assigning, NoAssign
<1> QED BY <1>1, HandleStep, PTL DEF HandleSpec

(* cnt::cco::Object adds nothing to the heap: a program that copies,        *)
(* assigns (also to itself) and destroys wrappers is one that retains and   *)
(* releases.                                                                *)
THEOREM WrapperRefines == HandleSpec => WrapperIsHeap
<1>1. HandleInit => CloneInit BY DEF HandleInit
<1> QED BY <1>1, HandleInvariant, HandleStep, PTL
           DEF HandleSpec, WrapperIsHeap, CloneSpec

(* So its programs neither use nor free an object twice...                  *)
THEOREM WrapperSafe == HandleSpec => []NoDangling
<1>1. HandleInv => NoDangling BY IInvImplies DEF HandleInv, CloneInv
<1> QED BY <1>1, HandleInvariant, PTL

(* ... and every count stays exact.                                         *)
THEOREM WrapperCounts == HandleSpec => []RefCountExact
<1>1. HandleInv => RefCountExact BY DEF HandleInv, CloneInv, IInv
<1> QED BY <1>1, HandleInvariant, PTL

(* Clones and assignments leave every variable of the type it has.          *)
THEOREM WrapperTyped == HandleSpec => []HandleTypeOK
<1> DEFINE Lost == lost \in BOOLEAN
           A == [to : Handle \cup {NoHandle}, from : Handle \cup {NoHandle},
                 old : Ref]
           Rest == Lost /\ assign \in A
<1>1. HandleInit => Rest
  <2>1. NoAssign \in A BY DEF NoAssign, Ref
  <2>2. HandleInit => Lost BY DEF HandleInit, CloneInit
  <2> HIDE DEF A, Lost
  <2> QED BY <2>1, <2>2 DEF HandleInit
<1>2. HandleInv /\ Rest /\ [HandleNext]_handleVars => Rest'
  <2> SUFFICES ASSUME HandleInv, Rest, [HandleNext]_handleVars PROVE Rest'
    OBVIOUS
  <2>1. ASSUME NEW h \in Handle, NEW g \in Handle, Assign(h, g) PROVE Rest'
    <3>1. handle[h] \in Ref BY DEF HandleInv, CloneInv, IInv, TypeOK, Ref
    <3>2. assign' = [to |-> h, from |-> g, old |-> handle[h]] /\ lost' = lost
      BY <2>1 DEF Assign, cloneVars
    <3> HIDE DEF Lost
    <3>3. assign' \in A BY <3>1, <3>2
    <3>4. Lost' BY <3>2 DEF Lost
    <3> QED BY <3>3, <3>4
  <2>2. CASE Assigned
    BY <2>2 DEF Assigned, NoAssign, Ref, cloneVars
  <2>3. CASE CloneNext /\ UNCHANGED assign
    <3>1. Lost'
      BY <2>3, Zenon DEF CloneNext, Clone, CloneItem, CloneNothing, CloneReturn,
                  Copy, cloneVars
    <3> QED BY <2>3, <3>1
  <2>4. CASE UNCHANGED handleVars BY <2>4 DEF handleVars, allVars
  <2> QED BY <2>1, <2>2, <2>3, <2>4 DEF HandleNext
<1>3. HandleInv /\ Rest => HandleTypeOK
  BY DEF HandleInv, CloneInv, IInv, FramesRight, HandleTypeOK, CloneTypeOK
<1> QED BY <1>1, <1>2, <1>3, HandleInvariant, PTL DEF HandleSpec

-----------------------------------------------------------------------------
(* What a copy of s in d looks like. *)
Copied(s, d) ==
    /\ s \in Obj /\ status[s] = "live"
    /\ d \in Obj /\ status[d] = "free" /\ s # d
    /\ \A o \in Obj :
         IF o = d
         THEN /\ status'[o] = "live" /\ rc'[o] = 1 /\ kind'[o] = kind[s]
              /\ count'[o] = count[s] /\ capacity'[o] = capacity[s]
              /\ cursor'[o] = 1
         ELSE /\ status'[o] = status[o] /\ rc'[o] = rc[o]
              /\ kind'[o] = kind[o] /\ count'[o] = count[o]
              /\ capacity'[o] = capacity[o] /\ key'[o] = key[o]
              /\ cursor'[o] = cursor[o]
    /\ \A i \in Index : key'[d][i] \in {key[s][i], NoKey}
    /\ ~lost' => ~lost /\ key'[d] = key[s]
    /\ lost' /\ ~lost => /\ kind[s] = "map"
                        /\ \E i \in 1 .. count[s] : key'[d][i] # key[s][i]
    /\ stack' = stack /\ pend' = pend /\ torn' = torn

LEMMA CopyCopies ==
    ASSUME IInv, NEW s \in Obj, status[s] = "live", NEW d \in Obj, Copy(s, d)
    PROVE  Copied(s, d)
<1>1. cursor[d] = 1 BY DEF Copy, IInv, CursorsRight
<1>2. PICK gone \in SUBSET {i \in Index : i <= count[s] /\ kind[s] = "map"} :
        key' = [key EXCEPT ![d] = [i \in Index |-> IF i \in gone THEN NoKey
                                                   ELSE key[s][i]]]
  BY DEF Copy
<1>3. key \in [Obj -> [Index -> Key \cup {NoKey}]] BY DEF IInv, TypeOK
<1>4. /\ \A i \in Index : key'[d][i] = IF i \in gone THEN NoKey ELSE key[s][i]
      /\ \A o \in Obj : o # d => key'[o] = key[o]
  BY <1>2, <1>3
<1>5. (\A i \in gone : key[s][i] = NoKey) => key'[d] = key[s]
  BY <1>2, <1>3
<1>6. ASSUME key'[d] # key[s]
      PROVE  kind[s] = "map" /\ \E i \in 1 .. count[s] : key'[d][i] # key[s][i]
  <2>1. PICK i \in gone : key[s][i] # NoKey BY <1>5, <1>6
  <2>2. i \in Index /\ i <= count[s] /\ kind[s] = "map" /\ count[s] \in Nat
    BY <1>2 DEF IInv, TypeOK
  <2> QED BY <1>4, <2>1, <2>2 DEF Index
<1>7. lost' <=> lost \/ key'[d] # key[s] BY DEF Copy
<1>8. /\ status[d] = "free" /\ s # d
      /\ stack' = stack /\ pend' = pend /\ torn' = torn
      /\ \A o \in Obj :
           IF o = d
           THEN /\ status'[o] = "live" /\ rc'[o] = 1 /\ kind'[o] = kind[s]
                /\ count'[o] = count[s] /\ capacity'[o] = capacity[s]
                /\ cursor'[o] = 1
           ELSE /\ status'[o] = status[o] /\ rc'[o] = rc[o]
                /\ kind'[o] = kind[o] /\ count'[o] = count[o]
                /\ capacity'[o] = capacity[o] /\ cursor'[o] = cursor[o]
  BY <1>1 DEF Copy, IInv, TypeOK
<1> QED BY <1>4, <1>6, <1>7, <1>8 DEF Copied

(* If a key is lost the copy is told from its original. *)
LEMMA CopyDiffers ==
    ASSUME NEW s \in Obj, NEW d \in Obj, Copied(s, d), ~lost, lost'
    PROVE  ~SameNode(s, d)'
<1>1. /\ kind'[s] = "map" /\ count'[s] = count[s]
      /\ \E i \in 1 .. count[s] : key'[d][i] # key'[s][i]
  BY DEF Copied
<1> QED BY <1>1 DEF SameNode, Compared

(* The first copy goes to a handle... *)
LEMMA CloneDoes ==
    ASSUME CloneInv, NEW g \in Handle, NEW h \in Handle, Clone(g, h)
    PROVE  \E s, d \in Obj :
             /\ Copied(s, d) /\ s = handle[g] /\ handle[h] = NoObj
             /\ handle' = [handle EXCEPT ![h] = d]
             /\ \A b \in Obj, j \in Index :
                  value'[b][j] = IF b = d THEN NoObj ELSE value[b][j]
             /\ frames = <<>> /\ frames' = <<Enter(s, d)>>
             /\ stack = <<>> /\ pend.map = NoObj
<1>1. PICK s : s = handle[g] OBVIOUS
<1>2. s \in Obj /\ status[s] = "live"
  BY <1>1, HandleIsLive DEF Clone, CloneInv
<1>3. PICK d \in Obj : /\ Copy(s, d)
                       /\ value' = [value EXCEPT ![d] = Empty]
                       /\ handle' = [handle EXCEPT ![h] = d]
                       /\ frames' = <<Enter(s, d)>>
  BY <1>1 DEF Clone
<1>4. Copied(s, d) BY <1>2, <1>3, CopyCopies DEF CloneInv
<1>5. \A b \in Obj, j \in Index :
        value'[b][j] = IF b = d THEN NoObj ELSE value[b][j]
  BY <1>3 DEF Empty, CloneInv, IInv, TypeOK
<1>6. /\ frames = <<>> /\ handle[h] = NoObj
      /\ stack = <<>> /\ pend.map = NoObj
  BY DEF Clone, Idle
<1> QED BY <1>1, <1>2, <1>3, <1>4, <1>5, <1>6

(* ... and the others to the slot the innermost frame has come to, which is *)
(* NULL.                                                                    *)
LEMMA CloneItemDoes ==
    ASSUME CloneInv, CloneItem
    PROVE  \E c, d \in Obj, i \in Index :
             /\ c = Frame.dst /\ i = Frame.next
             /\ Copied(Child, d) /\ c # d /\ status[c] = "live"
             /\ i <= count[c] /\ value[c][i] = NoObj
             /\ \A b \in Obj, j \in Index :
                  value'[b][j] = IF b = d THEN NoObj
                                 ELSE IF b = c /\ j = i THEN d ELSE value[b][j]
             /\ frames # <<>> /\ frames' = Append(Advanced, Enter(Child, d))
             /\ handle' = handle
             /\ stack = <<>> /\ pend.map = NoObj
<1>1. frames # <<>> /\ Frame.next <= count[Frame.src] /\ Child # NoObj
  BY DEF CloneItem
<1>2. PICK a, c, i, s : /\ a = Frame.src /\ c = Frame.dst /\ i = Frame.next
                        /\ s = Child
  OBVIOUS
<1>3. PICK d \in Obj :
        /\ Copy(s, d)
        /\ value' = [value EXCEPT ![d] = Empty, ![c][i] = d]
        /\ frames' = Append(Advanced, Enter(s, d))
        /\ handle' = handle
  BY <1>2 DEF CloneItem
<1>4. i \in Index BY <1>1, <1>2, AdvancedRight
<1>5. /\ a \in Obj /\ c \in Obj /\ status[a] = "live" /\ status[c] = "live"
      /\ count[c] = count[a] /\ i <= count[a] /\ s = value[a][i]
      /\ stack = <<>> /\ pend.map = NoObj
  BY <1>1, <1>2, FrameFacts DEF FrameRight, Child
<1>6. value[c][i] = NoObj
  <2>1. i <= i BY <1>4 DEF Index
  <2> QED BY <1>1, <1>2, <1>4, <2>1, FrameFacts DEF FrameRight
<1>7. s \in Obj /\ status[s] = "live"
  <2>1. cursor[a] = 1 /\ 1 <= i
    BY <1>4, <1>5 DEF CloneInv, IInv, CursorsRight, Index
  <2>2. Held(a, i) BY <1>1, <1>2, <1>5, <2>1, ObjAssumption DEF Held
  <2> QED BY <1>4, <1>5, <2>2, SlotIsLive DEF CloneInv
<1>8. Copied(s, d) BY <1>3, <1>7, CopyCopies DEF CloneInv
<1>9. c # d BY <1>5, <1>8 DEF Copied
<1>10. \A b \in Obj, j \in Index :
         value'[b][j] = IF b = d THEN NoObj
                        ELSE IF b = c /\ j = i THEN d ELSE value[b][j]
  BY <1>3, <1>4, <1>5, <1>9 DEF Empty, CloneInv, IInv, TypeOK
<1> QED
  <2>1. c \in Obj BY <1>5
  <2>2. i \in Index BY <1>4
  <2> WITNESS c \in Obj, d \in Obj, i \in Index
  <2> QED BY <1>1, <1>2, <1>3, <1>5, <1>6, <1>8, <1>9, <1>10

-----------------------------------------------------------------------------
(* A copy has the room and the keys of the original, or NULL for a key. *)
LEMMA CloneWellFormed ==
    ASSUME CloneInv, WellFormed, [CloneNext]_allVars
    PROVE  WellFormed'
<1>1. ASSUME NEW s, NEW d, Copied(s, d) PROVE WellFormed'
  <2>1. /\ s \in Obj /\ count[s] \in 0 .. MaxItems /\ kind'[d] = kind[s]
        /\ count'[d] = count[s] /\ capacity'[d] = capacity[s]
    BY <1>1 DEF Copied, CloneInv, IInv, TypeOK
  <2>2. \A i \in 1 .. count[s] : key'[d][i] = key[s][i] \/ key'[d][i] = NoKey
    <3>1. \A i \in 1 .. count[s] : i \in Index
      BY <2>1, BoundAssumption DEF Index
    <3> QED BY <1>1, <3>1 DEF Copied
  <2>3. \A o \in Obj : o # d =>
          /\ kind'[o] = kind[o] /\ count'[o] = count[o]
          /\ capacity'[o] = capacity[o] /\ key'[o] = key[o]
    BY <1>1 DEF Copied
  <2> QED BY <2>1, <2>2, <2>3 DEF WellFormed
<1>2. ASSUME NEW g \in Handle, NEW h \in Handle, Clone(g, h) PROVE WellFormed'
  BY <1>1, <1>2, CloneDoes
<1>3. CASE CloneItem BY <1>1, <1>3, CloneItemDoes
<1>4. CASE CloneNothing \/ CloneReturn \/ UNCHANGED allVars
  BY <1>4 DEF CloneNothing, CloneReturn, WellFormed, allVars, vars
<1>5. CASE Next BY <1>5, WellFormedKept DEF CloneInv
<1> QED BY <1>2, <1>3, <1>4, <1>5 DEF CloneNext

(* A new object holds nothing, so a reference to it closes no cycle.        *)
LEMMA CopyGrows ==
    ASSUME CloneInv, LeakInv, NEW s, NEW d, Copied(s, d),
           stack = <<>>, pend.map = NoObj, NEW c \in Obj, c # d,
           \A b \in Obj, j \in Index :
             IF b = d THEN value'[b][j] = NoObj
             ELSE value'[b][j] = value[b][j] \/ (b = c /\ value'[b][j] = d)
    PROVE  LeakInv'
<1> USE DEF CloneInv
<1>1. \A o \in Obj : ~Edge(d, o) BY DEF Edge, Held, Copied
<1>2. c \notin Reachable({d})
  <2>1. {d} \in SUBSET Obj /\ \A x \in {d}, o \in Obj : Edge(x, o) => o \in {d}
    BY <1>1 DEF Copied
  <2>2. Reachable({d}) \subseteq {d} BY <2>1, ReachableLeast DEF IInv
  <2> QED BY <2>2
<1>3. ASSUME NEW x \in Obj, NEW y \in Obj, NEW j \in Index,
             Held(x, j)', value'[x][j] = y
      PROVE  (Held(x, j) /\ value[x][j] = y) \/ (x = c /\ y = d)
  <2>1. x # d BY <1>3 DEF Held
  <2>2. value'[x][j] = value[x][j] \/ (x = c /\ y = d) BY <1>3, <2>1
  <2>3. Held(x, j)' /\ value'[x][j] = value[x][j] => Held(x, j)
    BY <2>1 DEF Held, Copied
  <2> QED BY <1>3, <2>2, <2>3
<1>4. Grows(c, d) BY <1>3 DEF Grows, Edge, Copied
<1>5. DyingStacked' /\ pend'.map = NoObj
  BY DEF DyingStacked, Copied, LeakInv
<1> QED BY <1>2, <1>4, <1>5, LeakGrows

LEMMA CloneLeak ==
    ASSUME ~AllowCycles, CloneInv, LeakInv, [CloneNext]_allVars
    PROVE  LeakInv'
<1>1. ASSUME NEW g \in Handle, NEW h \in Handle, Clone(g, h) PROVE LeakInv'
  <2>1. PICK s, d \in Obj :
          /\ Copied(s, d) /\ stack = <<>> /\ pend.map = NoObj
          /\ \A b \in Obj, j \in Index :
               value'[b][j] = IF b = d THEN NoObj ELSE value[b][j]
    BY <1>1, CloneDoes
  <2>2. s # d BY <2>1 DEF Copied
  <2> QED BY <2>1, <2>2, CopyGrows
<1>2. CASE CloneItem
  <2>1. PICK c, d \in Obj, i \in Index :
          /\ Copied(Child, d) /\ stack = <<>> /\ pend.map = NoObj /\ c # d
          /\ \A b \in Obj, j \in Index :
               value'[b][j] = IF b = d THEN NoObj
                              ELSE IF b = c /\ j = i THEN d ELSE value[b][j]
    BY <1>2, CloneItemDoes
  <2>2. PICK s : s = Child OBVIOUS
  <2> QED BY <2>1, <2>2, CopyGrows
<1>3. CASE CloneNothing \/ CloneReturn \/ UNCHANGED allVars
  <2>1. UNCHANGED vars BY <1>3 DEF CloneNothing, CloneReturn, allVars
  <2> QED BY <2>1, LeakKept DEF CloneInv
<1>4. CASE Next BY <1>4, LeakKept DEF CloneInv
<1> QED BY <1>1, <1>2, <1>3, <1>4 DEF CloneNext

(* Containers stay in order through clones and assignments: what memory is  *)
(* missing for is a NULL in a slot there is room for.                       *)
THEOREM WrapperFits == HandleSpec => []WellFormed
<1>1. CloneInit => WellFormed BY DEF CloneInit, Init, WellFormed
<1>2. CloneInv /\ WellFormed /\ [CloneNext]_allVars => WellFormed'
  BY CloneWellFormed
<1>3. CloneSpec => []WellFormed
  BY <1>1, <1>2, CloneInvariant, PTL DEF CloneSpec
<1> QED BY <1>3, WrapperRefines, PTL DEF WrapperIsHeap

(* And a program that releases its wrappers gets all of its memory back,    *)
(* also that of copies for which there was not enough.                      *)
THEOREM WrapperReclaims == ASSUME ~AllowCycles PROVE HandleSpec => []NoLeak
<1>1. CloneInit => LeakInv BY LeakFreeInit DEF CloneInit
<1>2. CloneInv /\ LeakInv /\ [CloneNext]_allVars => LeakInv' BY CloneLeak
<1>3. CloneInv /\ LeakInv => NoLeak BY AcyclicReclaims DEF CloneInv
<1>4. CloneSpec => []NoLeak
  BY <1>1, <1>2, <1>3, CloneInvariant, PTL DEF CloneSpec
<1> QED BY <1>4, WrapperRefines, PTL DEF WrapperIsHeap

(* The release inside cco_map_insert is as safe in such programs.           *)
THEOREM WrapperReplaces == HandleSpec => []ReplaceSafe
<1>1. HandleInv => ReplaceSafe BY IInvImplies DEF HandleInv, CloneInv
<1> QED BY <1>1, HandleInvariant, PTL

-----------------------------------------------------------------------------
(* Comparisons.  EqualsTo and PrunedTo are defined by recursion on a depth: *)
(* both solve one equation, and what it says of a pair depends only on what *)
(* is below the two.                                                        *)

LEMMA Least ==
    ASSUME NEW T, T \subseteq Nat, T # {}
    PROVE  \E x \in T : \A y \in T : x <= y
<1> DEFINE R == {ss \in Nat \X Nat : ss[1] < ss[2]}
<1>1. IsWellFoundedOn(R, Nat) BY NatLessThanWellFounded DEF OpToRel
<1> HIDE DEF R
<1>2. PICK x \in T : \A y \in T : <<y, x>> \notin R BY <1>1, WFMin
<1>3. ASSUME NEW y \in T PROVE x <= y
  <2>1. x \in Nat /\ y \in Nat OBVIOUS
  <2>2. y < x => <<y, x>> \in R BY <2>1 DEF R
  <2> QED BY <1>2, <2>1, <2>2
<1> QED BY <1>3

(* The pair p is in base, or is in node and its items are in below. *)
Leads(p, n, base, node, ct, vl, below) ==
    \/ p \in base
    \/ /\ p \in node
       /\ n > 0 \/ ct[p[1]] = 0
       /\ \A i \in 1 .. ct[p[1]] : <<vl[p[1]][i], vl[p[2]][i]>> \in below

Solves(f, base, node, ct, vl) ==
    f = [n \in Nat |-> {p \in Ref \X Ref :
                          Leads(p, n, base, node, ct, vl, f[n - 1])}]

(* A pair is in level n if some levels that lead nowhere else hold it. *)
LEMMA LevelsExist ==
    ASSUME NEW base, NEW node, NEW ct, NEW vl
    PROVE  \E f : Solves(f, base, node, ct, vl)
<1> DEFINE Witness(n, w) ==
             /\ w \in [0 .. n -> SUBSET (Ref \X Ref)]
             /\ \A m \in 0 .. n : \A p \in w[m] :
                  Leads(p, m, base, node, ct, vl, w[m - 1])
           g == [n \in Nat |-> {p \in Ref \X Ref :
                                  \E w : Witness(n, w) /\ p \in w[n]}]
<1>1. ASSUME NEW n \in Nat, NEW p \in g[n]
      PROVE  Leads(p, n, base, node, ct, vl, g[n - 1])
  <2>1. PICK w : Witness(n, w) /\ p \in w[n] OBVIOUS
  <2>2. n \in 0 .. n OBVIOUS
  <2>3. Leads(p, n, base, node, ct, vl, w[n - 1]) BY <2>1, <2>2
  <2>4. ASSUME n > 0, NEW q \in w[n - 1] PROVE q \in g[n - 1]
    <3> DEFINE v == [m \in 0 .. n - 1 |-> w[m]]
    <3>1. n - 1 \in Nat /\ n - 1 \in 0 .. n - 1 /\ n - 1 \in 0 .. n BY <2>4
    <3>2. \A m \in 0 .. n - 1 :
            /\ m \in 0 .. n /\ v[m] = w[m]
            /\ m = 0 \/ (m - 1 \in 0 .. n - 1 /\ v[m - 1] = w[m - 1])
      OBVIOUS
    <3>3. ASSUME NEW m \in 0 .. n - 1, NEW r \in v[m]
          PROVE  Leads(r, m, base, node, ct, vl, v[m - 1])
      <4>1. Leads(r, m, base, node, ct, vl, w[m - 1]) BY <2>1, <3>2, <3>3
      <4>2. CASE m = 0
        <5>1. ~(m > 0) BY <4>2
        <5>2. \A i \in 1 .. 0 : FALSE OBVIOUS
        <5> QED BY <4>1, <5>1, <5>2 DEF Leads
      <4>3. CASE m # 0
        <5>1. v[m - 1] = w[m - 1] BY <3>2, <4>3
        <5> HIDE DEF v
        <5> QED BY <4>1, <5>1
      <4> QED BY <4>2, <4>3
    <3>4. v \in [0 .. n - 1 -> SUBSET (Ref \X Ref)] BY <2>1, <3>2
    <3>5. q \in Ref \X Ref BY <2>1, <2>4, <3>1
    <3>6. Witness(n - 1, v) /\ q \in v[n - 1] BY <2>4, <3>1, <3>2, <3>3, <3>4
    <3> HIDE DEF Witness, v
    <3> QED BY <3>1, <3>5, <3>6
  <2> HIDE DEF g, Witness
  <2>5. CASE n > 0 BY <2>3, <2>4, <2>5 DEF Leads
  <2>6. CASE ~(n > 0)
    <3>1. \A i \in 1 .. 0 : FALSE OBVIOUS
    <3> QED BY <2>3, <2>6, <3>1 DEF Leads
  <2> QED BY <2>5, <2>6
<1>2. ASSUME NEW n \in Nat, NEW p \in Ref \X Ref,
             Leads(p, n, base, node, ct, vl, g[n - 1])
      PROVE  p \in g[n]
  <2> DEFINE w == [m \in 0 .. n |-> IF m = n THEN {p} ELSE g[m]]
  <2>1. \A m \in 0 .. n : g[m] \in SUBSET (Ref \X Ref) OBVIOUS
  <2> HIDE DEF g
  <2>2. w \in [0 .. n -> SUBSET (Ref \X Ref)] BY <2>1
  <2>3. \A m \in 0 .. n : m = 0 \/ (m - 1 \in 0 .. n /\ w[m - 1] = g[m - 1])
    OBVIOUS
  <2>4. ASSUME NEW m \in 0 .. n, NEW q \in w[m]
        PROVE  Leads(q, m, base, node, ct, vl, w[m - 1])
    <3>1. Leads(q, m, base, node, ct, vl, g[m - 1])
      <4>1. CASE m = n BY <1>2, <2>4, <4>1
      <4>2. CASE m # n
        <5>1. m \in Nat /\ q \in g[m] BY <2>4, <4>2
        <5> HIDE DEF w
        <5> QED BY <1>1, <5>1
      <4> QED BY <4>1, <4>2
    <3>2. CASE m = 0
      <4>1. ~(m > 0) BY <3>2
      <4>2. \A i \in 1 .. 0 : FALSE OBVIOUS
      <4> QED BY <3>1, <4>1, <4>2 DEF Leads
    <3>3. CASE m # 0
      <4>1. w[m - 1] = g[m - 1] BY <2>3, <3>3
      <4> HIDE DEF w
      <4> QED BY <3>1, <4>1
    <3> QED BY <3>2, <3>3
  <2>5. n \in 0 .. n /\ p \in w[n] OBVIOUS
  <2>6. Witness(n, w) BY <2>2, <2>4
  <2> HIDE DEF Witness, w
  <2> QED BY <2>5, <2>6 DEF g
<1>3. \A n \in Nat : g[n] = {p \in Ref \X Ref :
                               Leads(p, n, base, node, ct, vl, g[n - 1])}
  <2> SUFFICES ASSUME NEW n \in Nat
               PROVE  g[n] = {p \in Ref \X Ref :
                               Leads(p, n, base, node, ct, vl, g[n - 1])}
    OBVIOUS
  <2>1. \A p \in g[n] : p \in Ref \X Ref OBVIOUS
  <2> HIDE DEF g
  <2> QED BY <1>1, <1>2, <2>1
<1>4. DOMAIN g = Nat /\ g = [n \in DOMAIN g |-> g[n]]
  <2> DEFINE L(n) == {p \in Ref \X Ref : \E w : Witness(n, w) /\ p \in w[n]}
  <2>1. g = [n \in Nat |-> L(n)] OBVIOUS
  <2> HIDE DEF L, g
  <2> QED BY <2>1
<1> HIDE DEF g
<1>5. Solves(g, base, node, ct, vl) BY <1>3, <1>4 DEF Solves
<1> QED BY <1>5

(* Two solutions agree on a set that holds what is below it, if what they   *)
(* read of it agrees.                                                       *)
LEMMA LevelsAgree ==
    ASSUME NEW f, NEW base, NEW node, NEW ct, NEW vl,
           Solves(f, base, node, ct, vl),
           NEW g, NEW base2, NEW node2, NEW ct2, NEW vl2,
           Solves(g, base2, node2, ct2, vl2),
           NEW A \in SUBSET Ref,
           \A p \in A \X A : /\ p \in base2 <=> p \in base
                             /\ p \in node2 <=> p \in node,
           \A p \in node \cap (A \X A) :
             /\ ct2[p[1]] = ct[p[1]]
             /\ \A i \in 1 .. ct[p[1]] :
                  /\ vl2[p[1]][i] = vl[p[1]][i] /\ vl[p[1]][i] \in A
                  /\ vl2[p[2]][i] = vl[p[2]][i] /\ vl[p[2]][i] \in A
    PROVE  \A n \in Nat : \A p \in A \X A : p \in g[n] <=> p \in f[n]
<1> DEFINE Same(n) == \A p \in A \X A : p \in g[n] <=> p \in f[n]
           T == {n \in Nat : ~Same(n)}
<1>1. SUFFICES ASSUME T # {} PROVE FALSE
  OBVIOUS
<1>2. PICK n \in T : \A m \in T : n <= m
  <2>1. T \subseteq Nat OBVIOUS
  <2> HIDE DEF T
  <2> QED BY <1>1, <2>1, Least
<1>3. n \in Nat /\ ~Same(n) OBVIOUS
<1>4. n > 0 => Same(n - 1)
  <2>1. n > 0 => n - 1 \in Nat /\ ~(n <= n - 1) BY <1>3
  <2> HIDE DEF Same
  <2> QED BY <1>2, <2>1
<1> HIDE DEF T
<1>5. ASSUME NEW p \in A \X A PROVE p \in g[n] <=> p \in f[n]
  <2>1. p \in Ref \X Ref OBVIOUS
  <2>2. p \in f[n] <=> Leads(p, n, base, node, ct, vl, f[n - 1])
    BY <1>3, <2>1 DEF Solves
  <2>3. p \in g[n] <=> Leads(p, n, base2, node2, ct2, vl2, g[n - 1])
    BY <1>3, <2>1 DEF Solves
  <2>4. ASSUME p \in node
        PROVE  /\ ct2[p[1]] = ct[p[1]]
               /\ \A i \in 1 .. ct[p[1]] :
                    /\ vl2[p[1]][i] = vl[p[1]][i] /\ vl[p[1]][i] \in A
                    /\ vl2[p[2]][i] = vl[p[2]][i] /\ vl[p[2]][i] \in A
    BY <2>4
  <2>5. (p \in base2 <=> p \in base) /\ (p \in node2 <=> p \in node)
    OBVIOUS
  <2>6. \A i \in 1 .. 0 : FALSE OBVIOUS
  <2>7. CASE n > 0
    <3>1. \A q \in A \X A : q \in g[n - 1] <=> q \in f[n - 1] BY <1>4, <2>7
    <3>2. ASSUME p \in node, NEW i \in 1 .. ct[p[1]]
          PROVE  <<vl2[p[1]][i], vl2[p[2]][i]>> \in g[n - 1]
                   <=> <<vl[p[1]][i], vl[p[2]][i]>> \in f[n - 1]
      BY <2>4, <3>1, <3>2
    <3> QED BY <2>2, <2>3, <2>4, <2>5, <2>7, <3>2 DEF Leads
  <2>8. CASE ~(n > 0)
    BY <2>2, <2>3, <2>4, <2>5, <2>6, <2>8 DEF Leads
  <2> QED BY <2>7, <2>8
<1> QED BY <1>3, <1>5

EqualBase == {p \in Ref \X Ref : p[1] = p[2]}
EqualNodes == {p \in Ref \X Ref : SameNode(p[1], p[2])}
PrunedBase == {p \in Ref \X Ref : p[2] = NoObj}
KeysLeft(a, b) == \A i \in Index : key[b][i] \in {key[a][i], NoKey}
PrunedNodes ==
    {p \in Ref \X Ref : SameShape(p[1], p[2]) /\ KeysLeft(p[1], p[2])}

LEMMA EqualsSolves == Solves(EqualsTo, EqualBase, EqualNodes, count, value)
<1> DEFINE Form(f) ==
             [n \in Nat |->
                {p \in Ref \X Ref :
                   \/ p[1] = p[2]
                   \/ /\ SameNode(p[1], p[2])
                      /\ n > 0 \/ count[p[1]] = 0
                      /\ \A i \in Compared(p[1]) :
                           <<value[p[1]][i], value[p[2]][i]>> \in f[n - 1]}]
           S(f) == Solves(f, EqualBase, EqualNodes, count, value)
<1>1. ASSUME NEW f PROVE S(f) <=> f = Form(f)
  BY DEF Solves, Leads, EqualBase, EqualNodes, Compared
<1>2. \E f : f = Form(f)
  <2>1. \E f : S(f) BY LevelsExist
  <2> HIDE DEF Form, S
  <2> QED BY <1>1, <2>1
<1>3. (CHOOSE f : f = Form(f)) = Form(CHOOSE f : f = Form(f))
  <2> HIDE DEF Form
  <2> QED BY <1>2
<1>4. EqualsTo = CHOOSE f : f = Form(f) BY Zenon DEF EqualsTo
<1> QED BY <1>1, <1>3, <1>4

LEMMA PrunedSolves == Solves(PrunedTo, PrunedBase, PrunedNodes, count, value)
<1> DEFINE Form(f) ==
             [n \in Nat |->
                {p \in Ref \X Ref :
                   \/ p[2] = NoObj
                   \/ /\ SameShape(p[1], p[2])
                      /\ \A i \in Index : key[p[2]][i] \in {key[p[1]][i], NoKey}
                      /\ n > 0 \/ count[p[1]] = 0
                      /\ \A i \in 1 .. count[p[1]] :
                           <<value[p[1]][i], value[p[2]][i]>> \in f[n - 1]}]
           S(f) == Solves(f, PrunedBase, PrunedNodes, count, value)
<1>1. ASSUME NEW f PROVE S(f) <=> f = Form(f)
  BY DEF Solves, Leads, PrunedBase, PrunedNodes, KeysLeft
<1>2. \E f : f = Form(f)
  <2>1. \E f : S(f) BY LevelsExist
  <2> HIDE DEF Form, S
  <2> QED BY <1>1, <2>1
<1>3. (CHOOSE f : f = Form(f)) = Form(CHOOSE f : f = Form(f))
  <2> HIDE DEF Form
  <2> QED BY <1>2
<1>4. PrunedTo = CHOOSE f : f = Form(f) BY Zenon DEF PrunedTo
<1> QED BY <1>1, <1>3, <1>4

(* A step that leaves objects alone that only lead to each other leaves the *)
(* comparisons of them alone.                                               *)
LeftAlone(A) ==
    /\ A \in SUBSET Obj
    /\ \A a \in A : /\ kind'[a] = kind[a] /\ count'[a] = count[a]
                    /\ key'[a] = key[a]
                    /\ \A i \in 1 .. count[a] : /\ value'[a][i] = value[a][i]
                                                /\ value[a][i] \in A \cup {NoObj}

LEMMA ComparesKept ==
    ASSUME NEW A, LeftAlone(A)
    PROVE  \A n \in Nat : \A a, b \in A \cup {NoObj} :
             /\ <<a, b>> \in EqualsTo'[n] <=> <<a, b>> \in EqualsTo[n]
             /\ <<a, b>> \in PrunedTo'[n] <=> <<a, b>> \in PrunedTo[n]
<1> DEFINE B == A \cup {NoObj}
<1>1. B \in SUBSET Ref BY DEF LeftAlone, Ref
<1>2. \A p \in B \X B :
        /\ p \in EqualBase' <=> p \in EqualBase
        /\ p \in PrunedBase' <=> p \in PrunedBase
  BY <1>1 DEF EqualBase, PrunedBase
<1>3. ASSUME NEW a \in B, NEW b \in B
      PROVE  /\ SameNode(a, b)' <=> SameNode(a, b)
             /\ SameShape(a, b)' <=> SameShape(a, b)
  <2>1. CASE a = NoObj \/ b = NoObj BY <2>1 DEF SameNode, SameShape
  <2>2. CASE a \in A /\ b \in A
    BY <2>2 DEF SameNode, SameShape, LeftAlone, Compared
  <2> QED BY <2>1, <2>2
<1>4. \A p \in B \X B :
        /\ p \in EqualNodes' <=> p \in EqualNodes
        /\ p \in PrunedNodes' <=> p \in PrunedNodes
  <2> SUFFICES ASSUME NEW a \in B, NEW b \in B
               PROVE  /\ <<a, b>> \in EqualNodes' <=> <<a, b>> \in EqualNodes
                      /\ <<a, b>> \in PrunedNodes' <=> <<a, b>> \in PrunedNodes
    OBVIOUS
  <2>1. SameShape(a, b) => (KeysLeft(a, b)' <=> KeysLeft(a, b))
    BY DEF SameShape, LeftAlone, KeysLeft
  <2>2. a \in Ref /\ b \in Ref BY <1>1
  <2>3. /\ <<a, b>> \in EqualNodes <=> SameNode(a, b)
        /\ <<a, b>> \in PrunedNodes <=> SameShape(a, b) /\ KeysLeft(a, b)
    BY <2>2 DEF EqualNodes, PrunedNodes
  <2>4. /\ <<a, b>> \in EqualNodes' <=> SameNode(a, b)'
        /\ <<a, b>> \in PrunedNodes' <=> SameShape(a, b)' /\ KeysLeft(a, b)'
    BY <2>2 DEF EqualNodes, PrunedNodes
  <2> QED BY <1>3, <2>1, <2>3, <2>4
<1>5. \A p \in (EqualNodes \cup PrunedNodes) \cap (B \X B) :
        /\ count'[p[1]] = count[p[1]]
        /\ \A i \in 1 .. count[p[1]] :
             /\ value'[p[1]][i] = value[p[1]][i] /\ value[p[1]][i] \in B
             /\ value'[p[2]][i] = value[p[2]][i] /\ value[p[2]][i] \in B
  <2> SUFFICES ASSUME NEW a \in B, NEW b \in B,
                      <<a, b>> \in EqualNodes \cup PrunedNodes
               PROVE  /\ count'[a] = count[a]
                      /\ \A i \in 1 .. count[a] :
                           /\ value'[a][i] = value[a][i] /\ value[a][i] \in B
                           /\ value'[b][i] = value[b][i] /\ value[b][i] \in B
    OBVIOUS
  <2>1. SameShape(a, b) BY DEF EqualNodes, PrunedNodes, SameNode
  <2>2. a \in A /\ b \in A /\ count[a] = count[b] BY <2>1 DEF SameShape
  <2> QED BY <2>2 DEF LeftAlone
<1>6. /\ Solves(EqualsTo, EqualBase, EqualNodes, count, value)
      /\ Solves(PrunedTo, PrunedBase, PrunedNodes, count, value)
  BY EqualsSolves, PrunedSolves
<1>7. /\ Solves(EqualsTo', EqualBase', EqualNodes', count', value')
      /\ Solves(PrunedTo', PrunedBase', PrunedNodes', count', value')
  <2>1. (Solves(EqualsTo, EqualBase, EqualNodes, count, value))'
    BY EqualsSolves, PTL
  <2>2. (Solves(PrunedTo, PrunedBase, PrunedNodes, count, value))'
    BY PrunedSolves, PTL
  <2> QED BY <2>1, <2>2 DEF Solves, Leads
<1> HIDE DEF B
<1>8. \A n \in Nat : \A p \in B \X B : p \in EqualsTo'[n] <=> p \in EqualsTo[n]
  BY <1>1, <1>2, <1>4, <1>5, <1>6, <1>7, LevelsAgree
<1>9. \A n \in Nat : \A p \in B \X B : p \in PrunedTo'[n] <=> p \in PrunedTo[n]
  BY <1>1, <1>2, <1>4, <1>5, <1>6, <1>7, LevelsAgree
<1> QED BY <1>8, <1>9 DEF B

(* One level of the two comparisons. *)
LEMMA EqualsStep ==
    ASSUME NEW n \in Nat, NEW a \in Ref, NEW b \in Ref
    PROVE  <<a, b>> \in EqualsTo[n] <=>
             \/ a = b
             \/ /\ SameNode(a, b) /\ (n > 0 \/ count[a] = 0)
                /\ \A i \in 1 .. count[a] :
                     <<value[a][i], value[b][i]>> \in EqualsTo[n - 1]
<1>1. <<a, b>> \in Ref \X Ref OBVIOUS
<1>2. <<a, b>> \in EqualsTo[n] <=>
        Leads(<<a, b>>, n, EqualBase, EqualNodes, count, value, EqualsTo[n - 1])
  BY <1>1, EqualsSolves DEF Solves
<1> QED BY <1>1, <1>2 DEF Leads, EqualBase, EqualNodes

LEMMA PrunedStep ==
    ASSUME NEW n \in Nat, NEW a \in Ref, NEW b \in Ref
    PROVE  <<a, b>> \in PrunedTo[n] <=>
             \/ b = NoObj
             \/ /\ SameShape(a, b) /\ KeysLeft(a, b) /\ (n > 0 \/ count[a] = 0)
                /\ \A i \in 1 .. count[a] :
                     <<value[a][i], value[b][i]>> \in PrunedTo[n - 1]
<1>1. <<a, b>> \in Ref \X Ref OBVIOUS
<1>2. <<a, b>> \in PrunedTo[n] <=>
        Leads(<<a, b>>, n, PrunedBase, PrunedNodes, count, value, PrunedTo[n - 1])
  BY <1>1, PrunedSolves DEF Solves
<1> QED BY <1>1, <1>2 DEF Leads, PrunedBase, PrunedNodes

LEMMA PrunedPairs ==
    ASSUME NEW n \in Nat, NEW p \in PrunedTo[n]
    PROVE  p \in Ref \X Ref
BY PrunedSolves DEF Solves

(* To look deeper finds nothing wrong. *)
LEMMA PrunedDeeper ==
    \A n \in Nat : \A k \in Nat : n <= k => PrunedTo[n] \subseteq PrunedTo[k]
<1> DEFINE Ok(n) == \A k \in Nat : n <= k => PrunedTo[n] \subseteq PrunedTo[k]
           T == {n \in Nat : ~Ok(n)}
<1>1. SUFFICES ASSUME T # {} PROVE FALSE
  OBVIOUS
<1>2. PICK n \in T : \A m \in T : n <= m
  <2>1. T \subseteq Nat OBVIOUS
  <2> HIDE DEF T
  <2> QED BY <1>1, <2>1, Least
<1>3. n \in Nat /\ ~Ok(n) OBVIOUS
<1>4. n > 0 => Ok(n - 1)
  <2>1. n > 0 => n - 1 \in Nat /\ ~(n <= n - 1) BY <1>3
  <2> HIDE DEF Ok
  <2> QED BY <1>2, <2>1
<1> HIDE DEF T
<1>5. ASSUME NEW k \in Nat, n <= k, NEW p \in PrunedTo[n]
      PROVE  p \in PrunedTo[k]
  <2>1. PICK a \in Ref, b \in Ref : p = <<a, b>> BY <1>3, PrunedPairs
  <2>2. \/ b = NoObj
        \/ /\ SameShape(a, b) /\ KeysLeft(a, b) /\ (n > 0 \/ count[a] = 0)
           /\ \A i \in 1 .. count[a] :
                <<value[a][i], value[b][i]>> \in PrunedTo[n - 1]
    BY <1>3, <1>5, <2>1, PrunedStep
  <2>3. CASE n > 0
    <3>1. PrunedTo[n - 1] \subseteq PrunedTo[k - 1] /\ k > 0
      <4>1. k - 1 \in Nat /\ n - 1 <= k - 1 /\ k > 0 BY <1>3, <1>5, <2>3
      <4> QED BY <1>4, <2>3, <4>1
    <3> QED BY <1>5, <2>1, <2>2, <3>1, PrunedStep
  <2>4. CASE ~(n > 0)
    <3>1. \A i \in 1 .. 0 : FALSE OBVIOUS
    <3> QED BY <1>5, <2>1, <2>2, <2>4, <3>1, PrunedStep
  <2> QED BY <2>3, <2>4
<1> QED BY <1>3, <1>5

-----------------------------------------------------------------------------
(* What a clone has done so far.                                            *)

(* The containers that are being filled. *)
Filled == {frames[k].dst : k \in 1 .. Len(frames)}

(* What the clone found: live, and neither done nor being filled. *)
Old(D) == {o \in Obj : status[o] = "live" /\ o \notin D /\ o \notin Filled}

(* The items the frame k is through with: not the one a frame above it is   *)
(* copying.                                                                 *)
Behind(k, i) ==
    /\ i \in Index /\ i < frames[k].next
    /\ k = Len(frames) \/ i + 1 # frames[k].next

Pair(k, i) == <<value[frames[k].src][i], value[frames[k].dst][i]>>

Differs(p) == \A n \in Nat : p \notin EqualsTo[n]

(* The frame k has copied what is behind it, as deep as there are objects   *)
(* left, and has the frame above it copy the item it has come to.           *)
FrameCopies(D, k) ==
    /\ frames[k].src \in Old(D)
    /\ kind[frames[k].src] = kind[frames[k].dst]
    /\ KeysLeft(frames[k].src, frames[k].dst)
    /\ ~lost => key[frames[k].src] = key[frames[k].dst]
    /\ frames[k].next <= count[frames[k].src] + 1
    /\ \A i \in Index : Behind(k, i) =>
         /\ value[frames[k].dst][i] \in D \cup {NoObj}
         /\ Pair(k, i) \in PrunedTo[Cardinality(Obj) - k]
         /\ ~lost => Pair(k, i) \in EqualsTo[Cardinality(Obj) - k]
    /\ k # Len(frames) =>
         \E i \in Index : /\ i + 1 = frames[k].next
                          /\ Pair(k, i) = <<frames[k + 1].src, frames[k + 1].dst>>

(* A comparison of the two objects of the frame k is not what it should be: *)
(* their keys differ, or an item behind.                                    *)
Tells(k) ==
    \/ ~SameNode(frames[k].src, frames[k].dst)
    \/ \E i \in Index : Behind(k, i) /\ Differs(Pair(k, i))

(* What is in D is done, shared with nothing and holds nothing else; if an  *)
(* item or a key was lost, some frame tells.                                *)
CopyRight(D) ==
    /\ D \in SUBSET Obj /\ D \cap Filled = {}
    /\ \A o \in D \cup Filled : status[o] = "live" /\ rc[o] = 1
    /\ \A o \in D, i \in Index : i <= count[o] => value[o][i] \in D \cup {NoObj}
    /\ \A o \in Old(D), i \in Index :
         i <= count[o] => value[o][i] \in Old(D) \cup {NoObj}
    /\ \A k \in 1 .. Len(frames) : FrameCopies(D, k)
    /\ lost => \E k \in 1 .. Len(frames) : Tells(k)

CopyInv == IF frames = <<>> THEN ~lost ELSE \E D : CopyRight(D)

(* A clone is no deeper than there are objects. *)
LEMMA FramesFit ==
    ASSUME CloneInv
    PROVE  /\ Cardinality(Obj) \in Nat /\ Len(frames) \in Nat
           /\ Len(frames) <= Cardinality(Obj)
<1> DEFINE n == Len(frames)
           f == [k \in 1 .. n |-> frames[k].dst]
<1>1. n \in Nat BY DEF CloneInv, FramesRight
<1>2. \A k \in 1 .. n : frames[k].dst \in Obj
  BY DEF CloneInv, FramesRight, FrameRight
<1>3. f \in Injection(1 .. n, Obj)
  <2>1. \A j, k \in 1 .. n : f[j] = f[k] => j = k
    BY DEF CloneInv, FramesRight
  <2> QED BY <1>2, <2>1 DEF Injection, IsInjective
<1>4. Cardinality(1 .. n) <= Cardinality(Obj)
  BY <1>3, ObjAssumption, FS_Injection
<1>5. Cardinality(1 .. n) = n
  <2> HIDE DEF n
  <2>1. 1 \in Int /\ n \in Int BY <1>1
  <2>2. Cardinality(1 .. n) = IF 1 > n THEN 0 ELSE n - 1 + 1
    BY <2>1, FS_Interval
  <2> QED BY <1>1, <2>2
<1> QED BY <1>1, <1>4, <1>5, ObjAssumption, FS_CardinalityType

(* The innermost frame, when it is through with all of its items, has made  *)
(* a copy of its object; it tells of a loss where one of its items does.    *)
LEMMA DoneFrame ==
    ASSUME CloneInv, NEW D, CopyRight(D), CloneDone,
           NEW n, n = Len(frames), NEW s, s = frames[n].src,
           NEW d, d = frames[n].dst
    PROVE  /\ n \in 1 .. Cardinality(Obj)
           /\ Cardinality(Obj) - n + 1 \in Nat
           /\ s \in Old(D) /\ d \in Filled
           /\ <<s, d>> \in PrunedTo[Cardinality(Obj) - n + 1]
           /\ ~lost => <<s, d>> \in EqualsTo[Cardinality(Obj) - n + 1]
           /\ Tells(n) => Differs(<<s, d>>)
           /\ \A i \in Index : i <= count[d] => value[d][i] \in D \cup {NoObj}
<1>1. frames # <<>> /\ Frame.next > count[Frame.src] BY DEF CloneDone
<1>2. n \in 1 .. n /\ FrameRight(frames[n]) BY <1>1, FrameFacts DEF Frame
<1>3. PICK N : N = Cardinality(Obj) - n + 1 OBVIOUS
<1>4. /\ N \in Nat /\ N > 0 /\ N - 1 = Cardinality(Obj) - n
      /\ n \in 1 .. Cardinality(Obj)
  BY <1>2, <1>3, FramesFit
<1>5. FrameCopies(D, n) BY <1>2 DEF CopyRight
<1>6. /\ s \in Old(D) /\ kind[s] = kind[d] /\ KeysLeft(s, d)
      /\ ~lost => key[s] = key[d]
      /\ frames[n].next <= count[s] + 1
  BY <1>5 DEF FrameCopies
<1>7. /\ s \in Obj /\ d \in Obj /\ count[d] = count[s]
      /\ count[s] \in 0 .. MaxItems /\ frames[n].next \in 1 .. MaxItems + 1
      /\ frames[n].next > count[s]
  BY <1>1, <1>2 DEF FrameRight, Frame, CloneInv, IInv, TypeOK
<1>8. \A i \in Index : Behind(n, i) <=> i <= count[s]
  <2>1. frames[n].next = count[s] + 1 BY <1>6, <1>7
  <2> QED BY <1>7, <2>1 DEF Behind, Index
<1>9. \A i \in 1 .. count[s] : i \in Index /\ i <= count[s]
  BY <1>7, BoundAssumption DEF Index
<1>10. d \in Filled BY <1>2 DEF Filled
<1>11. s # d /\ s # NoObj /\ d # NoObj
  BY <1>6, <1>7, <1>10, ObjAssumption DEF Old
<1>12. s \in Ref /\ d \in Ref BY <1>7 DEF Ref
<1>13. SameShape(s, d) BY <1>6, <1>7, <1>11 DEF SameShape
<1>14. \A i \in Index : Pair(n, i) = <<value[s][i], value[d][i]>> BY DEF Pair
<1>15. <<s, d>> \in PrunedTo[N]
  <2>1. \A i \in 1 .. count[s] : <<value[s][i], value[d][i]>> \in PrunedTo[N - 1]
    BY <1>4, <1>5, <1>8, <1>9, <1>14 DEF FrameCopies
  <2> QED BY <1>4, <1>6, <1>12, <1>13, <2>1, PrunedStep
<1>16. ASSUME ~lost PROVE <<s, d>> \in EqualsTo[N]
  <2>1. \A i \in 1 .. count[s] : <<value[s][i], value[d][i]>> \in EqualsTo[N - 1]
    BY <1>4, <1>5, <1>8, <1>9, <1>14, <1>16 DEF FrameCopies
  <2>2. SameNode(s, d) BY <1>6, <1>13, <1>16 DEF SameNode
  <2> QED BY <1>4, <1>12, <2>1, <2>2, EqualsStep
<1>17. ASSUME NEW i \in Index, Behind(n, i), Differs(Pair(n, i)),
              NEW m \in Nat, <<s, d>> \in EqualsTo[m]
       PROVE  FALSE
  <2>1. i \in 1 .. count[s] /\ count[s] # 0 BY <1>7, <1>8, <1>17 DEF Index
  <2>2. m > 0 /\ <<value[s][i], value[d][i]>> \in EqualsTo[m - 1]
    BY <1>11, <1>12, <1>17, <2>1, EqualsStep
  <2>3. m - 1 \in Nat BY <2>2
  <2> QED BY <1>14, <1>17, <2>2, <2>3 DEF Differs
<1>18. \A i \in Index : i <= count[d] => value[d][i] \in D \cup {NoObj}
  BY <1>5, <1>7, <1>8 DEF FrameCopies
<1>19. Tells(n) => Differs(<<s, d>>)
  <2>1. ~SameNode(s, d) => Differs(<<s, d>>)
    BY <1>11, <1>12, EqualsStep DEF Differs
  <2>2. \A i \in Index :
          Behind(n, i) /\ Differs(Pair(n, i)) => Differs(<<s, d>>)
    BY <1>17 DEF Differs
  <2> QED BY <2>1, <2>2 DEF Tells
<1> QED BY <1>3, <1>4, <1>6, <1>10, <1>15, <1>16, <1>18, <1>19

(* What the clone promises follows when it returns. *)
LEMMA CopyIsRight ==
    ASSUME CloneInv, CopyInv
    PROVE  CloneExact /\ EqualsTells /\ CloneApart
<1> SUFFICES ASSUME CloneDone PROVE CloneExact /\ EqualsTells /\ CloneApart
  BY DEF CloneExact, EqualsTells, CloneApart
<1>1. PICK D : CopyRight(D) BY DEF CopyInv, CloneDone
<1>2. PICK n, s, d : /\ n = Len(frames) /\ s = frames[n].src
                     /\ d = frames[n].dst
  OBVIOUS
<1>3. Frame.src = s /\ Frame.dst = d BY <1>2 DEF Frame
<1>4. PICK N : N = Cardinality(Obj) OBVIOUS
<1>5. /\ n \in 1 .. N /\ N - n + 1 \in Nat
      /\ s \in Old(D) /\ d \in Filled
      /\ <<s, d>> \in PrunedTo[N - n + 1]
      /\ ~lost => <<s, d>> \in EqualsTo[N - n + 1]
      /\ Tells(n) => Differs(<<s, d>>)
      /\ \A i \in Index : i <= count[d] => value[d][i] \in D \cup {NoObj}
  BY <1>1, <1>2, <1>4, DoneFrame
<1>6. N \in Nat /\ N - n + 1 <= N BY <1>4, <1>5, FramesFit
<1>7. CloneExact
  <2>1. PrunedTo[N - n + 1] \subseteq PrunedTo[N] BY <1>5, <1>6, PrunedDeeper
  <2> QED BY <1>3, <1>4, <1>5, <2>1 DEF CloneExact
<1>8. ASSUME Len(frames) = 1 PROVE Equals(s, d) <=> ~lost
  <2>1. N - n + 1 = N BY <1>2, <1>6, <1>8
  <2>2. ~lost => Equals(s, d) BY <1>4, <1>5, <2>1 DEF Equals
  <2>3. ASSUME lost PROVE ~Equals(s, d)
    <3>1. PICK k \in 1 .. Len(frames) : Tells(k)
      BY <1>1, <2>3 DEF CopyRight
    <3>2. k = n BY <1>2, <1>8, <3>1
    <3>3. Differs(<<s, d>>) BY <1>5, <3>1, <3>2
    <3> QED BY <1>4, <1>6, <3>3 DEF Differs, Equals
  <2> QED BY <2>2, <2>3
<1>9. EqualsTells BY <1>3, <1>8 DEF EqualsTells
<1>10. CloneApart
  <2> DEFINE M == D \cup Filled
  <2>1. /\ Filled \in SUBSET Obj
        /\ \A k \in 1 .. Len(frames) : FrameRight(frames[k])
    BY DEF Filled, CloneInv, FramesRight, FrameRight
  <2>2. M \in SUBSET Obj /\ d \in M BY <1>1, <1>5, <2>1 DEF CopyRight
  <2>3. ASSUME NEW c \in M, NEW o \in Obj, Edge(c, o) PROVE o \in M
    <3>1. PICK i \in Index : Held(c, i) /\ value[c][i] = o BY <2>3 DEF Edge
    <3>2. i <= count[c] BY <3>1 DEF Held
    <3>3. CASE c \in D
      BY <1>1, <3>1, <3>2, <3>3, ObjAssumption DEF CopyRight
    <3>4. CASE c \in Filled
      <4>1. PICK k \in 1 .. Len(frames) : c = frames[k].dst
        BY <3>4 DEF Filled
      <4>2. FrameCopies(D, k) /\ FrameRight(frames[k])
        BY <1>1, <2>1 DEF CopyRight
      <4>3. i < frames[k].next
        <5>1. frames[k].next \in 1 .. MaxItems + 1
              /\ (frames[k].next <= i => value[c][i] = NoObj)
          BY <4>1, <4>2 DEF FrameRight
        <5> QED BY <3>1, <5>1, ObjAssumption DEF Index
      <4>4. CASE Behind(k, i)
        BY <3>1, <4>1, <4>2, <4>4, ObjAssumption DEF FrameCopies
      <4>5. CASE ~Behind(k, i)
        <5>1. k # Len(frames) /\ i + 1 = frames[k].next
          BY <4>3, <4>5 DEF Behind
        <5>2. PICK j \in Index :
                /\ j + 1 = frames[k].next
                /\ Pair(k, j) = <<frames[k + 1].src, frames[k + 1].dst>>
          BY <4>2, <5>1 DEF FrameCopies
        <5>3. j = i BY <5>1, <5>2 DEF Index
        <5>4. o = frames[k + 1].dst BY <3>1, <4>1, <5>2, <5>3 DEF Pair
        <5>5. k + 1 \in 1 .. Len(frames) BY <5>1, FramesFit
        <5> QED BY <5>4, <5>5 DEF Filled
      <4> QED BY <4>4, <4>5
    <3> QED BY <3>3, <3>4
  <2>4. {d} \subseteq M BY <2>2
  <2> HIDE DEF M
  <2>5. Reachable({d}) \subseteq M
    BY <2>2, <2>3, <2>4, ReachableLeast DEF CloneInv, IInv
  <2>6. \A o \in M : rc[o] = 1 /\ o # s
    BY <1>1, <1>5 DEF M, CopyRight, Old
  <2> QED BY <1>3, <2>5, <2>6 DEF CloneApart
<1> QED BY <1>7, <1>9, <1>10

(* A clone begins with nothing done. *)
LEMMA CloneBegins ==
    ASSUME CloneInv, CopyInv, NEW g \in Handle, NEW h \in Handle, Clone(g, h)
    PROVE  CopyInv'
<1>1. PICK s, d \in Obj :
        /\ Copied(s, d) /\ s = handle[g]
        /\ \A b \in Obj, j \in Index :
             value'[b][j] = IF b = d THEN NoObj ELSE value[b][j]
        /\ frames = <<>> /\ frames' = <<Enter(s, d)>>
        /\ stack = <<>> /\ pend.map = NoObj
  BY CloneDoes
<1>2. ~lost BY <1>1 DEF CopyInv
<1>3. /\ Len(frames') = 1 /\ frames'[1].src = s /\ frames'[1].dst = d
      /\ frames'[1].next = 1
  BY <1>1 DEF Enter
<1>4. Filled' = {d}
  <2>1. \A k \in 1 .. Len(frames') : frames'[k].dst = d
    <3>1. \A k \in 1 .. Len(frames') : k = 1 BY <1>3
    <3> QED BY <1>3, <3>1
  <2>2. 1 \in 1 .. Len(frames') BY <1>3
  <2> QED BY <1>3, <2>1, <2>2 DEF Filled
<1>5. PICK D : D = {} OBVIOUS
<1>6. Old(D)' = {o \in Obj : status[o] = "live"}
  BY <1>1, <1>4, <1>5 DEF Old, Copied
<1>7. \A o \in D \cup {d} : status'[o] = "live" /\ rc'[o] = 1
  BY <1>1, <1>5 DEF Copied
<1>8. ASSUME NEW o \in Old(D)', NEW i \in Index, i <= count'[o],
             value'[o][i] # NoObj
      PROVE  value'[o][i] \in Old(D)'
  <2>1. o \in Obj /\ status[o] = "live" /\ o # d BY <1>1, <1>6, <1>8 DEF Copied
  <2>2. value'[o][i] = value[o][i] /\ i <= count[o]
    BY <1>1, <1>8, <2>1 DEF Copied
  <2>3. cursor[o] = 1 /\ 1 <= i
    BY <1>8, <2>1 DEF CloneInv, IInv, CursorsRight, Index
  <2>4. Held(o, i) BY <1>1, <1>8, <2>1, <2>2, <2>3, ObjAssumption DEF Held
  <2> QED BY <1>6, <2>1, <2>2, <2>4, SlotIsLive DEF CloneInv
<1>9. FrameCopies(D, 1)'
  <2>1. \A i \in Index : ~Behind(1, i)' BY <1>3 DEF Behind, Index
  <2>2. s \in Old(D)' BY <1>1, <1>6 DEF Copied
  <2>3. /\ kind'[s] = kind'[d] /\ count'[s] = count[s]
        /\ KeysLeft(s, d)' /\ (~lost' => key'[s] = key'[d])
    BY <1>1 DEF Copied, KeysLeft
  <2>4. 1 <= count'[s] + 1
    <3>1. count[s] \in 0 .. MaxItems BY <1>1 DEF CloneInv, IInv, TypeOK
    <3> QED BY <2>3, <3>1
  <2> QED BY <1>3, <2>1, <2>2, <2>3, <2>4 DEF FrameCopies
<1>10. \A k \in 1 .. Len(frames') : FrameCopies(D, k)'
  <2>1. \A k \in 1 .. Len(frames') : k = 1 BY <1>3
  <2> QED BY <1>9, <2>1
<1>11. lost' => Tells(1)'
  <2>1. lost' => ~SameNode(s, d)'
    BY <1>1, <1>2, CopyDiffers
  <2> QED BY <1>3, <2>1 DEF Tells
<1>12. CopyRight(D)'
  <2>1. 1 \in 1 .. Len(frames') BY <1>3
  <2> QED BY <1>4, <1>5, <1>7, <1>8, <1>10, <1>11, <2>1 DEF CopyRight
<1>13. frames' # <<>> BY <1>3
<1> QED BY <1>12, <1>13 DEF CopyInv

(* What is left alone compares as before. *)
LEMMA FrameKept ==
    ASSUME CloneInv, NEW D, CopyRight(D), LeftAlone(Old(D) \cup D),
           NEW k \in 1 .. Len(frames), NEW i \in Index, Behind(k, i),
           Pair(k, i)' = Pair(k, i)
    PROVE  \A n \in Nat :
             /\ Pair(k, i)' \in PrunedTo'[n] <=> Pair(k, i) \in PrunedTo[n]
             /\ Pair(k, i)' \in EqualsTo'[n] <=> Pair(k, i) \in EqualsTo[n]
<1>1. PICK a, b : a = value[frames[k].src][i] /\ b = value[frames[k].dst][i]
  OBVIOUS
<1>2. FrameCopies(D, k) BY DEF CopyRight
<1>3. i <= count[frames[k].src]
  <2>1. /\ frames[k].src \in Obj /\ frames[k].next \in 1 .. MaxItems + 1
        /\ count[frames[k].src] \in 0 .. MaxItems
    BY DEF CloneInv, FramesRight, FrameRight, IInv, TypeOK
  <2>2. frames[k].next <= count[frames[k].src] + 1 BY <1>2 DEF FrameCopies
  <2> QED BY <2>1, <2>2 DEF Behind, Index
<1>4. a \in Old(D) \cup {NoObj}
  BY <1>1, <1>2, <1>3 DEF FrameCopies, CopyRight
<1>5. b \in D \cup {NoObj} BY <1>1, <1>2 DEF FrameCopies
<1>6. Pair(k, i) = <<a, b>> BY <1>1 DEF Pair
<1>7. \A n \in Nat :
        /\ <<a, b>> \in EqualsTo'[n] <=> <<a, b>> \in EqualsTo[n]
        /\ <<a, b>> \in PrunedTo'[n] <=> <<a, b>> \in PrunedTo[n]
  <2> DEFINE A == Old(D) \cup D
  <2>1. a \in A \cup {NoObj} /\ b \in A \cup {NoObj} BY <1>4, <1>5
  <2>2. LeftAlone(A) OBVIOUS
  <2> HIDE DEF A
  <2> QED BY <2>1, <2>2, ComparesKept
<1> QED BY <1>6, <1>7

(* To go on with a copy of the next item leaves what is done alone. *)
LEMMA CloneGoesDown ==
    ASSUME CloneInv, NEW D, CopyRight(D), CloneItem
    PROVE  frames' # <<>> /\ CopyRight(D)'
<1>0. PICK n, s : n = Len(frames) /\ s = Child OBVIOUS
<1>1. PICK c, d \in Obj, i \in Index :
        /\ c = Frame.dst /\ i = Frame.next
        /\ Copied(s, d) /\ c # d
        /\ \A b \in Obj, j \in Index :
             value'[b][j] = IF b = d THEN NoObj
                            ELSE IF b = c /\ j = i THEN d ELSE value[b][j]
        /\ frames # <<>> /\ frames' = Append(Advanced, Enter(s, d))
  BY <1>0, CloneItemDoes
<1>2. /\ n \in 1 .. n /\ Frame = frames[n]
      /\ frames[n].dst = c /\ frames[n].next = i
      /\ i <= count[frames[n].src] /\ s = value[frames[n].src][i]
  BY <1>0, <1>1, FrameFacts DEF Frame, CloneItem, Child
<1>3. /\ Len(frames') = n + 1 /\ frames'[n + 1] = Enter(s, d)
      /\ \A k \in 1 .. n : /\ frames'[k].src = frames[k].src
                           /\ frames'[k].dst = frames[k].dst
                           /\ k # n => frames'[k] = frames[k]
      /\ frames'[n].next = i + 1
  <2> DEFINE R == [src : Obj, dst : Obj, next : 1 .. MaxItems + 1]
  <2>1. /\ Advanced \in Seq(R) /\ Len(Advanced) = n
        /\ Advanced[n] = [Frame EXCEPT !.next = @ + 1]
        /\ \A k \in 1 .. n : /\ Advanced[k].src = frames[k].src
                             /\ Advanced[k].dst = frames[k].dst
                             /\ k # n => Advanced[k] = frames[k]
    BY <1>0, <1>1, AdvancedRight DEF CloneItem
  <2>2. Frame \in R BY <1>1, FrameFacts
  <2>3. Advanced[n].next = i + 1 BY <1>1, <2>1, <2>2
  <2>4. PICK q : q = Advanced OBVIOUS
  <2>5. PICK e : e = Enter(s, d) OBVIOUS
  <2>6. frames' = Append(q, e) /\ q \in Seq(R) /\ Len(q) = n
    BY <1>1, <2>1, <2>4, <2>5
  <2> HIDE DEF R
  <2>7. /\ Len(frames') = n + 1 /\ frames'[n + 1] = e
        /\ \A k \in 1 .. n : frames'[k] = q[k]
    BY <2>6
  <2>8. /\ q[n].next = i + 1
        /\ \A k \in 1 .. n : /\ q[k].src = frames[k].src
                             /\ q[k].dst = frames[k].dst
                             /\ k # n => q[k] = frames[k]
    BY <2>1, <2>3, <2>4
  <2>9. \A k \in 1 .. n : /\ frames'[k].src = frames[k].src
                          /\ frames'[k].dst = frames[k].dst
                          /\ k # n => frames'[k] = frames[k]
    BY <2>7, <2>8
  <2>10. frames'[n].next = i + 1 BY <1>2, <2>7, <2>8
  <2> QED BY <2>5, <2>7, <2>9, <2>10
<1>4. /\ frames'[n + 1].src = s /\ frames'[n + 1].dst = d
      /\ frames'[n + 1].next = 1
  BY <1>3 DEF Enter
<1>5. \A k \in 1 .. Len(frames') : k \in 1 .. n \/ k = n + 1
  BY <1>2, <1>3
<1>6. /\ n + 1 \in 1 .. Len(frames')
      /\ \A k \in 1 .. n : k \in 1 .. Len(frames') /\ k # n + 1
      /\ \A k \in 1 .. n : k # n => k + 1 \in 1 .. n
  BY <1>2, <1>3
<1>7. Filled' = Filled \cup {d}
  <2>1. ASSUME NEW x \in Filled' PROVE x \in Filled \cup {d}
    <3>1. PICK k \in 1 .. Len(frames') : x = frames'[k].dst BY <2>1 DEF Filled
    <3>2. CASE k = n + 1 BY <1>4, <3>1, <3>2
    <3>3. CASE k \in 1 .. n
      <4>1. x = frames[k].dst BY <1>3, <3>1, <3>3
      <4> QED BY <1>0, <3>3, <4>1 DEF Filled
    <3> QED BY <1>5, <3>2, <3>3
  <2>2. ASSUME NEW k \in 1 .. n PROVE frames[k].dst \in Filled'
    BY <1>3, <1>6 DEF Filled
  <2>3. d \in Filled' BY <1>4, <1>6 DEF Filled
  <2> QED BY <1>0, <2>1, <2>2, <2>3 DEF Filled
<1>8. /\ status[d] = "free" /\ d \notin D /\ d \notin Filled /\ d \notin Old(D)
      /\ c \in Filled /\ D \in SUBSET Obj /\ Filled \in SUBSET Obj
  <2>1. status[d] = "free" BY <1>1 DEF Copied
  <2>2. c \in Filled BY <1>0, <1>2 DEF Filled
  <2>3. Filled \in SUBSET Obj
    BY DEF Filled, CloneInv, FramesRight, FrameRight
  <2> QED BY <2>1, <2>2, <2>3 DEF CopyRight, Old
<1>9. Old(D)' = Old(D)
  <2>1. \A o \in Obj : o # d => status'[o] = status[o] BY <1>1 DEF Copied
  <2> QED BY <1>7, <1>8, <2>1 DEF Old
<1>10. LeftAlone(Old(D) \cup D)
  <2>1. ASSUME NEW a \in Old(D) \cup D
        PROVE  /\ a \in Obj /\ a # c /\ a # d
               /\ \A j \in 1 .. count[a] :
                    j \in Index /\ value[a][j] \in Old(D) \cup D \cup {NoObj}
    <3>1. a \in Obj /\ a # c /\ a # d
      BY <1>8 DEF Old, CopyRight
    <3>2. \A j \in 1 .. count[a] : j \in Index /\ j <= count[a]
      <4>1. count[a] \in 0 .. MaxItems BY <3>1 DEF CloneInv, IInv, TypeOK
      <4> QED BY <4>1, BoundAssumption DEF Index
    <3> QED BY <3>1, <3>2 DEF CopyRight
  <2> QED BY <1>1, <2>1 DEF LeftAlone, Copied
<1>11. ASSUME NEW k \in 1 .. n, NEW j \in Index, Behind(k, j)
       PROVE  Pair(k, j)' = Pair(k, j)
  <2>1. /\ frames[k].src \in Old(D) /\ frames[k].src \in Obj
        /\ frames[k].dst \in Filled /\ frames[k].dst \in Obj
        /\ (frames[k].dst = c => k = n)
    BY <1>0, <1>2 DEF CopyRight, FrameCopies, Filled, CloneInv, FramesRight,
                      FrameRight
  <2>2. frames[k].dst = c => j # i BY <1>2, <1>11, <2>1 DEF Behind, Index
  <2>3. frames[k].src # c /\ frames[k].src # d /\ frames[k].dst # d
    BY <1>8, <2>1 DEF Old
  <2>4. /\ value'[frames[k].src][j] = value[frames[k].src][j]
        /\ value'[frames[k].dst][j] = value[frames[k].dst][j]
    BY <1>1, <2>1, <2>2, <2>3
  <2> QED BY <1>3, <2>4 DEF Pair
<1>12. ASSUME NEW k \in 1 .. n, NEW j \in Index
       PROVE  Behind(k, j)' <=> Behind(k, j)
  <2>1. Behind(k, j)' <=> j < frames'[k].next /\ j + 1 # frames'[k].next
    BY <1>3, <1>6 DEF Behind
  <2>2. CASE k = n
    BY <1>0, <1>2, <1>3, <2>1, <2>2 DEF Behind, Index
  <2>3. CASE k # n
    BY <1>0, <1>3, <2>1, <2>3 DEF Behind
  <2> QED BY <2>2, <2>3
<1>13. s \in Old(D)
  <2>1. frames[n].src \in Old(D) BY <1>0, <1>2 DEF CopyRight, FrameCopies
  <2>2. s # NoObj BY <1>1, ObjAssumption DEF Copied
  <2> QED BY <1>2, <2>1, <2>2 DEF CopyRight
<1>14. ASSUME NEW o \in Old(D) \cup Filled PROVE o \in Obj /\ o # d
  BY <1>8 DEF Old
<1>15. ASSUME NEW k \in 1 .. n PROVE FrameCopies(D, k)'
  <2>1. PICK a, b : a = frames[k].src /\ b = frames[k].dst OBVIOUS
  <2>2. FrameCopies(D, k) /\ a \in Old(D) /\ b \in Filled
    BY <1>0, <2>1 DEF CopyRight, FrameCopies, Filled
  <2>3. a \in Obj /\ a # d /\ b \in Obj /\ b # d BY <1>14, <2>2
  <2>4. /\ frames'[k].src = a /\ frames'[k].dst = b
        /\ kind'[a] = kind'[b] /\ count'[a] = count[a]
        /\ KeysLeft(a, b)' /\ (~lost' => key'[a] = key'[b])
    BY <1>1, <1>3, <2>1, <2>2, <2>3 DEF Copied, FrameCopies, KeysLeft
  <2>5. frames'[k].next <= count'[a] + 1
    <3>1. CASE k = n
      <4>1. count[a] \in Nat /\ i \in Nat /\ i <= count[a]
        BY <1>2, <2>1, <2>3, <3>1 DEF CloneInv, IInv, TypeOK, Index
      <4> QED BY <1>3, <2>4, <3>1, <4>1
    <3>2. CASE k # n BY <1>3, <2>1, <2>2, <2>4, <3>2 DEF FrameCopies
    <3> QED BY <3>1, <3>2
  <2>6. ASSUME NEW j \in Index, Behind(k, j)'
        PROVE  /\ value'[b][j] \in D \cup {NoObj}
               /\ Pair(k, j)' \in PrunedTo'[Cardinality(Obj) - k]
               /\ ~lost' => Pair(k, j)' \in EqualsTo'[Cardinality(Obj) - k]
    <3>1. Behind(k, j) /\ Pair(k, j)' = Pair(k, j) BY <1>11, <1>12, <2>6
    <3>2. Cardinality(Obj) - k \in Nat BY <1>0, FramesFit
    <3>3. /\ value[b][j] \in D \cup {NoObj}
          /\ Pair(k, j) \in PrunedTo[Cardinality(Obj) - k]
          /\ ~lost => Pair(k, j) \in EqualsTo[Cardinality(Obj) - k]
      BY <2>1, <2>2, <3>1 DEF FrameCopies
    <3>4. value'[b][j] = value[b][j]
      BY <1>3, <2>1, <3>1 DEF Pair
    <3>5. /\ Pair(k, j)' \in PrunedTo'[Cardinality(Obj) - k]
               <=> Pair(k, j) \in PrunedTo[Cardinality(Obj) - k]
          /\ Pair(k, j)' \in EqualsTo'[Cardinality(Obj) - k]
               <=> Pair(k, j) \in EqualsTo[Cardinality(Obj) - k]
      BY <1>0, <1>10, <3>1, <3>2, FrameKept
    <3>6. ~lost' => ~lost BY <1>1 DEF Copied
    <3> QED BY <3>3, <3>4, <3>5, <3>6
  <2>7. \E j \in Index :
          /\ j + 1 = frames'[k].next
          /\ Pair(k, j)' = <<frames'[k + 1].src, frames'[k + 1].dst>>
    <3>1. CASE k = n
      <4>1. value'[a][i] = s /\ value'[b][i] = d
        <5>1. a # c BY <1>8, <2>2 DEF Old
        <5> QED BY <1>1, <1>2, <2>1, <2>3, <3>1, <5>1
      <4>2. Pair(k, i)' = <<s, d>> BY <2>4, <4>1 DEF Pair
      <4> QED BY <1>3, <1>4, <3>1, <4>2
    <3>2. CASE k # n
      <4>1. PICK j \in Index :
              /\ j + 1 = frames[k].next
              /\ Pair(k, j) = <<frames[k + 1].src, frames[k + 1].dst>>
        BY <1>0, <2>2, <3>2 DEF FrameCopies
      <4>2. b # c
        BY <1>0, <1>2, <2>1, <3>2 DEF CloneInv, FramesRight
      <4>3. a # c BY <1>8, <2>2 DEF Old
      <4>4. value'[a][j] = value[a][j] /\ value'[b][j] = value[b][j]
        BY <1>1, <2>3, <4>2, <4>3
      <4>5. Pair(k, j)' = Pair(k, j) BY <2>1, <2>4, <4>4 DEF Pair
      <4> QED BY <1>3, <1>6, <3>2, <4>1, <4>5
    <3> QED BY <3>1, <3>2
  <2> QED BY <1>9, <2>2, <2>4, <2>5, <2>6, <2>7 DEF FrameCopies
<1>16. FrameCopies(D, n + 1)'
  <2>1. \A j \in Index : ~Behind(n + 1, j)' BY <1>4 DEF Behind, Index
  <2>2. /\ kind'[s] = kind'[d] /\ count'[s] = count[s] /\ s \in Obj
        /\ KeysLeft(s, d)' /\ (~lost' => key'[s] = key'[d])
    BY <1>1 DEF Copied, KeysLeft
  <2>3. 1 <= count'[s] + 1
    <3>1. count[s] \in 0 .. MaxItems BY <2>2 DEF CloneInv, IInv, TypeOK
    <3> QED BY <2>2, <3>1
  <2> QED BY <1>3, <1>4, <1>9, <1>13, <2>1, <2>2, <2>3 DEF FrameCopies
<1>17. \A k \in 1 .. Len(frames') : FrameCopies(D, k)'
  BY <1>5, <1>15, <1>16
<1>18. \A o \in D \cup Filled' : status'[o] = "live" /\ rc'[o] = 1
  <2>1. \A o \in D \cup Filled : o \in Obj /\ o # d BY <1>8
  <2> QED BY <1>1, <1>7, <2>1 DEF Copied, CopyRight
<1>19. /\ \A o \in D, j \in Index :
            j <= count'[o] => value'[o][j] \in D \cup {NoObj}
       /\ \A o \in Old(D), j \in Index :
            j <= count'[o] => value'[o][j] \in Old(D) \cup {NoObj}
  <2>1. \A o \in D \cup Old(D) : o \in Obj /\ o # d /\ o # c
    BY <1>8 DEF Old, CopyRight
  <2>2. \A o \in D \cup Old(D) : /\ count'[o] = count[o]
                                 /\ \A j \in Index : value'[o][j] = value[o][j]
    BY <1>1, <2>1 DEF Copied
  <2> QED BY <2>2 DEF CopyRight
<1>20. ASSUME lost'
       PROVE  \E k \in 1 .. Len(frames') : Tells(k)'
  <2>1. CASE lost
    <3>1. PICK k \in 1 .. n : Tells(k) BY <1>0, <2>1 DEF CopyRight
    <3>2. CASE ~SameNode(frames[k].src, frames[k].dst)
      <4>1. PICK a, b : a = frames[k].src /\ b = frames[k].dst OBVIOUS
      <4>2. a \in Old(D) /\ b \in Filled
        BY <1>0, <4>1 DEF CopyRight, FrameCopies, Filled
      <4>3. a \in Obj /\ a # d /\ b \in Obj /\ b # d BY <1>14, <4>2
      <4>4. ~SameNode(a, b)'
        BY <1>1, <3>2, <4>1, <4>3 DEF Copied, SameNode, SameShape, Compared
      <4> QED BY <1>3, <1>6, <4>1, <4>4 DEF Tells
    <3>3. CASE \E j \in Index : Behind(k, j) /\ Differs(Pair(k, j))
      <4>1. PICK j \in Index : Behind(k, j) /\ Differs(Pair(k, j)) BY <3>3
      <4>2. Behind(k, j)' /\ Pair(k, j)' = Pair(k, j) BY <1>11, <1>12, <4>1
      <4>3. Differs(Pair(k, j))'
        BY <1>0, <1>10, <4>1, <4>2, FrameKept DEF Differs
      <4> QED BY <1>6, <4>2, <4>3 DEF Tells
    <3> QED BY <3>1, <3>2, <3>3 DEF Tells
  <2>2. CASE ~lost
    <3>1. s \in Obj BY <1>1 DEF Copied
    <3>2. ~SameNode(s, d)' BY <1>1, <1>20, <2>2, <3>1, CopyDiffers
    <3> QED BY <1>4, <1>6, <3>2 DEF Tells
  <2> QED BY <2>1, <2>2
<1>21. D \cap Filled' = {} BY <1>7, <1>8 DEF CopyRight
<1>22. frames' # <<>> BY <1>2, <1>3
<1> QED BY <1>8, <1>9, <1>17, <1>18, <1>19, <1>20, <1>21, <1>22 DEF CopyRight

(* Nothing of the heap changes but the frames. *)
LEMMA AloneWhenStill ==
    ASSUME CloneInv, NEW D, CopyRight(D), UNCHANGED vars
    PROVE  LeftAlone(Old(D) \cup D)
<1>1. ASSUME NEW a \in Old(D) \cup D
      PROVE  /\ a \in Obj
             /\ \A j \in 1 .. count[a] :
                  value[a][j] \in Old(D) \cup D \cup {NoObj}
  <2>1. a \in Obj BY DEF Old, CopyRight
  <2>2. \A j \in 1 .. count[a] : j \in Index /\ j <= count[a]
    <3>1. count[a] \in 0 .. MaxItems BY <2>1 DEF CloneInv, IInv, TypeOK
    <3> QED BY <3>1, BoundAssumption DEF Index
  <2> QED BY <2>1, <2>2 DEF CopyRight
<1> QED BY <1>1 DEF LeftAlone, vars

(* A NULL in the copy is a NULL of the original, or tells. *)
LEMMA CloneGoesOn ==
    ASSUME CloneInv, NEW D, CopyRight(D), CloneNothing
    PROVE  frames' # <<>> /\ CopyRight(D)'
<1>0. PICK n, a, c, i : /\ n = Len(frames) /\ a = frames[n].src
                        /\ c = frames[n].dst /\ i = frames[n].next
  OBVIOUS
<1>1. /\ frames # <<>> /\ i <= count[a] /\ UNCHANGED vars
      /\ frames' = Advanced /\ (lost' <=> lost \/ value[a][i] # NoObj)
      /\ Frame = frames[n]
  BY <1>0 DEF CloneNothing, Frame, Child
<1>2. n \in 1 .. n /\ FrameRight(frames[n]) BY <1>0, <1>1, FrameFacts
<1>3. /\ Len(frames') = n /\ i \in Index
      /\ \A k \in 1 .. n : /\ frames'[k].src = frames[k].src
                           /\ frames'[k].dst = frames[k].dst
                           /\ k # n => frames'[k] = frames[k]
      /\ frames'[n].next = i + 1
  <2> DEFINE R == [src : Obj, dst : Obj, next : 1 .. MaxItems + 1]
  <2>1. /\ Len(Advanced) = n
        /\ Advanced[n] = [Frame EXCEPT !.next = @ + 1]
        /\ \A k \in 1 .. n : /\ Advanced[k].src = frames[k].src
                             /\ Advanced[k].dst = frames[k].dst
                             /\ k # n => Advanced[k] = frames[k]
        /\ Frame.next \in Index
    BY <1>0, <1>1, AdvancedRight
  <2>2. Frame \in R BY <1>1, FrameFacts
  <2>3. Advanced[n].next = i + 1 BY <1>0, <1>1, <2>1, <2>2
  <2> QED BY <1>0, <1>1, <2>1, <2>3
<1>4. Filled' = Filled BY <1>0, <1>3 DEF Filled
<1>5. Old(D)' = Old(D) BY <1>1, <1>4 DEF Old, vars
<1>6. \A k \in 1 .. n, j \in Index : Pair(k, j)' = Pair(k, j)
  BY <1>1, <1>3 DEF Pair, vars
<1>7. ASSUME NEW k \in 1 .. n, NEW j \in Index
      PROVE  Behind(k, j)' <=> Behind(k, j) \/ (k = n /\ j = i)
  <2>1. CASE k = n
    BY <1>0, <1>3, <2>1 DEF Behind, Index
  <2>2. CASE k # n
    BY <1>0, <1>3, <2>2 DEF Behind
  <2> QED BY <2>1, <2>2
<1>8. \A m \in Nat : \A k \in 1 .. n, j \in Index : Behind(k, j) =>
        /\ Pair(k, j)' \in PrunedTo'[m] <=> Pair(k, j) \in PrunedTo[m]
        /\ Pair(k, j)' \in EqualsTo'[m] <=> Pair(k, j) \in EqualsTo[m]
  BY <1>0, <1>1, <1>6, AloneWhenStill, FrameKept
<1>9. FrameCopies(D, n) BY <1>0, <1>2 DEF CopyRight
<1>10. value[c][i] = NoObj /\ value[a][i] \in Old(D) \cup {NoObj}
  <2>1. i <= i BY <1>3 DEF Index
  <2>2. value[c][i] = NoObj BY <1>0, <1>2, <1>3, <2>1 DEF FrameRight
  <2>3. a \in Old(D) BY <1>0, <1>9 DEF FrameCopies
  <2> QED BY <1>1, <1>3, <2>2, <2>3 DEF CopyRight
<1>11. PICK x : x = value[a][i] OBVIOUS
<1>12. x \in Ref /\ NoObj \in Ref /\ Pair(n, i)' = <<x, NoObj>>
  BY <1>0, <1>2, <1>3, <1>6, <1>10, <1>11 DEF Old, Ref, Pair
<1>13. \A m \in Nat : /\ Pair(n, i)' \in PrunedTo'[m]
                      /\ x = NoObj => Pair(n, i)' \in EqualsTo'[m]
                      /\ x # NoObj => Pair(n, i)' \notin EqualsTo'[m]
  <2> SUFFICES ASSUME NEW m \in Nat
               PROVE  /\ <<x, NoObj>> \in PrunedTo'[m]
                      /\ x = NoObj => <<x, NoObj>> \in EqualsTo'[m]
                      /\ x # NoObj => <<x, NoObj>> \notin EqualsTo'[m]
    BY <1>12
  <2>1. /\ <<x, NoObj>> \in PrunedTo[m]
        /\ x = NoObj => <<x, NoObj>> \in EqualsTo[m]
        /\ x # NoObj => <<x, NoObj>> \notin EqualsTo[m]
    BY <1>12, PrunedStep, EqualsStep DEF SameNode, SameShape
  <2>2. LeftAlone(Old(D) \cup D) BY <1>1, AloneWhenStill
  <2>3. x \in Old(D) \cup D \cup {NoObj} BY <1>10, <1>11
  <2> QED BY <2>1, <2>2, <2>3, ComparesKept
<1>14. ASSUME NEW k \in 1 .. n PROVE FrameCopies(D, k)'
  <2>1. PICK s, d : s = frames[k].src /\ d = frames[k].dst OBVIOUS
  <2>2. FrameCopies(D, k) BY <1>0 DEF CopyRight
  <2>3. /\ frames'[k].src = s /\ frames'[k].dst = d
        /\ kind'[s] = kind'[d] /\ s \in Old(D)
        /\ KeysLeft(s, d)' /\ (~lost' => key'[s] = key'[d])
    BY <1>1, <1>3, <2>1, <2>2 DEF FrameCopies, KeysLeft, vars
  <2>4. frames'[k].next <= count'[s] + 1
    <3>1. CASE k = n
      <4>1. s = a /\ count' = count BY <1>0, <1>1, <2>1, <3>1 DEF vars
      <4>2. count[a] \in 0 .. MaxItems
        BY <1>0, <1>2 DEF FrameRight, CloneInv, IInv, TypeOK
      <4> QED BY <1>1, <1>3, <3>1, <4>1, <4>2 DEF Index
    <3>2. CASE k # n
      BY <1>1, <1>3, <2>1, <2>2, <3>2 DEF FrameCopies, vars
    <3> QED BY <3>1, <3>2
  <2>5. Cardinality(Obj) - k \in Nat BY <1>0, FramesFit
  <2>6. ASSUME NEW j \in Index, Behind(k, j)'
        PROVE  /\ value'[d][j] \in D \cup {NoObj}
               /\ Pair(k, j)' \in PrunedTo'[Cardinality(Obj) - k]
               /\ ~lost' => Pair(k, j)' \in EqualsTo'[Cardinality(Obj) - k]
    <3>1. CASE Behind(k, j)
      <4>1. /\ value[d][j] \in D \cup {NoObj}
            /\ Pair(k, j) \in PrunedTo[Cardinality(Obj) - k]
            /\ ~lost => Pair(k, j) \in EqualsTo[Cardinality(Obj) - k]
        BY <2>1, <2>2, <3>1 DEF FrameCopies
      <4>2. /\ Pair(k, j)' \in PrunedTo'[Cardinality(Obj) - k]
                 <=> Pair(k, j) \in PrunedTo[Cardinality(Obj) - k]
            /\ Pair(k, j)' \in EqualsTo'[Cardinality(Obj) - k]
                 <=> Pair(k, j) \in EqualsTo[Cardinality(Obj) - k]
        BY <1>8, <2>5, <3>1
      <4>3. value' = value BY <1>1 DEF vars
      <4> QED BY <1>1, <4>1, <4>2, <4>3
    <3>2. CASE k = n /\ j = i
      <4>1. value'[d][j] = NoObj
        BY <1>0, <1>1, <1>10, <2>1, <3>2 DEF vars
      <4>2. ~lost' => x = NoObj BY <1>1, <1>11
      <4> QED BY <1>13, <2>5, <3>2, <4>1, <4>2
    <3> QED BY <1>7, <2>6, <3>1, <3>2
  <2>7. ASSUME k # n
        PROVE  \E j \in Index :
                 /\ j + 1 = frames'[k].next
                 /\ Pair(k, j)' = <<frames'[k + 1].src, frames'[k + 1].dst>>
    <3>1. PICK j \in Index :
            /\ j + 1 = frames[k].next
            /\ Pair(k, j) = <<frames[k + 1].src, frames[k + 1].dst>>
      BY <1>0, <2>2, <2>7 DEF FrameCopies
    <3>2. k + 1 \in 1 .. n BY <1>2, <2>7
    <3> QED BY <1>3, <1>6, <2>7, <3>1, <3>2
  <2> QED BY <1>3, <1>5, <2>3, <2>4, <2>6, <2>7 DEF FrameCopies
<1>15. ASSUME lost'
       PROVE  \E k \in 1 .. Len(frames') : Tells(k)'
  <2>1. CASE lost
    <3>1. PICK k \in 1 .. n : Tells(k) BY <1>0, <2>1 DEF CopyRight
    <3>2. CASE ~SameNode(frames[k].src, frames[k].dst)
      <4>1. ~SameNode(frames[k].src, frames[k].dst)'
        BY <1>1, <1>3, <3>2 DEF SameNode, SameShape, Compared, vars
      <4> QED BY <1>3, <4>1 DEF Tells
    <3>3. CASE \E j \in Index : Behind(k, j) /\ Differs(Pair(k, j))
      <4>1. \E j \in Index : Behind(k, j)' /\ Differs(Pair(k, j))'
        BY <1>7, <1>8, <3>3 DEF Differs
      <4> QED BY <1>3, <4>1 DEF Tells
    <3> QED BY <3>1, <3>2, <3>3 DEF Tells
  <2>2. CASE x # NoObj
    <3>1. Behind(n, i)' /\ Differs(Pair(n, i))'
      BY <1>2, <1>3, <1>7, <1>13, <2>2 DEF Differs
    <3> QED BY <1>2, <1>3, <3>1 DEF Tells
  <2> QED BY <1>1, <1>11, <1>15, <2>1, <2>2
<1>16. /\ D \in SUBSET Obj /\ D \cap Filled' = {}
       /\ \A o \in D \cup Filled' : status'[o] = "live" /\ rc'[o] = 1
       /\ \A o \in D, j \in Index :
            j <= count'[o] => value'[o][j] \in D \cup {NoObj}
       /\ \A o \in Old(D), j \in Index :
            j <= count'[o] => value'[o][j] \in Old(D) \cup {NoObj}
  BY <1>1, <1>4 DEF CopyRight, vars
<1>17. frames' # <<>> BY <1>2, <1>3
<1>18. \A k \in 1 .. Len(frames') : FrameCopies(D, k)' BY <1>3, <1>14
<1> QED BY <1>5, <1>15, <1>16, <1>17, <1>18 DEF CopyRight

(* A copy that is through with all of its items is done, and so is the item *)
(* of the frame below it.                                                   *)
LEMMA CloneComesBack ==
    ASSUME CloneInv, NEW D, CopyRight(D), CloneReturn, Len(frames) # 1
    PROVE  frames' # <<>> /\ \E E : CopyRight(E)'
<1>0. PICK n, s, d : n = Len(frames) /\ s = frames[n].src /\ d = frames[n].dst
  OBVIOUS
<1>1. /\ CloneDone /\ frames # <<>> /\ UNCHANGED vars
      /\ frames' = SubSeq(frames, 1, n - 1) /\ (lost' <=> lost /\ n > 1)
      /\ Frame = frames[n]
  BY <1>0 DEF CloneReturn, CloneDone, Frame
<1>2. /\ n \in 1 .. n /\ n - 1 \in 1 .. n - 1 /\ n > 1 /\ n \in Nat
      /\ d \in Obj
  BY <1>0, <1>1, FrameFacts DEF FrameRight
<1>3. Len(frames') = n - 1 /\ \A k \in 1 .. n - 1 : frames'[k] = frames[k]
  <2>1. frames \in Seq([src : Obj, dst : Obj, next : 1 .. MaxItems + 1])
    BY DEF CloneInv, FramesRight
  <2> QED BY <1>0, <1>1, <1>2, <2>1
<1>4. /\ \A k \in 1 .. n - 1 : k \in 1 .. n /\ k # n
      /\ \A k \in 1 .. n : k # n => k \in 1 .. n - 1
      /\ \A k \in 1 .. n - 1 : k # n - 1 => k + 1 \in 1 .. n - 1
      /\ n - 1 + 1 = n /\ 1 .. Len(frames') = 1 .. n - 1
  BY <1>2, <1>3
<1>5. /\ \A k \in 1 .. n - 1 : frames[k].dst # d
      /\ Filled' = Filled \ {d} /\ d \in Filled
  <2>1. \A k \in 1 .. n - 1 : frames[k].dst # d
    BY <1>0, <1>2, <1>4 DEF CloneInv, FramesRight
  <2>2. Filled' = {frames[k].dst : k \in 1 .. n - 1}
    BY <1>3, <1>4 DEF Filled
  <2>3. Filled = {frames[k].dst : k \in 1 .. n} BY <1>0 DEF Filled
  <2> QED BY <1>0, <1>2, <1>4, <2>1, <2>2, <2>3
<1>6. PICK E : E = D \cup {d} OBVIOUS
<1>7. Old(E)' = Old(D) BY <1>1, <1>5, <1>6 DEF Old, vars
<1>8. PICK N : N = Cardinality(Obj) OBVIOUS
<1>9. /\ n \in 1 .. N /\ N - n + 1 \in Nat
      /\ s \in Old(D) /\ d \in Filled
      /\ <<s, d>> \in PrunedTo[N - n + 1]
      /\ ~lost => <<s, d>> \in EqualsTo[N - n + 1]
      /\ Tells(n) => Differs(<<s, d>>)
      /\ \A i \in Index : i <= count[d] => value[d][i] \in D \cup {NoObj}
  BY <1>0, <1>1, <1>8, DoneFrame
<1>10. /\ N \in Nat /\ N - (n - 1) = N - n + 1 BY <1>2, <1>8, FramesFit
<1>11. \A m \in Nat :
         /\ <<s, d>> \in PrunedTo'[m] <=> <<s, d>> \in PrunedTo[m]
         /\ <<s, d>> \in EqualsTo'[m] <=> <<s, d>> \in EqualsTo[m]
  <2> DEFINE A == Old(D) \cup D \cup {d}
  <2>1. LeftAlone(Old(D) \cup D) BY <1>1, AloneWhenStill
  <2>2. \A j \in 1 .. count[d] : j \in Index /\ j <= count[d]
    <3>1. count[d] \in 0 .. MaxItems BY <1>2 DEF CloneInv, IInv, TypeOK
    <3> QED BY <3>1, BoundAssumption DEF Index
  <2>3. LeftAlone(A)
    BY <1>1, <1>2, <1>9, <2>1, <2>2 DEF LeftAlone, vars
  <2>4. s \in A \cup {NoObj} /\ d \in A \cup {NoObj} BY <1>9
  <2> HIDE DEF A
  <2> QED BY <2>3, <2>4, ComparesKept
<1>12. \A k \in 1 .. n - 1, j \in Index : Pair(k, j)' = Pair(k, j)
  BY <1>1, <1>3 DEF Pair, vars
<1>13. PICK i \in Index : /\ i + 1 = frames[n - 1].next
                          /\ Pair(n - 1, i) = <<s, d>>
  <2>1. FrameCopies(D, n - 1) BY <1>0, <1>2, <1>4 DEF CopyRight
  <2> QED BY <1>0, <1>2, <1>4, <2>1 DEF FrameCopies
<1>14. ASSUME NEW k \in 1 .. n - 1, NEW j \in Index
       PROVE  Behind(k, j)' <=> Behind(k, j) \/ (k = n - 1 /\ j = i)
  <2>1. /\ Behind(k, j)' <=>
             j < frames[k].next /\ (k = n - 1 \/ j + 1 # frames[k].next)
        /\ Behind(k, j) <=> j < frames[k].next /\ j + 1 # frames[k].next
    BY <1>0, <1>3, <1>4 DEF Behind
  <2>2. CASE k = n - 1
    <3>1. j \in Int /\ i \in Int /\ frames[k].next = i + 1
      BY <1>13, <2>2 DEF Index
    <3> QED BY <2>1, <2>2, <3>1
  <2>3. CASE k # n - 1 BY <2>1, <2>3
  <2> QED BY <2>2, <2>3
<1>15. \A m \in Nat : \A k \in 1 .. n - 1, j \in Index : Behind(k, j) =>
         /\ Pair(k, j)' \in PrunedTo'[m] <=> Pair(k, j) \in PrunedTo[m]
         /\ Pair(k, j)' \in EqualsTo'[m] <=> Pair(k, j) \in EqualsTo[m]
  BY <1>0, <1>1, <1>4, <1>12, AloneWhenStill, FrameKept
<1>16. ASSUME NEW k \in 1 .. n - 1 PROVE FrameCopies(E, k)'
  <2>1. PICK a, b : a = frames[k].src /\ b = frames[k].dst OBVIOUS
  <2>2. FrameCopies(D, k) BY <1>0, <1>4 DEF CopyRight
  <2>3. /\ frames'[k].src = a /\ frames'[k].dst = b
        /\ kind'[a] = kind'[b] /\ a \in Old(D)
        /\ KeysLeft(a, b)' /\ (~lost' => key'[a] = key'[b])
        /\ frames'[k].next <= count'[a] + 1
    BY <1>1, <1>2, <1>3, <2>1, <2>2 DEF FrameCopies, KeysLeft, vars
  <2>4. N - k \in Nat BY <1>2, <1>9, <1>10
  <2>5. ASSUME NEW j \in Index, Behind(k, j)'
        PROVE  /\ value'[b][j] \in E \cup {NoObj}
               /\ Pair(k, j)' \in PrunedTo'[N - k]
               /\ ~lost' => Pair(k, j)' \in EqualsTo'[N - k]
    <3>1. CASE Behind(k, j)
      <4>1. /\ value[b][j] \in D \cup {NoObj}
            /\ Pair(k, j) \in PrunedTo[N - k]
            /\ ~lost => Pair(k, j) \in EqualsTo[N - k]
        BY <1>8, <2>1, <2>2, <3>1 DEF FrameCopies
      <4>2. /\ Pair(k, j)' \in PrunedTo'[N - k]
                 <=> Pair(k, j) \in PrunedTo[N - k]
            /\ Pair(k, j)' \in EqualsTo'[N - k]
                 <=> Pair(k, j) \in EqualsTo[N - k]
        BY <1>15, <2>4, <3>1
      <4>3. value' = value BY <1>1 DEF vars
      <4> QED BY <1>1, <1>2, <1>6, <4>1, <4>2, <4>3
    <3>2. CASE k = n - 1 /\ j = i
      <4>1. value'[b][j] = d BY <1>1, <1>13, <2>1, <3>2 DEF Pair, vars
      <4>2. Pair(k, j)' = <<s, d>> BY <1>12, <1>13, <3>2
      <4>3. N - k = N - n + 1 BY <1>10, <3>2
      <4> QED BY <1>1, <1>2, <1>6, <1>9, <1>11, <2>4, <4>1, <4>2, <4>3
    <3> QED BY <1>14, <2>5, <3>1, <3>2
  <2>6. ASSUME k # n - 1
        PROVE  \E j \in Index :
                 /\ j + 1 = frames'[k].next
                 /\ Pair(k, j)' = <<frames'[k + 1].src, frames'[k + 1].dst>>
    <3>1. PICK j \in Index :
            /\ j + 1 = frames[k].next
            /\ Pair(k, j) = <<frames[k + 1].src, frames[k + 1].dst>>
      BY <1>0, <1>4, <2>2 DEF FrameCopies
    <3> QED BY <1>3, <1>4, <1>12, <2>6, <3>1
  <2> QED BY <1>3, <1>7, <1>8, <2>3, <2>5, <2>6 DEF FrameCopies
<1>17. ASSUME lost'
       PROVE  \E k \in 1 .. Len(frames') : Tells(k)'
  <2>1. PICK k \in 1 .. n : Tells(k) BY <1>0, <1>1, <1>17 DEF CopyRight
  <2>2. CASE k # n
    <3>1. k \in 1 .. n - 1 BY <1>4, <2>2
    <3>2. CASE ~SameNode(frames[k].src, frames[k].dst)
      <4>1. ~SameNode(frames[k].src, frames[k].dst)'
        BY <1>1, <1>3, <3>1, <3>2 DEF SameNode, SameShape, Compared, vars
      <4> QED BY <1>4, <3>1, <4>1 DEF Tells
    <3>3. CASE \E j \in Index : Behind(k, j) /\ Differs(Pair(k, j))
      <4>1. PICK j \in Index : Behind(k, j) /\ Differs(Pair(k, j)) BY <3>3
      <4>2. Behind(k, j)' BY <1>14, <3>1, <4>1
      <4>3. Differs(Pair(k, j))' BY <1>15, <3>1, <4>1 DEF Differs
      <4> QED BY <1>4, <3>1, <4>2, <4>3 DEF Tells
    <3> QED BY <2>1, <3>2, <3>3 DEF Tells
  <2>3. CASE k = n
    <3>1. Differs(<<s, d>>) BY <1>9, <2>1, <2>3
    <3>2. Behind(n - 1, i)' BY <1>2, <1>14
    <3>3. Pair(n - 1, i)' = <<s, d>> BY <1>2, <1>12, <1>13
    <3>4. Differs(Pair(n - 1, i))' BY <1>11, <3>1, <3>3 DEF Differs
    <3> QED BY <1>2, <1>4, <3>2, <3>4 DEF Tells
  <2> QED BY <2>2, <2>3
<1>18. /\ E \in SUBSET Obj /\ E \cap Filled' = {}
       /\ \A o \in E \cup Filled' : status'[o] = "live" /\ rc'[o] = 1
       /\ \A o \in E, j \in Index :
            j <= count'[o] => value'[o][j] \in E \cup {NoObj}
       /\ \A o \in Old(D), j \in Index :
            j <= count'[o] => value'[o][j] \in Old(D) \cup {NoObj}
  BY <1>1, <1>2, <1>5, <1>6, <1>9 DEF CopyRight, vars
<1>19. frames' # <<>> BY <1>2, <1>3
<1>20. \A k \in 1 .. Len(frames') : FrameCopies(E, k)' BY <1>4, <1>16
<1>21. CopyRight(E)' BY <1>7, <1>17, <1>18, <1>20 DEF CopyRight
<1> QED BY <1>19, <1>21

(* Nothing of the heap or of the clone changes. *)
LEMMA CloneRests ==
    ASSUME CloneInv, NEW D, CopyRight(D), UNCHANGED allVars
    PROVE  CopyRight(D)'
<1>1. UNCHANGED vars /\ frames' = frames /\ (lost' <=> lost)
  BY DEF allVars
<1>2. Filled' = Filled /\ Old(D)' = Old(D) BY <1>1 DEF Filled, Old, vars
<1>3. \A k \in 1 .. Len(frames), j \in Index :
        /\ Behind(k, j)' <=> Behind(k, j)
        /\ Pair(k, j)' = Pair(k, j)
  BY <1>1 DEF Behind, Pair, vars
<1>4. \A m \in Nat : \A k \in 1 .. Len(frames), j \in Index : Behind(k, j) =>
        /\ Pair(k, j)' \in PrunedTo'[m] <=> Pair(k, j) \in PrunedTo[m]
        /\ Pair(k, j)' \in EqualsTo'[m] <=> Pair(k, j) \in EqualsTo[m]
  BY <1>1, <1>3, AloneWhenStill, FrameKept
<1>5. ASSUME NEW k \in 1 .. Len(frames) PROVE FrameCopies(D, k)'
  <2>1. FrameCopies(D, k) /\ Cardinality(Obj) - k \in Nat
    BY FramesFit DEF CopyRight
  <2>2. /\ kind' = kind /\ key' = key /\ value' = value /\ count' = count
    BY <1>1 DEF vars
  <2>3. ASSUME NEW j \in Index, Behind(k, j)'
        PROVE  /\ Pair(k, j)' \in PrunedTo'[Cardinality(Obj) - k]
               /\ ~lost' => Pair(k, j)' \in EqualsTo'[Cardinality(Obj) - k]
               /\ value'[frames'[k].dst][j] \in D \cup {NoObj}
    BY <1>1, <1>3, <1>4, <2>1, <2>2, <2>3 DEF FrameCopies
  <2> QED BY <1>1, <1>2, <1>3, <2>1, <2>2, <2>3 DEF FrameCopies, KeysLeft
<1>6. lost' => \E k \in 1 .. Len(frames') : Tells(k)'
  <2>1. ASSUME NEW k \in 1 .. Len(frames), Tells(k) PROVE Tells(k)'
    <3>1. CASE ~SameNode(frames[k].src, frames[k].dst)
      <4>1. ~SameNode(frames[k].src, frames[k].dst)'
        BY <1>1, <3>1 DEF SameNode, SameShape, Compared, vars
      <4> QED BY <4>1 DEF Tells
    <3>2. CASE \E j \in Index : Behind(k, j) /\ Differs(Pair(k, j))
      <4>1. \E j \in Index : Behind(k, j)' /\ Differs(Pair(k, j))'
        BY <1>3, <1>4, <3>2 DEF Differs
      <4> QED BY <4>1 DEF Tells
    <3> QED BY <2>1, <3>1, <3>2 DEF Tells
  <2> QED BY <1>1, <2>1 DEF CopyRight
<1>7. /\ D \in SUBSET Obj /\ D \cap Filled' = {}
      /\ \A o \in D \cup Filled' : status'[o] = "live" /\ rc'[o] = 1
      /\ \A o \in D, j \in Index :
           j <= count'[o] => value'[o][j] \in D \cup {NoObj}
      /\ \A o \in Old(D), j \in Index :
           j <= count'[o] => value'[o][j] \in Old(D) \cup {NoObj}
  BY <1>1, <1>2 DEF CopyRight, vars
<1> QED BY <1>1, <1>2, <1>5, <1>6, <1>7 DEF CopyRight

LEMMA CopyStep == CloneInv /\ CopyInv /\ [CloneNext]_allVars => CopyInv'
<1> SUFFICES ASSUME CloneInv, CopyInv, [CloneNext]_allVars PROVE CopyInv'
  OBVIOUS
<1>1. CASE \E g, h \in Handle : Clone(g, h) BY <1>1, CloneBegins
<1>2. CASE CloneItem
  <2>1. frames # <<>> BY <1>2 DEF CloneItem
  <2>2. PICK D : CopyRight(D) BY <2>1 DEF CopyInv
  <2> QED BY <1>2, <2>2, CloneGoesDown DEF CopyInv
<1>3. CASE CloneNothing
  <2>1. frames # <<>> BY <1>3 DEF CloneNothing
  <2>2. PICK D : CopyRight(D) BY <2>1 DEF CopyInv
  <2> QED BY <1>3, <2>2, CloneGoesOn DEF CopyInv
<1>4. CASE CloneReturn
  <2>1. frames # <<>> BY <1>4 DEF CloneReturn, CloneDone
  <2>2. PICK D : CopyRight(D) BY <2>1 DEF CopyInv
  <2>3. CASE Len(frames) # 1
    BY <1>4, <2>2, <2>3, CloneComesBack DEF CopyInv
  <2>4. CASE Len(frames) = 1
    <3>1. frames \in Seq([src : Obj, dst : Obj, next : 1 .. MaxItems + 1])
      BY DEF CloneInv, FramesRight
    <3>2. PICK n : n = Len(frames) OBVIOUS
    <3>3. n - 1 = 0 /\ ~(n > 1) BY <2>4, <3>2
    <3>4. frames' = SubSeq(frames, 1, n - 1) /\ (lost' <=> lost /\ n > 1)
      BY <1>4, <3>2 DEF CloneReturn
    <3>5. frames' = <<>> BY <3>1, <3>3, <3>4
    <3> QED BY <3>3, <3>4, <3>5 DEF CopyInv
  <2> QED BY <2>3, <2>4
<1>5. CASE frames = <<>> /\ UNCHANGED cloneVars
  BY <1>5 DEF CopyInv, cloneVars
<1>6. CASE UNCHANGED allVars
  <2>1. CASE frames = <<>> BY <1>6, <2>1 DEF CopyInv, allVars
  <2>2. CASE frames # <<>>
    <3>1. PICK D : CopyRight(D) BY <2>2 DEF CopyInv
    <3>2. frames' # <<>> BY <1>6, <2>2 DEF allVars
    <3> QED BY <1>6, <3>1, <3>2, CloneRests DEF CopyInv
  <2> QED BY <2>1, <2>2
<1> QED BY <1>1, <1>2, <1>3, <1>4, <1>5, <1>6 DEF CloneNext

LEMMA CopyInvariant == CloneSpec => [](CloneInv /\ CopyInv)
<1>1. CloneInit => CopyInv BY DEF CloneInit, CopyInv
<1> QED BY <1>1, CloneInvariant, CopyStep, PTL DEF CloneSpec

(* Whatever the objects, the keys and the order of the calls: at the end of *)
(* cco_object_clone the copy has the kinds, the keys and the order of the   *)
(* original, and all of its items and keys but those memory was missing for. *)
THEOREM WrapperClones == HandleSpec => []CloneExact
<1>1. CloneSpec => []CloneExact BY CopyInvariant, CopyIsRight, PTL
<1> QED BY <1>1, WrapperRefines, PTL DEF WrapperIsHeap

(* ... cco_object_equals tells a copy that misses something from one that   *)
(* misses nothing, where it does not come to a key that is NULL ...         *)
THEOREM WrapperTells == HandleSpec => []EqualsTells
<1>1. CloneSpec => []EqualsTells BY CopyInvariant, CopyIsRight, PTL
<1> QED BY <1>1, WrapperRefines, PTL DEF WrapperIsHeap

(* ... and nothing below the copy is shared: not inside of it, not with the *)
(* original and not with the program.                                       *)
THEOREM WrapperParts == HandleSpec => []CloneApart
<1>1. CloneSpec => []CloneApart BY CopyInvariant, CopyIsRight, PTL
<1> QED BY <1>1, WrapperRefines, PTL DEF WrapperIsHeap
=============================================================================
