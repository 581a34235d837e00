------------------------- MODULE TrashFoldersProofs -------------------------
(***************************************************************************)
(* TypeOK and the properties of TrashFolders for any folders, of whatever  *)
(* depth, any requests and any number of failures.                         *)
(*                                                                         *)
(* TombsAreGone rests on TombsFit: a row that is gone has its tombstone,   *)
(* or the request that removed it is about to save it; and a tombstone is  *)
(* of a row that is gone, or that the walk that saved it will remove on    *)
(* its way back.                                                           *)
(*                                                                         *)
(* FlagsAreRows speaks of the end only.  FlagInv says what makes it true   *)
(* then, of every folder to which nothing it allows for has happened       *)
(* (Calm): of the changes of its row the last one has the last job about   *)
(* it, a walk that has to do with it is alone with it, and once no job     *)
(* and no walk is left that has, its flag and links are those of its row.  *)
(*                                                                         *)
(* NoneLiveBelow rests on BelowInv: while a live folder is below a trashed *)
(* one some walk will see to one of the two.                               *)
(***************************************************************************)
EXTENDS TrashFolders, FiniteSetTheorems, SequenceTheorems, TLAPS

-----------------------------------------------------------------------------
(* Sequences and what is in them *)

LEMMA InSeq ==
  ASSUME NEW S, NEW s \in Seq(S)
  PROVE  /\ ToSet(s) \subseteq S /\ ToSet(s) = {s[i] : i \in 1..Len(s)}
         /\ s = <<>> <=> ToSet(s) = {}
<1>1. Len(s) \in Nat /\ s \in [1..Len(s) -> S] /\ DOMAIN s = 1..Len(s)
  BY LenProperties
<1>2. ToSet(s) \subseteq S /\ ToSet(s) = {s[i] : i \in 1..Len(s)}
  BY <1>1 DEF ToSet
<1>3. CASE s = <<>>
  BY <1>1, <1>2, <1>3, EmptySeq
<1>4. CASE s # <<>>
  <2>1. 1 \in 1..Len(s)
    BY <1>1, <1>4, EmptySeq
  <2> QED
    BY <1>2, <1>4, <2>1
<1> QED
  BY <1>2, <1>3, <1>4

LEMMA InTail ==
  ASSUME NEW S, NEW s \in Seq(S), s # <<>>
  PROVE  /\ Head(s) \in S /\ Head(s) = s[1] /\ Tail(s) \in Seq(S)
         /\ Len(s) \in Nat \ {0} /\ Len(Tail(s)) = Len(s) - 1
         /\ \A i \in 1..Len(Tail(s)) : Tail(s)[i] = s[i + 1]
         /\ ToSet(s) = {Head(s)} \cup ToSet(Tail(s))
<1>1. /\ Head(s) \in S /\ Tail(s) \in Seq(S) /\ Len(Tail(s)) = Len(s) - 1
      /\ \A i \in 1..Len(Tail(s)) : Tail(s)[i] = s[i + 1]
  BY HeadTailProperties
<1>2. Len(s) \in Nat \ {0} /\ Head(s) = s[1]
  BY EmptySeq
<1>3. ToSet(s) = {s[i] : i \in 1..Len(s)} /\ ToSet(Tail(s)) = {Tail(s)[i] : i \in 1..Len(Tail(s))}
  BY <1>1, InSeq
<1>4. \A i \in 1..Len(s) : i = 1 \/ (i - 1 \in 1..Len(Tail(s)) /\ s[i] = Tail(s)[i - 1])
  BY <1>1, <1>2
<1>5. \A i \in 1..Len(Tail(s)) : i + 1 \in 1..Len(s)
  BY <1>1, <1>2
<1>6. 1 \in 1..Len(s)
  BY <1>2
<1>7. ToSet(s) \subseteq {Head(s)} \cup ToSet(Tail(s))
  <2>1. SUFFICES ASSUME NEW i \in 1..Len(s) PROVE s[i] \in {Head(s)} \cup ToSet(Tail(s))
    BY <1>3
  <2> QED
    BY <1>2, <1>3, <1>4
<1>8. {Head(s)} \cup ToSet(Tail(s)) \subseteq ToSet(s)
  BY <1>1, <1>2, <1>3, <1>5, <1>6
<1> QED
  BY <1>1, <1>2, <1>7, <1>8

LEMMA InAppend ==
  ASSUME NEW S, NEW s \in Seq(S), NEW e \in S
  PROVE  /\ Append(s, e) \in Seq(S) /\ Len(s) \in Nat /\ Len(Append(s, e)) = Len(s) + 1
         /\ Append(s, e)[Len(s) + 1] = e
         /\ \A i \in 1..Len(s) : Append(s, e)[i] = s[i]
  BY AppendProperties, LenProperties

LEMMA InConcat ==
  ASSUME NEW S, NEW s \in Seq(S), NEW t \in Seq(S)
  PROVE  s \o t \in Seq(S) /\ ToSet(s \o t) = ToSet(s) \cup ToSet(t)
<1>1. /\ s \o t \in Seq(S) /\ Len(s \o t) = Len(s) + Len(t)
      /\ \A i \in 1..Len(s) + Len(t) :
           (s \o t)[i] = IF i <= Len(s) THEN s[i] ELSE t[i - Len(s)]
  BY ConcatProperties
<1>2. Len(s) \in Nat /\ Len(t) \in Nat
  BY LenProperties
<1>3. /\ ToSet(s) = {s[i] : i \in 1..Len(s)} /\ ToSet(t) = {t[i] : i \in 1..Len(t)}
      /\ ToSet(s \o t) = {(s \o t)[i] : i \in 1..Len(s \o t)}
  BY <1>1, InSeq
<1>4. \A i \in 1..Len(s) : i \in 1..Len(s \o t) /\ (s \o t)[i] = s[i]
  BY <1>1, <1>2
<1>5. \A i \in 1..Len(t) : i + Len(s) \in 1..Len(s \o t) /\ (s \o t)[i + Len(s)] = t[i]
  BY <1>1, <1>2
<1>6. \A i \in 1..Len(s \o t) :
        \/ i \in 1..Len(s) /\ (s \o t)[i] = s[i]
        \/ i - Len(s) \in 1..Len(t) /\ (s \o t)[i] = t[i - Len(s)]
  BY <1>1, <1>2
<1>7. ToSet(s \o t) \subseteq ToSet(s) \cup ToSet(t)
  BY <1>3, <1>6
<1>8. ToSet(s) \subseteq ToSet(s \o t)
  BY <1>3, <1>4
<1>9. ToSet(t) \subseteq ToSet(s \o t)
  BY <1>3, <1>5
<1> QED
  BY <1>1, <1>7, <1>8, <1>9

LEMMA InCons ==
  ASSUME NEW S, NEW s \in Seq(S), NEW e \in S
  PROVE  /\ <<e>> \o s \in Seq(S) /\ <<e>> \o s # <<>> /\ Head(<<e>> \o s) = e
         /\ Len(s) \in Nat /\ Len(<<e>> \o s) = Len(s) + 1
         /\ (<<e>> \o s)[1] = e /\ \A i \in 1..Len(s) : (<<e>> \o s)[i + 1] = s[i]
         /\ ToSet(<<e>> \o s) = {e} \cup ToSet(s)
<1>1. <<e>> \in Seq(S) /\ Len(<<e>>) = 1 /\ <<e>>[1] = e
  OBVIOUS
<1>2. /\ <<e>> \o s \in Seq(S) /\ Len(<<e>> \o s) = 1 + Len(s)
      /\ \A i \in 1..1 + Len(s) :
           (<<e>> \o s)[i] = IF i <= 1 THEN <<e>>[i] ELSE s[i - 1]
  BY <1>1, ConcatProperties
<1>3. Len(s) \in Nat
  BY LenProperties
<1>4. <<e>> \o s # <<>>
  BY <1>2, <1>3, EmptySeq
<1>5. Head(<<e>> \o s) = (<<e>> \o s)[1]
  BY <1>2, <1>4, InTail
<1>6. (<<e>> \o s)[1] = e /\ \A i \in 1..Len(s) : (<<e>> \o s)[i + 1] = s[i]
  BY <1>1, <1>2, <1>3
<1>7. ToSet(<<e>>) = {e}
  <2>1. DOMAIN <<e>> = {1}
    OBVIOUS
  <2> QED
    BY <1>1, <2>1 DEF ToSet
<1>8. ToSet(<<e>> \o s) = {e} \cup ToSet(s)
  <2>1. ToSet(<<e>> \o s) = ToSet(<<e>>) \cup ToSet(s)
    BY <1>1, InConcat
  <2> QED
    BY <1>7, <2>1
<1> QED
  BY <1>2, <1>3, <1>4, <1>5, <1>6, <1>8

LEMMA InSetToSeq ==
  ASSUME NEW S, NEW T \in SUBSET S, IsFiniteSet(T)
  PROVE  SetToSeq(T) \in Seq(S) /\ ToSet(SetToSeq(T)) = T
<1> DEFINE n == Cardinality(T)
           s == SetToSeq(T)
<1>1. n \in Nat
  BY FS_CardinalityType
<1>2. ExistsBijection(1..n, T)
  BY FS_CardinalityType
<1>3. \E f \in [1..n -> T] : IsInjective(f)
  BY <1>2 DEF ExistsBijection, Bijection, Injection
<1>4. s \in [1..n -> T] /\ IsInjective(s)
  BY <1>3 DEF SetToSeq
<1>5. s \in Injection(1..n, T)
  BY <1>4 DEF Injection
<1>6. Cardinality(1..n) = n
  BY <1>1, FS_Interval
<1>7. s \in Surjection(1..n, T)
  BY <1>5, <1>6, FS_Injection
<1>8. s \in Seq(S)
  <2>1. s \in [1..n -> S]
    BY <1>4
  <2> QED
    BY <1>1, <2>1, SeqDef
<1>9. DOMAIN s = 1..n /\ \A x \in T : \E i \in 1..n : s[i] = x
  BY <1>4, <1>7 DEF Surjection
<1> QED
  BY <1>4, <1>8, <1>9 DEF ToSet

LEMMA OneInSeq ==
  ASSUME NEW e
  PROVE  SetToSeq({e}) = <<e>>
<1>1. Cardinality({e}) = 1
  BY FS_Singleton
<1>2. \A f \in [1..1 -> {e}] : f = <<e>>
  <2>1. 1..1 = {1}
    OBVIOUS
  <2> QED
    BY <2>1
<1>3. <<e>> \in [1..1 -> {e}] /\ IsInjective(<<e>>)
  <2>1. 1..1 = {1} /\ DOMAIN <<e>> = {1}
    OBVIOUS
  <2> QED
    BY <2>1 DEF IsInjective
<1>4. SetToSeq({e}) \in [1..1 -> {e}]
  BY <1>1, <1>3 DEF SetToSeq
<1> QED
  BY <1>2, <1>4

-----------------------------------------------------------------------------
(* What the steps do to the walks and the requests *)

Back(k) == ToSet(walk[k].back)
Todo(k) == ToSet(walk[k].todo)

\* What is in the walks, of which TypeOK is the type, in terms of sets.
WalkTypes ==
  \A k \in Request :
    /\ walk[k] \in WalkType
    /\ walk[k].todo \in Seq(Folder) /\ Todo(k) \subseteq Folder
    /\ walk[k].back \in Seq(Folder \X Nat) /\ Back(k) \subseteq Folder \X Nat
    /\ walk[k].todo = <<>> <=> Todo(k) = {}
    /\ walk[k].back = <<>> <=> Back(k) = {}

\* Of the walks, this step changes only that of k, which is now at p, at f.
GoesTo(k, p, f) ==
  /\ walk' \in [Request -> WalkType]
  /\ walk'[k].pc = p /\ walk'[k].at = f
  /\ \A j \in Request : j # k => walk'[j] = walk[j] /\ Back(j)' = Back(j) /\ Todo(j)' = Todo(j)

SameTodo(k) == walk'[k].todo = walk[k].todo /\ Todo(k)' = Todo(k)
SameBack(k) == walk'[k].back = walk[k].back /\ Back(k)' = Back(k)

LEMMA TypeOfWalks ==
  ASSUME TypeOK
  PROVE  WalkTypes
<1>1. SUFFICES ASSUME NEW k \in Request
               PROVE  /\ walk[k] \in WalkType
                      /\ walk[k].todo \in Seq(Folder) /\ Todo(k) \subseteq Folder
                      /\ walk[k].back \in Seq(Folder \X Nat) /\ Back(k) \subseteq Folder \X Nat
                      /\ walk[k].todo = <<>> <=> Todo(k) = {}
                      /\ walk[k].back = <<>> <=> Back(k) = {}
  BY DEF WalkTypes
<1>2. walk[k] \in WalkType
  BY DEF TypeOK
<1>3. walk[k].todo \in Seq(Folder) /\ walk[k].back \in Seq(Folder \X Nat)
  BY <1>2 DEF WalkType
<1>4. /\ Todo(k) \subseteq Folder /\ (walk[k].todo = <<>> <=> Todo(k) = {})
      /\ Back(k) \subseteq Folder \X Nat /\ (walk[k].back = <<>> <=> Back(k) = {})
  BY <1>3, InSeq DEF Todo, Back
<1> QED
  BY <1>2, <1>3, <1>4

LEMMA AtFolder ==
  ASSUME TypeOK, NEW k \in Request, k \in Active
  PROVE  /\ walk[k].at \in Folder /\ req[k].kind \in {"trash", "recover"}
         /\ req[k].of \in Folder \cup {None}
  BY DEF TypeOK, Active, WalkType, ReqType, Kind

WalkTo(k, w) == walk' = [walk EXCEPT ![k] = w]

LEMMA WalkBecomes ==
  ASSUME TypeOK, NEW k \in Request, NEW w \in WalkType, WalkTo(k, w)
  PROVE  GoesTo(k, w.pc, w.at) /\ walk'[k] = w
<1>1. walk \in [Request -> WalkType] /\ walk' = [walk EXCEPT ![k] = w]
  BY DEF TypeOK, WalkTo
<1>2. /\ walk' \in [Request -> WalkType] /\ walk'[k] = w
      /\ \A j \in Request : j # k => walk'[j] = walk[j]
  BY <1>1
<1> QED
  BY <1>2 DEF GoesTo, Back, Todo

LEMMA WalkKeeps ==
  ASSUME TypeOK, NEW k \in Request
  PROVE  /\ walk \in [Request -> WalkType]
         /\ walk[k] = [pc |-> walk[k].pc, at |-> walk[k].at, todo |-> walk[k].todo,
                       back |-> walk[k].back]
         /\ walk[k].pc \in {"none", "flag", "links", "children", "next", "parent", "rows",
                            "tomb", "back", "over"}
         /\ walk[k].at \in Folder \cup {None}
         /\ walk[k].todo \in Seq(Folder) /\ walk[k].back \in Seq(Folder \X Nat)
<1>1. walk \in [Request -> WalkType] /\ walk[k] \in WalkType
  BY DEF TypeOK
<1> QED
  BY <1>1 DEF WalkType

LEMMA SetFlagGoes ==
  ASSUME TypeOK, NEW k \in Request, SetFlag(k)
  PROVE  /\ k \in Active /\ walk[k].at \in Folder /\ walk[k].pc = "flag"
         /\ GoesTo(k, "links", walk[k].at) /\ SameTodo(k) /\ SameBack(k)
<1>1. /\ walk[k].pc = "flag"
      /\ walk' = [walk EXCEPT ![k].pc = "links"]
  BY DEF SetFlag
<1>2. k \in Active
  BY <1>1 DEF Active
<1>k. /\ walk \in [Request -> WalkType]
      /\ walk[k].pc \in {"none", "flag", "links", "children", "next", "parent", "rows", "tomb",
                         "back", "over"}
      /\ walk[k] = [pc |-> walk[k].pc, at |-> walk[k].at, todo |-> walk[k].todo,
                    back |-> walk[k].back]
      /\ walk[k].at \in Folder \cup {None} /\ walk[k].todo \in Seq(Folder)
      /\ walk[k].back \in Seq(Folder \X Nat)
  BY WalkKeeps
<1> DEFINE w == [walk[k] EXCEPT !.pc = "links"]
<1>w. /\ w \in WalkType
      /\ w.pc = "links" /\ w.at = walk[k].at /\ w.todo = walk[k].todo /\ w.back = walk[k].back
  BY <1>k DEF WalkType
<1>4. WalkTo(k, w)
  BY <1>1, <1>k DEF WalkTo
<1> HIDE DEF w
<1>5. /\ GoesTo(k, "links", walk[k].at)
      /\ walk'[k].todo = walk[k].todo /\ Todo(k)' = ToSet(walk[k].todo)
      /\ walk'[k].back = walk[k].back /\ Back(k)' = ToSet(walk[k].back)
  BY <1>4, <1>w, WalkBecomes DEF Todo, Back
<1> QED
  BY <1>1, <1>2, <1>5, AtFolder DEF SameTodo, SameBack, Back, Todo

LEMMA SetLinksGoes ==
  ASSUME TypeOK, NEW k \in Request, SetLinks(k)
  PROVE  /\ k \in Active /\ walk[k].at \in Folder /\ walk[k].pc = "links"
         /\ GoesTo(k, IF Trashing(k) THEN "children" ELSE "parent", walk[k].at)
         /\ SameTodo(k) /\ SameBack(k)
<1> DEFINE p == IF Trashing(k) THEN "children" ELSE "parent"
<1>1. /\ walk[k].pc = "links"
      /\ walk' = [walk EXCEPT ![k].pc = p]
  BY DEF SetLinks
<1>2. k \in Active
  BY <1>1 DEF Active
<1>p. p \in {"children", "parent"}
  OBVIOUS
<1>k. /\ walk \in [Request -> WalkType]
      /\ walk[k].pc \in {"none", "flag", "links", "children", "next", "parent", "rows", "tomb",
                         "back", "over"}
      /\ walk[k] = [pc |-> walk[k].pc, at |-> walk[k].at, todo |-> walk[k].todo,
                    back |-> walk[k].back]
      /\ walk[k].at \in Folder \cup {None} /\ walk[k].todo \in Seq(Folder)
      /\ walk[k].back \in Seq(Folder \X Nat)
  BY WalkKeeps
<1> HIDE DEF p
<1> DEFINE w == [walk[k] EXCEPT !.pc = p]
<1>w. /\ w \in WalkType
      /\ w.pc = p /\ w.at = walk[k].at /\ w.todo = walk[k].todo /\ w.back = walk[k].back
  BY <1>p, <1>k DEF WalkType
<1>4. WalkTo(k, w)
  BY <1>1, <1>k DEF WalkTo
<1> HIDE DEF w
<1>5. /\ GoesTo(k, p, walk[k].at)
      /\ walk'[k].todo = walk[k].todo /\ Todo(k)' = ToSet(walk[k].todo)
      /\ walk'[k].back = walk[k].back /\ Back(k)' = ToSet(walk[k].back)
  BY <1>4, <1>w, WalkBecomes DEF Todo, Back
<1> QED
  BY <1>1, <1>2, <1>5, AtFolder DEF SameTodo, SameBack, Back, Todo, p

LEMMA ReadChildrenGoes ==
  ASSUME TypeOK, NEW k \in Request, ReadChildren(k)
  PROVE  /\ k \in Active /\ walk[k].at \in Folder /\ walk[k].pc = "children"
         /\ GoesTo(k, "next", walk[k].at) /\ SameBack(k)
         /\ Todo(k)' = Todo(k) \cup LiveChildren(k)
<1> DEFINE t == SetToSeq(LiveChildren(k)) \o walk[k].todo
<1>1. /\ walk[k].pc = "children"
      /\ walk' = [walk EXCEPT ![k].pc = "next", ![k].todo = t]
  BY DEF ReadChildren
<1>2. k \in Active
  BY <1>1 DEF Active
<1>k. /\ walk \in [Request -> WalkType]
      /\ walk[k].pc \in {"none", "flag", "links", "children", "next", "parent", "rows", "tomb",
                         "back", "over"}
      /\ walk[k] = [pc |-> walk[k].pc, at |-> walk[k].at, todo |-> walk[k].todo,
                    back |-> walk[k].back]
      /\ walk[k].at \in Folder \cup {None} /\ walk[k].todo \in Seq(Folder)
      /\ walk[k].back \in Seq(Folder \X Nat)
  BY WalkKeeps
<1>3. t \in Seq(Folder) /\ ToSet(t) = Todo(k) \cup LiveChildren(k)
  <2>1. LiveChildren(k) \in SUBSET Folder
    BY DEF LiveChildren, Children
  <2>2. IsFiniteSet(LiveChildren(k))
    BY <2>1, FolderAssumption, FS_Subset
  <2>3. /\ SetToSeq(LiveChildren(k)) \in Seq(Folder)
        /\ ToSet(SetToSeq(LiveChildren(k))) = LiveChildren(k)
    BY <2>1, <2>2, InSetToSeq
  <2> QED
    BY <2>3, <1>k, InConcat DEF Todo
<1> HIDE DEF t
<1> DEFINE w == [walk[k] EXCEPT !.pc = "next", !.todo = t]
<1>w. /\ w \in WalkType
      /\ w.pc = "next" /\ w.at = walk[k].at /\ w.todo = t /\ w.back = walk[k].back
  BY <1>3, <1>k DEF WalkType
<1>4. WalkTo(k, w)
  BY <1>1, <1>k DEF WalkTo
<1> HIDE DEF w
<1>5. /\ GoesTo(k, "next", walk[k].at)
      /\ walk'[k].todo = t /\ Todo(k)' = ToSet(t)
      /\ walk'[k].back = walk[k].back /\ Back(k)' = ToSet(walk[k].back)
  BY <1>4, <1>w, WalkBecomes DEF Todo, Back
<1> QED
  BY <1>1, <1>2, <1>3, <1>5, AtFolder DEF SameTodo, SameBack, Back, Todo, t

LEMMA TrashChildGoes ==
  ASSUME TypeOK, NEW k \in Request, TrashChild(k)
  PROVE  LET c == Head(walk[k].todo) IN
         /\ k \in Active /\ walk[k].at \in Folder /\ walk[k].pc = "next" /\ c \in Folder
         /\ GoesTo(k, "flag", c) /\ SameBack(k)
         /\ Todo(k) = {c} \cup Todo(k)'
<1> DEFINE c == Head(walk[k].todo)
           t == Tail(walk[k].todo)
<1>1. /\ walk[k].pc = "next" /\ walk[k].todo # <<>>
      /\ walk' = [walk EXCEPT ![k].pc = "flag", ![k].at = c, ![k].todo = t]
  BY DEF TrashChild
<1>2. k \in Active
  BY <1>1 DEF Active
<1>k. /\ walk \in [Request -> WalkType]
      /\ walk[k].pc \in {"none", "flag", "links", "children", "next", "parent", "rows", "tomb",
                         "back", "over"}
      /\ walk[k] = [pc |-> walk[k].pc, at |-> walk[k].at, todo |-> walk[k].todo,
                    back |-> walk[k].back]
      /\ walk[k].at \in Folder \cup {None} /\ walk[k].todo \in Seq(Folder)
      /\ walk[k].back \in Seq(Folder \X Nat)
  BY WalkKeeps
<1>3. c \in Folder /\ t \in Seq(Folder) /\ Todo(k) = {c} \cup ToSet(t)
  BY <1>1, <1>k, InTail DEF Todo
<1> HIDE DEF c, t
<1> DEFINE w == [walk[k] EXCEPT !.pc = "flag", !.at = c, !.todo = t]
<1>w. /\ w \in WalkType
      /\ w.pc = "flag" /\ w.at = c /\ w.todo = t /\ w.back = walk[k].back
  BY <1>3, <1>k DEF WalkType
<1>4. WalkTo(k, w)
  BY <1>1, <1>k DEF WalkTo
<1> HIDE DEF w
<1>5. /\ GoesTo(k, "flag", c)
      /\ walk'[k].todo = t /\ Todo(k)' = ToSet(t)
      /\ walk'[k].back = walk[k].back /\ Back(k)' = ToSet(walk[k].back)
  BY <1>4, <1>w, WalkBecomes DEF Todo, Back
<1> QED
  BY <1>1, <1>2, <1>3, <1>5, AtFolder DEF SameTodo, SameBack, Back, Todo, c, t

LEMMA ReadParentGoes ==
  ASSUME TypeOK, NEW k \in Request, ReadParent(k)
  PROVE  /\ k \in Active /\ walk[k].at \in Folder /\ walk[k].pc = "parent"
         /\ GoesTo(k, IF TrashedParent(Parent[walk[k].at]) THEN "rows" ELSE "back", walk[k].at)
         /\ SameTodo(k) /\ SameBack(k)
<1> DEFINE p == IF TrashedParent(Parent[walk[k].at]) THEN "rows" ELSE "back"
<1>1. /\ walk[k].pc = "parent"
      /\ walk' = [walk EXCEPT ![k].pc = p]
  BY DEF ReadParent
<1>2. k \in Active
  BY <1>1 DEF Active
<1>p. p \in {"rows", "back"}
  OBVIOUS
<1>k. /\ walk \in [Request -> WalkType]
      /\ walk[k].pc \in {"none", "flag", "links", "children", "next", "parent", "rows", "tomb",
                         "back", "over"}
      /\ walk[k] = [pc |-> walk[k].pc, at |-> walk[k].at, todo |-> walk[k].todo,
                    back |-> walk[k].back]
      /\ walk[k].at \in Folder \cup {None} /\ walk[k].todo \in Seq(Folder)
      /\ walk[k].back \in Seq(Folder \X Nat)
  BY WalkKeeps
<1> HIDE DEF p
<1> DEFINE w == [walk[k] EXCEPT !.pc = p]
<1>w. /\ w \in WalkType
      /\ w.pc = p /\ w.at = walk[k].at /\ w.todo = walk[k].todo /\ w.back = walk[k].back
  BY <1>p, <1>k DEF WalkType
<1>4. WalkTo(k, w)
  BY <1>1, <1>k DEF WalkTo
<1> HIDE DEF w
<1>5. /\ GoesTo(k, p, walk[k].at)
      /\ walk'[k].todo = walk[k].todo /\ Todo(k)' = ToSet(walk[k].todo)
      /\ walk'[k].back = walk[k].back /\ Back(k)' = ToSet(walk[k].back)
  BY <1>4, <1>w, WalkBecomes DEF Todo, Back
<1> QED
  BY <1>1, <1>2, <1>5, AtFolder DEF SameTodo, SameBack, Back, Todo, p

LEMMA ReadRowsGoes ==
  ASSUME TypeOK, NEW k \in Request, ReadRows(k), Parent[walk[k].at] # None
  PROVE  LET q == Parent[walk[k].at] IN
         /\ k \in Active /\ walk[k].at \in Folder /\ walk[k].pc = "rows"
         /\ q \in Folder /\ row[q] \in 0..lastId
         /\ GoesTo(k, IF row[q] = 0 THEN "back" ELSE "tomb", walk[k].at) /\ SameTodo(k)
         /\ row[q] = 0 => SameBack(k)
         /\ row[q] # 0 => /\ walk'[k].back # <<>> /\ Head(walk'[k].back) = <<q, row[q]>>
                       /\ Back(k)' = {<<q, row[q]>>} \cup Back(k)
<1> DEFINE q == Parent[walk[k].at]
           b == IF row[q] = 0 THEN walk[k].back ELSE <<<<q, row[q]>>>> \o walk[k].back
           p == IF row[q] = 0 THEN "back" ELSE "tomb"
<1>1. /\ walk[k].pc = "rows"
      /\ walk' = [walk EXCEPT ![k].pc = p, ![k].back = b]
  BY DEF ReadRows
<1>2. k \in Active
  BY <1>1 DEF Active
<1>p. p \in {"back", "tomb"}
  OBVIOUS
<1>k. /\ walk \in [Request -> WalkType]
      /\ walk[k].pc \in {"none", "flag", "links", "children", "next", "parent", "rows", "tomb",
                         "back", "over"}
      /\ walk[k] = [pc |-> walk[k].pc, at |-> walk[k].at, todo |-> walk[k].todo,
                    back |-> walk[k].back]
      /\ walk[k].at \in Folder \cup {None} /\ walk[k].todo \in Seq(Folder)
      /\ walk[k].back \in Seq(Folder \X Nat)
  BY WalkKeeps
<1>a. q \in Folder
  BY <1>2, AtFolder, ParentAssumption
<1>b. row[q] \in 0..lastId /\ row[q] \in Nat
  BY <1>a DEF TypeOK
<1>3. /\ q \in Folder /\ row[q] \in 0..lastId /\ b \in Seq(Folder \X Nat)
      /\ row[q] = 0 => b = walk[k].back
      /\ row[q] # 0 => /\ b # <<>> /\ Head(b) = <<q, row[q]>>
                       /\ ToSet(b) = {<<q, row[q]>>} \cup Back(k)
  <2> DEFINE e == <<q, row[q]>>
  <2>1. e \in Folder \X Nat
    BY <1>a, <1>b
  <2> HIDE DEF e
  <2>2. /\ <<e>> \o walk[k].back \in Seq(Folder \X Nat) /\ <<e>> \o walk[k].back # <<>>
        /\ Head(<<e>> \o walk[k].back) = e
        /\ ToSet(<<e>> \o walk[k].back) = {e} \cup ToSet(walk[k].back)
    BY <2>1, <1>k, InCons
  <2> QED
    BY <1>a, <1>b, <2>2, <1>k DEF Back, e
<1> HIDE DEF q, b, p
<1> DEFINE w == [walk[k] EXCEPT !.pc = p, !.back = b]
<1>w. /\ w \in WalkType
      /\ w.pc = p /\ w.at = walk[k].at /\ w.todo = walk[k].todo /\ w.back = b
  BY <1>p, <1>3, <1>k DEF WalkType
<1>4. WalkTo(k, w)
  BY <1>1, <1>k DEF WalkTo
<1> HIDE DEF w
<1>5. /\ GoesTo(k, p, walk[k].at)
      /\ walk'[k].todo = walk[k].todo /\ Todo(k)' = ToSet(walk[k].todo)
      /\ walk'[k].back = b /\ Back(k)' = ToSet(b)
  BY <1>4, <1>w, WalkBecomes DEF Todo, Back
<1> QED
  BY <1>1, <1>2, <1>3, <1>5, AtFolder DEF SameTodo, SameBack, Back, Todo, q, b, p

LEMMA TombParentGoes ==
  ASSUME TypeOK, NEW k \in Request, TombParent(k), walk[k].back # <<>>
  PROVE  /\ k \in Active /\ walk[k].at \in Folder /\ walk[k].pc = "tomb"
         /\ Head(walk[k].back) \in Folder \X Nat /\ Head(walk[k].back) \in Back(k)
         /\ GoesTo(k, "flag", Head(walk[k].back)[1]) /\ SameTodo(k) /\ SameBack(k)
<1>1. /\ walk[k].pc = "tomb"
      /\ walk' = [walk EXCEPT ![k].pc = "flag", ![k].at = Head(walk[k].back)[1]]
  BY DEF TombParent
<1>2. k \in Active
  BY <1>1 DEF Active
<1>k. /\ walk \in [Request -> WalkType]
      /\ walk[k].pc \in {"none", "flag", "links", "children", "next", "parent", "rows", "tomb",
                         "back", "over"}
      /\ walk[k] = [pc |-> walk[k].pc, at |-> walk[k].at, todo |-> walk[k].todo,
                    back |-> walk[k].back]
      /\ walk[k].at \in Folder \cup {None} /\ walk[k].todo \in Seq(Folder)
      /\ walk[k].back \in Seq(Folder \X Nat)
  BY WalkKeeps
<1>3. /\ Head(walk[k].back) \in Folder \X Nat /\ Head(walk[k].back) \in Back(k)
      /\ Head(walk[k].back)[1] \in Folder
  BY <1>k, InTail DEF Back
<1> DEFINE w == [walk[k] EXCEPT !.pc = "flag", !.at = Head(walk[k].back)[1]]
<1>w. /\ w \in WalkType
      /\ w.pc = "flag" /\ w.at = Head(walk[k].back)[1]
      /\ w.todo = walk[k].todo /\ w.back = walk[k].back
  BY <1>3, <1>k DEF WalkType
<1>4. WalkTo(k, w)
  BY <1>1, <1>k DEF WalkTo
<1> HIDE DEF w
<1>5. /\ GoesTo(k, "flag", Head(walk[k].back)[1])
      /\ walk'[k].todo = walk[k].todo /\ Todo(k)' = ToSet(walk[k].todo)
      /\ walk'[k].back = walk[k].back /\ Back(k)' = ToSet(walk[k].back)
  BY <1>4, <1>w, WalkBecomes DEF Todo, Back
<1> QED
  BY <1>1, <1>2, <1>3, <1>5, AtFolder DEF SameTodo, SameBack, Back, Todo

LEMMA GoBackGoes ==
  ASSUME TypeOK, NEW k \in Request, GoBack(k)
  PROVE  LET h == Head(walk[k].back) IN
         /\ k \in Active /\ walk[k].at \in Folder /\ walk[k].pc = "back"
         /\ h \in Folder \X Nat /\ h \in Back(k) /\ h = <<h[1], h[2]>>
         /\ GoesTo(k, "back", walk[k].at) /\ SameTodo(k)
         /\ Back(k) = {h} \cup Back(k)'
<1> DEFINE h == Head(walk[k].back)
           b == Tail(walk[k].back)
<1>1. /\ walk[k].pc = "back" /\ walk[k].back # <<>>
      /\ walk' = [walk EXCEPT ![k].back = b]
  BY DEF GoBack
<1>2. k \in Active
  BY <1>1 DEF Active
<1>k. /\ walk \in [Request -> WalkType]
      /\ walk[k].pc \in {"none", "flag", "links", "children", "next", "parent", "rows", "tomb",
                         "back", "over"}
      /\ walk[k] = [pc |-> walk[k].pc, at |-> walk[k].at, todo |-> walk[k].todo,
                    back |-> walk[k].back]
      /\ walk[k].at \in Folder \cup {None} /\ walk[k].todo \in Seq(Folder)
      /\ walk[k].back \in Seq(Folder \X Nat)
  BY WalkKeeps
<1>3. /\ h \in Folder \X Nat /\ h \in Back(k)
      /\ b \in Seq(Folder \X Nat) /\ Back(k) = {h} \cup ToSet(b)
  BY <1>1, <1>k, InTail DEF Back
<1> HIDE DEF h, b
<1> DEFINE w == [walk[k] EXCEPT !.back = b]
<1>w. /\ w \in WalkType
      /\ w.pc = "back" /\ w.at = walk[k].at /\ w.todo = walk[k].todo /\ w.back = b
  BY <1>3, <1>k, <1>1 DEF WalkType
<1>4. WalkTo(k, w)
  BY <1>1, <1>k DEF WalkTo
<1> HIDE DEF w
<1>5. /\ GoesTo(k, "back", walk[k].at)
      /\ walk'[k].todo = walk[k].todo /\ Todo(k)' = ToSet(walk[k].todo)
      /\ walk'[k].back = b /\ Back(k)' = ToSet(b)
  BY <1>4, <1>w, WalkBecomes DEF Todo, Back
<1> QED
  BY <1>1, <1>2, <1>3, <1>5, AtFolder DEF SameTodo, SameBack, Back, Todo, h, b

LEMMA EndWalkGoes ==
  ASSUME TypeOK, NEW k \in Request, EndWalk(k)
  PROVE  /\ k \in Active /\ walk[k].at \in Folder /\ walk[k].pc \in {"next", "back"}
         /\ walk[k].todo = <<>> /\ walk[k].back = <<>>
         /\ GoesTo(k, "over", None)
         /\ walk'[k].todo = <<>> /\ walk'[k].back = <<>> /\ Todo(k)' = {} /\ Back(k)' = {}
<1>1. /\ k \in Active /\ walk[k].pc \in {"next", "back"} /\ walk[k].todo = <<>>
      /\ walk[k].back = <<>> /\ walk' = [walk EXCEPT ![k] = [NoWalk EXCEPT !.pc = "over"]]
  BY DEF EndWalk, Active
<1>2. [NoWalk EXCEPT !.pc = "over"] = [pc |-> "over", at |-> None, todo |-> <<>>, back |-> <<>>]
  BY DEF NoWalk
<1>3. /\ <<>> \in Seq(Folder) /\ <<>> \in Seq(Folder \X Nat) /\ ToSet(<<>>) = {}
  BY EmptySeq DEF ToSet
<1>4. [NoWalk EXCEPT !.pc = "over"] \in WalkType
  BY <1>2, <1>3 DEF WalkType
<1>5. WalkTo(k, [NoWalk EXCEPT !.pc = "over"])
  BY <1>1 DEF WalkTo
<1> QED
  BY <1>1, <1>2, <1>3, <1>4, <1>5, AtFolder, WalkBecomes DEF Todo, Back

LEMMA ChildHasRowGoes ==
  ASSUME TypeOK, NEW k \in Request, ChildHasRow(k)
  PROVE  /\ k \in Active /\ walk[k].at \in Folder /\ walk[k].pc = "next"
         /\ GoesTo(k, "over", None)
         /\ walk'[k].todo = <<>> /\ walk'[k].back = <<>> /\ Todo(k)' = {} /\ Back(k)' = {}
<1>1. /\ k \in Active /\ walk[k].pc = "next"
      /\ walk' = [walk EXCEPT ![k] = [NoWalk EXCEPT !.pc = "over"]]
  BY DEF ChildHasRow, Active
<1>2. [NoWalk EXCEPT !.pc = "over"] = [pc |-> "over", at |-> None, todo |-> <<>>, back |-> <<>>]
  BY DEF NoWalk
<1>3. /\ <<>> \in Seq(Folder) /\ <<>> \in Seq(Folder \X Nat) /\ ToSet(<<>>) = {}
  BY EmptySeq DEF ToSet
<1>4. [NoWalk EXCEPT !.pc = "over"] \in WalkType
  BY <1>2, <1>3 DEF WalkType
<1>5. WalkTo(k, [NoWalk EXCEPT !.pc = "over"])
  BY <1>1 DEF WalkTo
<1> QED
  BY <1>1, <1>2, <1>3, <1>4, <1>5, AtFolder, WalkBecomes DEF Todo, Back

LEMMA WalkFailsGoes ==
  ASSUME TypeOK, NEW k \in Request, WalkFails(k)
  PROVE  /\ k \in Active /\ walk[k].at \in Folder
         /\ GoesTo(k, "over", None)
         /\ walk'[k].todo = <<>> /\ walk'[k].back = <<>> /\ Todo(k)' = {} /\ Back(k)' = {}
<1>1. k \in Active /\ walk' = [walk EXCEPT ![k] = [NoWalk EXCEPT !.pc = "over"]]
  BY DEF WalkFails, Active
<1>2. [NoWalk EXCEPT !.pc = "over"] = [pc |-> "over", at |-> None, todo |-> <<>>, back |-> <<>>]
  BY DEF NoWalk
<1>3. /\ <<>> \in Seq(Folder) /\ <<>> \in Seq(Folder \X Nat) /\ ToSet(<<>>) = {}
  BY EmptySeq DEF ToSet
<1>4. [NoWalk EXCEPT !.pc = "over"] \in WalkType
  BY <1>2, <1>3 DEF WalkType
<1>5. WalkTo(k, [NoWalk EXCEPT !.pc = "over"])
  BY <1>1 DEF WalkTo
<1> QED
  BY <1>1, <1>2, <1>3, <1>4, <1>5, AtFolder, WalkBecomes DEF Todo, Back


\* What a walk does while it goes on, and how it ends.
Moves(k) == \/ SetFlag(k) \/ SetLinks(k) \/ ReadChildren(k) \/ TrashChild(k)
            \/ ReadParent(k) \/ ReadRows(k) \/ TombParent(k) \/ GoBack(k)
Stops(k) == EndWalk(k) \/ ChildHasRow(k) \/ WalkFails(k)

\* A walk down has folders to come to, and a walk up rows to remove on the way back; a walk
\* up that looks for the row of a parent is at a folder that has one.
ShapeOf(k) ==
  /\ k \notin Active => walk[k].todo = <<>> /\ walk[k].back = <<>>
  /\ k \in Active /\ Trashing(k) =>
       walk[k].pc \in {"flag", "links", "children", "next"} /\ walk[k].back = <<>>
  /\ k \in Active /\ ~Trashing(k) =>
       /\ walk[k].pc \in {"flag", "links", "parent", "rows", "tomb", "back"}
       /\ walk[k].todo = <<>>
  /\ walk[k].pc = "rows" => Parent[walk[k].at] # None
  /\ walk[k].pc = "tomb" => walk[k].back # <<>> /\ Head(walk[k].back)[1] = Parent[walk[k].at]

Shape == \A k \in Request : ShapeOf(k)

LEMMA MovesGo ==
  ASSUME TypeOK, Shape, NEW k \in Request, Moves(k)
  PROVE  /\ k \in Active /\ walk[k].at \in Folder /\ walk'[k].at \in Folder
         /\ walk' \in [Request -> WalkType] /\ Active' = Active
         /\ \A j \in Request : j # k => /\ walk'[j] = walk[j] /\ Back(j)' = Back(j)
                                       /\ Todo(j)' = Todo(j)
         /\ UNCHANGED <<serial, req, queue, faults, met, purged, broken, unwalked, untold>>
<1> DEFINE Goes(p, f) == k \in Active /\ walk[k].at \in Folder /\ GoesTo(k, p, f)
           Frame == UNCHANGED <<serial, req, queue, faults, met, purged, broken, unwalked, untold>>
<1>1. \E p \in {"flag", "links", "children", "next", "parent", "rows", "tomb", "back"},
         f \in Folder : Goes(p, f)
  <2>1. CASE SetFlag(k)
    BY <2>1, SetFlagGoes
  <2>2. CASE SetLinks(k)
    <3>1. Goes(IF Trashing(k) THEN "children" ELSE "parent", walk[k].at) /\ walk[k].at \in Folder
      BY <2>2, SetLinksGoes
    <3> QED
      BY <3>1
  <2>3. CASE ReadChildren(k)
    BY <2>3, ReadChildrenGoes
  <2>4. CASE TrashChild(k)
    BY <2>4, TrashChildGoes
  <2>5. CASE ReadParent(k)
    <3>1. /\ Goes(IF TrashedParent(Parent[walk[k].at]) THEN "rows" ELSE "back", walk[k].at)
          /\ walk[k].at \in Folder
      BY <2>5, ReadParentGoes
    <3> QED
      BY <3>1
  <2>6. CASE ReadRows(k)
    <3>1. walk[k].pc = "rows"
      BY <2>6 DEF ReadRows
    <3>2. Parent[walk[k].at] # None
      BY <3>1 DEF Shape, ShapeOf
    <3>3. /\ Goes(IF row[Parent[walk[k].at]] = 0 THEN "back" ELSE "tomb", walk[k].at)
          /\ walk[k].at \in Folder
      BY <2>6, <3>2, ReadRowsGoes
    <3> QED
      BY <3>3
  <2>7. CASE TombParent(k)
    <3>1. walk[k].pc = "tomb"
      BY <2>7 DEF TombParent
    <3>2. walk[k].back # <<>>
      BY <3>1 DEF Shape, ShapeOf
    <3>3. Goes("flag", Head(walk[k].back)[1]) /\ Head(walk[k].back)[1] \in Folder
      BY <2>7, <3>2, TombParentGoes
    <3> QED
      BY <3>3
  <2>8. CASE GoBack(k)
    BY <2>8, GoBackGoes
  <2> QED
    BY <2>1, <2>2, <2>3, <2>4, <2>5, <2>6, <2>7, <2>8 DEF Moves
<1>2. Frame
  BY DEF Moves, SetFlag, SetLinks, ReadChildren, TrashChild, ReadParent, ReadRows, TombParent,
         GoBack, history, rows, AddTomb, InsertRow, RemoveParent, RemoveRow
<1>3. PICK p \in {"flag", "links", "children", "next", "parent", "rows", "tomb", "back"},
           f \in Folder : Goes(p, f)
  BY <1>1
<1>4. walk'[k].pc \notin {"none", "over"} /\ walk'[k].at = f
  BY <1>3 DEF GoesTo
<1>5. Active' = Active
  BY <1>3, <1>4 DEF Active, GoesTo
<1> QED
  BY <1>2, <1>3, <1>4, <1>5 DEF GoesTo

LEMMA StopsGo ==
  ASSUME TypeOK, NEW k \in Request, Stops(k)
  PROVE  /\ k \in Active /\ walk[k].at \in Folder /\ GoesTo(k, "over", None)
         /\ walk'[k].todo = <<>> /\ walk'[k].back = <<>> /\ Todo(k)' = {} /\ Back(k)' = {}
         /\ Active' = Active \ {k}
         /\ UNCHANGED <<serial, rows, flag, links, req, queue, met, touched, purged, crossed>>
<1>1. /\ k \in Active /\ walk[k].at \in Folder /\ GoesTo(k, "over", None)
      /\ walk'[k].todo = <<>> /\ walk'[k].back = <<>> /\ Todo(k)' = {} /\ Back(k)' = {}
  BY EndWalkGoes, ChildHasRowGoes, WalkFailsGoes DEF Stops
<1>2. UNCHANGED <<serial, rows, flag, links, req, queue, met, touched, purged, crossed>>
  BY DEF Stops, EndWalk, ChildHasRow, WalkFails, history
<1>3. Active' = Active \ {k}
  BY <1>1 DEF Active, GoesTo
<1> QED
  BY <1>1, <1>2, <1>3

LEMMA StartsOne ==
  ASSUME TypeOK, StartWalk
  PROVE  \E k \in Request : k = Head(queue)
<1>1. queue # <<>> /\ queue \in Seq(Request)
  BY DEF StartWalk, MayStart, TypeOK
<1> QED
  BY <1>1, InTail

LEMMA StartGoes ==
  ASSUME TypeOK, NEW k \in Request, k = Head(queue), StartWalk
  PROVE  /\ queue # <<>> /\ k \in ToSet(queue) /\ (serial => Active = {})
         /\ queue' = Tail(queue) /\ queue' \in Seq(Request) /\ ToSet(queue) = {k} \cup ToSet(queue)'
         /\ walk'[k].todo = <<>> /\ walk'[k].back = <<>> /\ Todo(k)' = {} /\ Back(k)' = {}
         /\ req[k].kind = "purge" => GoesTo(k, "over", None) /\ met' = met
         /\ req[k].kind # "purge" => /\ GoesTo(k, "flag", req[k].of)
                                     /\ met' = met \cup {{k, j} : j \in Active}
         /\ UNCHANGED <<serial, rows, flag, links, req, faults, touched, purged, crossed, broken,
                 unwalked, untold>>
<1> DEFINE w == IF req[k].kind = "purge" THEN [NoWalk EXCEPT !.pc = "over"]
                ELSE [NoWalk EXCEPT !.pc = "flag", !.at = req[k].of]
<1>1. queue # <<>> /\ (serial => Active = {}) /\ queue' = Tail(queue)
  BY DEF StartWalk, MayStart
<1>2. queue \in Seq(Request)
  BY DEF TypeOK
<1>3. queue' \in Seq(Request) /\ ToSet(queue) = {k} \cup ToSet(Tail(queue))
  BY <1>1, <1>2, InTail
<1>4. ToSet(queue)' = ToSet(Tail(queue))
  BY <1>1
<1>5. /\ WalkTo(k, w)
      /\ met' = IF req[k].kind = "purge" THEN met ELSE met \cup {{k, j} : j \in Active}
      /\ UNCHANGED <<serial, rows, flag, links, req, faults, touched, purged, crossed, broken,
                     unwalked, untold>>
  BY DEF StartWalk, WalkTo
<1>6. /\ <<>> \in Seq(Folder) /\ <<>> \in Seq(Folder \X Nat) /\ ToSet(<<>>) = {}
  BY EmptySeq DEF ToSet
<1>7. req[k].of \in Folder \cup {None}
  BY <1>3 DEF TypeOK, ReqType
<1>8. /\ w \in WalkType /\ w.todo = <<>> /\ w.back = <<>>
      /\ req[k].kind = "purge" => w.pc = "over" /\ w.at = None
      /\ req[k].kind # "purge" => w.pc = "flag" /\ w.at = req[k].of
  BY <1>6, <1>7 DEF NoWalk, WalkType
<1> HIDE DEF w
<1>9. GoesTo(k, w.pc, w.at) /\ walk'[k] = w
  BY <1>3, <1>5, <1>8, WalkBecomes
<1>10. walk'[k].todo = <<>> /\ walk'[k].back = <<>> /\ Todo(k)' = {} /\ Back(k)' = {}
  BY <1>6, <1>8, <1>9 DEF Todo, Back
<1> QED
  BY <1>1, <1>3, <1>4, <1>5, <1>8, <1>9, <1>10

-----------------------------------------------------------------------------
(* Where the job of a request is *)

\* The job of a request is in the queue or with one walk, and only once it has been queued;
\* the worker of RabbitMQ does one at a time, and two walks at once have met.
JobsOnce ==
  /\ \A i, j \in 1..Len(queue) : queue[i] = queue[j] => i = j
  /\ \A k \in ToSet(queue) : req[k].pc \in {"tomb", "done"} /\ k \notin Active
  /\ \A k \in Active : req[k].pc \in {"tomb", "done"}
  /\ \A k, j \in Active : k # j => ~serial /\ {k, j} \in met
  /\ serial => met = {}

LEMMA CrashGoes ==
  ASSUME TypeOK, JobsOnce, Crash
  PROVE  /\ Active' = {} /\ walk' \in [Request -> WalkType]
         /\ \A k \in Request :
              /\ k \notin Active => walk'[k] = walk[k] /\ Back(k)' = Back(k) /\ Todo(k)' = Todo(k)
              /\ k \in Active => /\ walk'[k].todo = <<>> /\ walk'[k].back = <<>>
                                 /\ walk'[k].pc \in {"none", "over"}
                                 /\ Todo(k)' = {} /\ Back(k)' = {}
         /\ queue' \in Seq(Request)
         /\ serial => \E k \in Active : Active = {k} /\ queue' = <<k>> \o queue
         /\ ~serial => queue' = queue
         /\ UNCHANGED <<serial, rows, flag, links, req, met, touched, purged, crossed>>
<1>1. /\ Active # {} /\ queue' = IF serial THEN SetToSeq(Active) \o queue ELSE queue
      /\ UNCHANGED <<serial, rows, flag, links, req, met, touched, purged, crossed>>
      /\ walk' = [k \in Request |-> IF k \notin Active THEN walk[k]
                                    ELSE IF serial THEN NoWalk ELSE [NoWalk EXCEPT !.pc = "over"]]
  BY DEF Crash
<1>2. queue \in Seq(Request) /\ Active \subseteq Request /\ walk \in [Request -> WalkType]
  BY DEF TypeOK, Active
<1>3. /\ <<>> \in Seq(Folder) /\ <<>> \in Seq(Folder \X Nat) /\ ToSet(<<>>) = {}
  BY EmptySeq DEF ToSet
<1> DEFINE w == IF serial THEN NoWalk ELSE [NoWalk EXCEPT !.pc = "over"]
<1>4. w \in WalkType /\ w.todo = <<>> /\ w.back = <<>> /\ w.pc \in {"none", "over"}
  BY <1>3 DEF NoWalk, WalkType
<1> HIDE DEF w
<1>5. walk' = [k \in Request |-> IF k \notin Active THEN walk[k] ELSE w]
  BY <1>1 DEF w
<1>6. walk' \in [Request -> WalkType]
  BY <1>2, <1>4, <1>5
<1>7. \A k \in Request : /\ k \notin Active => walk'[k] = walk[k]
                         /\ k \in Active => walk'[k] = w
  BY <1>5
<1>8. \A k \in Request :
        /\ k \notin Active => walk'[k] = walk[k] /\ Back(k)' = Back(k) /\ Todo(k)' = Todo(k)
        /\ k \in Active => /\ walk'[k].todo = <<>> /\ walk'[k].back = <<>>
                           /\ walk'[k].pc \in {"none", "over"}
                           /\ Todo(k)' = {} /\ Back(k)' = {}
  BY <1>3, <1>4, <1>7 DEF Back, Todo
<1>9. Active' = {}
  <2>1. SUFFICES ASSUME NEW k \in Request PROVE walk'[k].pc \in {"none", "over"}
    BY DEF Active
  <2> QED
    BY <1>8 DEF Active
<1>10. serial => \E k \in Active : Active = {k} /\ queue' = <<k>> \o queue
  <2>1. SUFFICES ASSUME serial PROVE \E k \in Active : Active = {k} /\ queue' = <<k>> \o queue
    OBVIOUS
  <2>2. PICK k \in Active : TRUE
    BY <1>1
  <2>3. Active = {k}
    BY <2>1, <2>2 DEF JobsOnce
  <2>4. SetToSeq(Active) = <<k>>
    BY <2>3, OneInSeq
  <2> QED
    BY <1>1, <2>1, <2>3, <2>4
<1>11. queue' \in Seq(Request)
  <2>1. CASE serial
    <3>1. PICK k \in Active : queue' = <<k>> \o queue
      BY <1>10, <2>1
    <3> QED
      BY <1>2, <3>1, InCons
  <2>2. CASE ~serial
    BY <1>1, <1>2, <2>2
  <2> QED
    BY <2>1, <2>2
<1> QED
  BY <1>1, <1>6, <1>8, <1>9, <1>10, <1>11

\* Of the requests, this step changes only k, which is now at p.
ReqGoes(k, p) ==
  /\ req' \in [Request -> ReqType]
  /\ req'[k] = [pc |-> p, kind |-> req[k].kind, of |-> req[k].of, id |-> req[k].id]
  /\ req'[k].pc = p /\ req'[k].kind = req[k].kind /\ req'[k].of = req[k].of
  /\ req'[k].id = req[k].id
  /\ \A j \in Request : j # k => req'[j] = req[j]

LEMMA ReqBecomes ==
  ASSUME TypeOK, NEW k \in Request, NEW p \in {"new", "remove", "queue", "tomb", "done", "failed"},
         req' = [req EXCEPT ![k].pc = p]
  PROVE  ReqGoes(k, p)
<1>1. req \in [Request -> ReqType] /\ req[k] \in ReqType
  BY DEF TypeOK
<1> DEFINE r == [req[k] EXCEPT !.pc = p]
<1>2. /\ r \in ReqType /\ r.pc = p /\ r.kind = req[k].kind /\ r.of = req[k].of /\ r.id = req[k].id
      /\ r = [pc |-> p, kind |-> req[k].kind, of |-> req[k].of, id |-> req[k].id]
  BY <1>1 DEF ReqType
<1>3. req' = [req EXCEPT ![k] = r]
  OBVIOUS
<1> HIDE DEF r
<1>4. req' \in [Request -> ReqType] /\ req'[k] = r /\ \A j \in Request : j # k => req'[j] = req[j]
  BY <1>1, <1>2, <1>3
<1> QED
  BY <1>2, <1>4 DEF ReqGoes

LEMMA SaveTrashGoes ==
  ASSUME TypeOK, NEW k \in Request, NEW f \in Folder, SaveTrash(k, f)
  PROVE  /\ req[k].pc = "new" /\ req' \in [Request -> ReqType]
         /\ \A j \in Request : j # k => req'[j] = req[j]
         /\ req'[k].kind = "trash" /\ req'[k].of = f /\ req'[k].of # None
         /\ \/ /\ row[f] = 0 /\ InsertRow(f) /\ CrossedIf(f, Unqueued(f))
               /\ req'[k].pc = "queue" /\ req'[k].id = lastId + 1
            \/ /\ row[f] # 0 /\ req'[k].pc = "failed" /\ req'[k].id = 0
               /\ UNCHANGED <<rows, crossed>>
         /\ UNCHANGED <<serial, flag, links, queue, walk, faults, met, touched, purged, broken,
                        unwalked, untold>>
<1>1. /\ req \in [Request -> ReqType] /\ lastId \in Nat /\ f # None
  BY ParentAssumption DEF TypeOK
<1>2. /\ req[k].pc = "new"
      /\ UNCHANGED <<serial, flag, links, queue, walk, faults, met, touched, purged, broken,
                     unwalked, untold>>
  BY DEF SaveTrash
<1>3. CASE row[f] = 0
  <2> DEFINE r == [pc |-> "queue", kind |-> "trash", of |-> f, id |-> lastId + 1]
  <2>1. /\ InsertRow(f) /\ CrossedIf(f, Unqueued(f))
        /\ req' = [req EXCEPT ![k] = [pc |-> "queue", kind |-> "trash", of |-> f, id |-> lastId']]
    BY <1>3 DEF SaveTrash
  <2>2. lastId' = lastId + 1
    BY <2>1 DEF InsertRow
  <2>3. req' = [req EXCEPT ![k] = r]
    BY <2>1, <2>2
  <2>4. /\ r \in ReqType /\ r.pc = "queue" /\ r.kind = "trash" /\ r.of = f /\ r.id = lastId + 1
    BY <1>1 DEF ReqType, Kind
  <2> HIDE DEF r
  <2>5. req' \in [Request -> ReqType] /\ req'[k] = r /\ \A j \in Request : j # k => req'[j] = req[j]
    BY <1>1, <2>3, <2>4
  <2> QED
    BY <1>1, <1>2, <1>3, <2>1, <2>4, <2>5
<1>4. CASE row[f] # 0
  <2> DEFINE r == [pc |-> "failed", kind |-> "trash", of |-> f, id |-> 0]
  <2>1. UNCHANGED <<rows, crossed>> /\ req' = [req EXCEPT ![k] = r]
    BY <1>4 DEF SaveTrash
  <2>2. /\ r \in ReqType /\ r.pc = "failed" /\ r.kind = "trash" /\ r.of = f /\ r.id = 0
    BY <1>1 DEF ReqType, Kind
  <2> HIDE DEF r
  <2>3. req' \in [Request -> ReqType] /\ req'[k] = r /\ \A j \in Request : j # k => req'[j] = req[j]
    BY <1>1, <2>1, <2>2
  <2> QED
    BY <1>1, <1>2, <1>4, <2>1, <2>2, <2>3
<1> QED
  BY <1>3, <1>4

LEMMA FindTrashGoes ==
  ASSUME TypeOK, NEW k \in Request, NEW kind \in {"recover", "purge"}, NEW f \in Folder,
         FindTrash(k, kind, f)
  PROVE  /\ req[k].pc = "new" /\ req' \in [Request -> ReqType]
         /\ \A j \in Request : j # k => req'[j] = req[j]
         /\ req'[k].kind = kind /\ req'[k].of = f /\ req'[k].of # None /\ req'[k].id = row[f]
         /\ req'[k].pc = IF row[f] = 0 THEN "failed" ELSE "remove"
         /\ UNCHANGED <<serial, rows, flag, links, queue, walk, faults, history>>
<1> DEFINE p == IF row[f] = 0 THEN "failed" ELSE "remove"
           r == [pc |-> p, kind |-> kind, of |-> f, id |-> row[f]]
<1>1. /\ req \in [Request -> ReqType] /\ row[f] \in Nat /\ f # None
  BY ParentAssumption DEF TypeOK
<1>2. /\ req[k].pc = "new" /\ req' = [req EXCEPT ![k] = r]
      /\ UNCHANGED <<serial, rows, flag, links, queue, walk, faults, history>>
  BY DEF FindTrash
<1>3. /\ r \in ReqType /\ r.pc = p /\ r.kind = kind /\ r.of = f /\ r.id = row[f]
  BY <1>1 DEF ReqType, Kind
<1> HIDE DEF r
<1>4. req' \in [Request -> ReqType] /\ req'[k] = r /\ \A j \in Request : j # k => req'[j] = req[j]
  BY <1>1, <1>2, <1>3
<1> QED
  BY <1>1, <1>2, <1>3, <1>4

LEMMA RemoveTrashGoes ==
  ASSUME TypeOK, NEW k \in Request, RemoveTrash(k)
  PROVE  /\ req[k].pc = "remove" /\ ReqGoes(k, "queue") /\ req[k].of \in Folder
<1>1. req[k].pc = "remove" /\ req' = [req EXCEPT ![k].pc = "queue"]
  BY DEF RemoveTrash
<1>2. req[k].of \in Folder
  BY <1>1 DEF TypeOK, ReqType
<1> QED
  BY <1>1, <1>2, ReqBecomes

LEMMA QueueJobGoes ==
  ASSUME TypeOK, NEW k \in Request, QueueJob(k)
  PROVE  /\ req[k].pc = "queue" /\ ReqGoes(k, AfterQueue(k)) /\ req[k].of \in Folder
         /\ queue' = Append(queue, k) /\ queue' \in Seq(Request) /\ Len(queue) \in Nat
         /\ Len(queue') = Len(queue) + 1 /\ queue'[Len(queue) + 1] = k
         /\ \A i \in 1..Len(queue) : queue'[i] = queue[i]
         /\ ToSet(queue)' = ToSet(queue) \cup {k}
<1>1. /\ req[k].pc = "queue" /\ req' = [req EXCEPT ![k].pc = AfterQueue(k)]
      /\ queue' = Append(queue, k)
  BY DEF QueueJob
<1>2. AfterQueue(k) \in {"tomb", "done"}
  BY DEF AfterQueue
<1>3. req[k].of \in Folder /\ queue \in Seq(Request)
  BY <1>1 DEF TypeOK, ReqType
<1>4. /\ queue' \in Seq(Request) /\ Len(queue) \in Nat /\ Len(queue') = Len(queue) + 1
      /\ queue'[Len(queue) + 1] = k /\ \A i \in 1..Len(queue) : queue'[i] = queue[i]
  BY <1>1, <1>3, InAppend
<1>5. ToSet(queue') = ToSet(queue) \cup {k}
  <2>1. /\ ToSet(queue) = {queue[i] : i \in 1..Len(queue)}
        /\ ToSet(queue') = {queue'[i] : i \in 1..Len(queue')}
    BY <1>3, <1>4, InSeq
  <2>2. \A i \in 1..Len(queue') : i \in 1..Len(queue) \/ i = Len(queue) + 1
    BY <1>4
  <2>3. \A i \in 1..Len(queue) : i \in 1..Len(queue')
    BY <1>4
  <2>4. Len(queue) + 1 \in 1..Len(queue')
    BY <1>4
  <2> QED
    BY <1>4, <2>1, <2>2, <2>3, <2>4
<1> HIDE DEF AfterQueue
<1>6. ReqGoes(k, AfterQueue(k))
  BY <1>1, <1>2, ReqBecomes
<1> QED
  BY <1>1, <1>3, <1>4, <1>5, <1>6

LEMMA QueueFailsGoes ==
  ASSUME TypeOK, NEW k \in Request, QueueFails(k)
  PROVE  /\ req[k].pc = "queue" /\ req[k].of \in Folder
         /\ ReqGoes(k, IF serial THEN AfterQueue(k) ELSE "failed")
<1> DEFINE p == IF serial THEN AfterQueue(k) ELSE "failed"
<1>1. req[k].pc = "queue" /\ req' = [req EXCEPT ![k].pc = p]
  BY DEF QueueFails
<1>2. p \in {"tomb", "done", "failed"}
  BY DEF AfterQueue
<1>3. req[k].of \in Folder
  BY <1>1 DEF TypeOK, ReqType
<1> HIDE DEF p
<1>4. ReqGoes(k, p)
  BY <1>1, <1>2, ReqBecomes
<1> QED
  BY <1>1, <1>3, <1>4 DEF p

LEMMA SaveTombGoes ==
  ASSUME TypeOK, NEW k \in Request, SaveTomb(k)
  PROVE  req[k].pc = "tomb" /\ ReqGoes(k, "done")
<1>1. req[k].pc = "tomb" /\ req' = [req EXCEPT ![k].pc = "done"]
  BY DEF SaveTomb
<1> QED
  BY <1>1, ReqBecomes

LEMMA TombFailsGoes ==
  ASSUME TypeOK, NEW k \in Request, TombFails(k)
  PROVE  req[k].pc = "tomb" /\ ReqGoes(k, "done")
<1>1. req[k].pc = "tomb" /\ req' = [req EXCEPT ![k].pc = "done"]
  BY DEF TombFails
<1> QED
  BY <1>1, ReqBecomes

LEMMA StartActive ==
  ASSUME TypeOK, JobsOnce, NEW k \in Request, k = Head(queue), StartWalk
  PROVE  /\ k \notin Active /\ k \notin ToSet(queue)' /\ req[k].pc \in {"tomb", "done"}
         /\ Active' = IF req[k].kind = "purge" THEN Active ELSE Active \cup {k}
         /\ \A i, j \in 1..Len(queue') : queue'[i] = queue'[j] => i = j
<1>1. /\ queue # <<>> /\ k \in ToSet(queue) /\ queue' = Tail(queue) /\ queue \in Seq(Request)
      /\ queue' \in Seq(Request)
  BY StartGoes DEF TypeOK
<1>2. k \notin Active /\ req[k].pc \in {"tomb", "done"}
  BY <1>1 DEF JobsOnce
<1>3. /\ Len(queue) \in Nat \ {0} /\ Len(queue') = Len(queue) - 1 /\ k = queue[1]
      /\ \A i \in 1..Len(queue') : queue'[i] = queue[i + 1]
  BY <1>1, InTail
<1>4. \A i \in 1..Len(queue') : i + 1 \in 1..Len(queue)
  BY <1>3
<1>5. \A i, j \in 1..Len(queue) : queue[i] = queue[j] => i = j
  BY DEF JobsOnce
<1>6. \A i, j \in 1..Len(queue') : queue'[i] = queue'[j] => i = j
  BY <1>3, <1>4, <1>5
<1>7. 1 \in 1..Len(queue) /\ \A i \in 1..Len(queue') : i + 1 # 1
  BY <1>3
<1>8. ToSet(queue') = {queue'[i] : i \in 1..Len(queue')}
  <2>1. queue' \in Seq(Request)
    BY <1>1
  <2> QED
    BY <2>1, InSeq
<1>9. k \notin ToSet(queue')
  <2>1. SUFFICES ASSUME NEW i \in 1..Len(queue'), queue'[i] = k PROVE FALSE
    BY <1>8
  <2>2. queue[i + 1] = queue[1] /\ i + 1 \in 1..Len(queue)
    BY <1>3, <1>4, <2>1
  <2> QED
    BY <1>5, <1>7, <2>2
<1>10. Active' = IF req[k].kind = "purge" THEN Active ELSE Active \cup {k}
  <2>1. CASE req[k].kind = "purge"
    <3>1. GoesTo(k, "over", None)
      BY <2>1, StartGoes
    <3> QED
      BY <1>2, <2>1, <3>1 DEF GoesTo, Active
  <2>2. CASE req[k].kind # "purge"
    <3>1. GoesTo(k, "flag", req[k].of)
      BY <2>2, StartGoes
    <3> QED
      BY <1>2, <2>2, <3>1 DEF GoesTo, Active
  <2> QED
    BY <2>1, <2>2
<1> QED
  BY <1>2, <1>6, <1>9, <1>10

LEMMA CrashQueue ==
  ASSUME TypeOK, JobsOnce, NEW k \in Active, queue' = <<k>> \o queue
  PROVE  /\ queue' \in Seq(Request) /\ ToSet(queue)' = {k} \cup ToSet(queue) /\ Len(queue) \in Nat
         /\ Len(queue') = Len(queue) + 1 /\ queue'[1] = k
         /\ \A i \in 1..Len(queue) : queue'[i + 1] = queue[i]
         /\ \A i, j \in 1..Len(queue') : queue'[i] = queue'[j] => i = j
<1>1. queue \in Seq(Request) /\ k \in Request
  BY DEF TypeOK, Active
<1>2. /\ queue' \in Seq(Request) /\ ToSet(queue') = {k} \cup ToSet(queue) /\ Len(queue) \in Nat
      /\ Len(queue') = Len(queue) + 1 /\ queue'[1] = k
      /\ \A i \in 1..Len(queue) : queue'[i + 1] = queue[i]
  BY <1>1, InCons
<1>3. \A i, j \in 1..Len(queue) : queue[i] = queue[j] => i = j
  BY DEF JobsOnce
<1>4. \A i \in 1..Len(queue) : queue[i] # k
  <2>1. ToSet(queue) = {queue[i] : i \in 1..Len(queue)}
    BY <1>1, InSeq
  <2> QED
    BY <2>1 DEF JobsOnce
<1>5. \A i \in 1..Len(queue') : i = 1 \/ (i - 1 \in 1..Len(queue) /\ queue'[i] = queue[i - 1])
  <2>1. \A i \in 1..Len(queue') : i # 1 => i - 1 \in 1..Len(queue) /\ (i - 1) + 1 = i
    BY <1>2
  <2> QED
    BY <1>2, <2>1
<1>6. ASSUME NEW i \in 1..Len(queue'), NEW j \in 1..Len(queue'), queue'[i] = queue'[j]
      PROVE  i = j
  <2>1. CASE i = 1
    BY <1>2, <1>4, <1>5, <1>6, <2>1
  <2>2. CASE j = 1
    BY <1>2, <1>4, <1>5, <1>6, <2>2
  <2>3. CASE i # 1 /\ j # 1
    <3>1. i - 1 = j - 1
      BY <1>3, <1>5, <1>6, <2>3
    <3> QED
      BY <1>2, <3>1
  <2> QED
    BY <2>1, <2>2, <2>3
<1> QED
  BY <1>2, <1>6

\* A request that is made changes neither walks nor queue, and the one it changes has no job.
LEMMA MadeGoes ==
  ASSUME TypeOK, NEW k \in Request,
         \/ \E f \in Folder : \/ SaveTrash(k, f)
                              \/ \E kind \in {"recover", "purge"} : FindTrash(k, kind, f)
         \/ RemoveTrash(k) \/ QueueFails(k) \/ SaveTomb(k) \/ TombFails(k)
  PROVE  /\ UNCHANGED <<serial, queue, walk, met, flag, links, touched, unwalked>>
         /\ req' \in [Request -> ReqType] /\ \A j \in Request : j # k => req'[j] = req[j]
         /\ req[k].pc \in {"tomb", "done"} => req'[k].pc \in {"tomb", "done"}
         /\ req[k].pc # "new" => /\ req'[k].kind = req[k].kind /\ req'[k].of = req[k].of
                                 /\ req'[k].id = req[k].id
         /\ req'[k].of # None
<1>1. ASSUME NEW f \in Folder, SaveTrash(k, f)
      PROVE  /\ UNCHANGED <<serial, queue, walk, met, flag, links, touched, unwalked>>
             /\ req[k].pc = "new" /\ req' \in [Request -> ReqType]
             /\ \A j \in Request : j # k => req'[j] = req[j]
             /\ req'[k].of # None
  BY <1>1, SaveTrashGoes
<1>2. ASSUME NEW f \in Folder, NEW kind \in {"recover", "purge"}, FindTrash(k, kind, f)
      PROVE  /\ UNCHANGED <<serial, queue, walk, met, flag, links, touched, unwalked>>
             /\ req[k].pc = "new" /\ req' \in [Request -> ReqType]
             /\ \A j \in Request : j # k => req'[j] = req[j]
             /\ req'[k].of # None
  BY <1>2, FindTrashGoes DEF history
<1>3. CASE RemoveTrash(k)
  <2>1. UNCHANGED <<serial, queue, walk, met, flag, links, touched, unwalked>>
    BY <1>3 DEF RemoveTrash
  <2> QED
    BY <1>3, <2>1, RemoveTrashGoes, ParentAssumption DEF ReqGoes
<1>4. CASE QueueFails(k)
  <2>1. UNCHANGED <<serial, queue, walk, met, flag, links, touched, unwalked>>
    BY <1>4 DEF QueueFails
  <2> QED
    BY <1>4, <2>1, QueueFailsGoes, ParentAssumption DEF ReqGoes
<1>5. CASE SaveTomb(k)
  <2>1. UNCHANGED <<serial, queue, walk, met, flag, links, touched, unwalked>>
    BY <1>5 DEF SaveTomb, history
  <2>2. req[k].pc = "tomb" /\ ReqGoes(k, "done")
    BY <1>5, SaveTombGoes
  <2>3. req[k].of # None
    BY <2>2 DEF TypeOK
  <2> QED
    BY <2>1, <2>2, <2>3 DEF ReqGoes
<1>6. CASE TombFails(k)
  <2>1. UNCHANGED <<serial, queue, walk, met, flag, links, touched, unwalked>>
    BY <1>6 DEF TombFails
  <2>2. req[k].pc = "tomb" /\ ReqGoes(k, "done")
    BY <1>6, TombFailsGoes
  <2>3. req[k].of # None
    BY <2>2 DEF TypeOK
  <2> QED
    BY <2>1, <2>2, <2>3 DEF ReqGoes
<1>7. req[k].pc = "new" => req[k].pc \notin {"tomb", "done"}
  OBVIOUS
<1> QED
  BY <1>1, <1>2, <1>3, <1>4, <1>5, <1>6, <1>7

LEMMA JobsStep ==
  ASSUME TypeOK, Shape, JobsOnce, [Next]_vars
  PROVE  JobsOnce'
<1>1. ASSUME NEW k \in Request, Moves(k) PROVE JobsOnce'
  <2>1. UNCHANGED <<serial, req, queue, met>> /\ Active' = Active
    BY <1>1, MovesGo
  <2> QED
    BY <2>1 DEF JobsOnce
<1>2. ASSUME NEW k \in Request, Stops(k) PROVE JobsOnce'
  <2>1. UNCHANGED <<serial, req, queue, met>> /\ Active' = Active \ {k}
    BY <1>2, StopsGo
  <2> QED
    BY <2>1 DEF JobsOnce
<1>3. CASE StartWalk
  <2>1. PICK k \in Request : k = Head(queue)
    BY <1>3, StartsOne
  <2>2. /\ k \notin Active /\ k \notin ToSet(queue)' /\ req[k].pc \in {"tomb", "done"}
        /\ Active' = IF req[k].kind = "purge" THEN Active ELSE Active \cup {k}
        /\ \A i, j \in 1..Len(queue') : queue'[i] = queue'[j] => i = j
    BY <1>3, <2>1, StartActive
  <2>3. /\ ToSet(queue) = {k} \cup ToSet(queue)' /\ (serial => Active = {})
        /\ UNCHANGED <<serial, req>>
        /\ met' = IF req[k].kind = "purge" THEN met ELSE met \cup {{k, j} : j \in Active}
    BY <1>3, <2>1, StartGoes
  <2>a. /\ Active' \subseteq Active \cup {k} /\ met \subseteq met'
        /\ k \in Active' => \A j \in Active : {k, j} \in met'
    BY <2>2, <2>3
  <2>4. \A j \in ToSet(queue)' : req'[j].pc \in {"tomb", "done"} /\ j \notin Active'
    <3>1. ToSet(queue)' \subseteq ToSet(queue) /\ req' = req
      BY <2>3
    <3> QED
      BY <2>2, <2>a, <3>1 DEF JobsOnce
  <2>5. \A j \in Active' : req'[j].pc \in {"tomb", "done"}
    BY <2>2, <2>3 DEF JobsOnce
  <2>6. \A i, j \in Active' : i # j => ~serial' /\ {i, j} \in met'
    <3>1. SUFFICES ASSUME NEW i \in Active', NEW j \in Active', i # j
                   PROVE  ~serial /\ {i, j} \in met'
      BY <2>3
    <3>2. CASE i \in Active /\ j \in Active
      BY <2>a, <3>1, <3>2 DEF JobsOnce
    <3>3. CASE i = k /\ j \in Active
      BY <2>a, <2>3, <3>1, <3>3
    <3>4. CASE j = k /\ i \in Active
      <4>1. {i, j} = {k, i}
        BY <3>4
      <4> QED
        BY <2>a, <2>3, <3>1, <3>4, <4>1
    <3> QED
      BY <2>a, <3>1, <3>2, <3>3, <3>4
  <2>7. serial' => met' = {}
    BY <2>3 DEF JobsOnce
  <2> QED
    BY <2>2, <2>4, <2>5, <2>6, <2>7 DEF JobsOnce
<1>4. CASE Crash
  <2>1. /\ Active' = {} /\ (serial => \E k \in Active : Active = {k} /\ queue' = <<k>> \o queue)
        /\ (~serial => queue' = queue) /\ UNCHANGED <<serial, req, met>>
    BY <1>4, CrashGoes
  <2>2. CASE serial
    <3>1. PICK k \in Active : queue' = <<k>> \o queue
      BY <2>1, <2>2
    <3>2. /\ ToSet(queue)' = {k} \cup ToSet(queue)
          /\ \A i, j \in 1..Len(queue') : queue'[i] = queue'[j] => i = j
      BY <3>1, CrashQueue
    <3> QED
      BY <2>1, <3>2 DEF JobsOnce
  <2>3. CASE ~serial
    BY <2>1, <2>3 DEF JobsOnce
  <2> QED
    BY <2>2, <2>3
<1>5. ASSUME NEW k \in Request, QueueJob(k) PROVE JobsOnce'
  <2>1. /\ req[k].pc = "queue" /\ ReqGoes(k, AfterQueue(k)) /\ AfterQueue(k) \in {"tomb", "done"}
        /\ queue' \in Seq(Request) /\ Len(queue) \in Nat
        /\ Len(queue') = Len(queue) + 1 /\ queue'[Len(queue) + 1] = k
        /\ \A i \in 1..Len(queue) : queue'[i] = queue[i]
        /\ ToSet(queue)' = ToSet(queue) \cup {k}
    BY <1>5, QueueJobGoes DEF AfterQueue
  <2>2. UNCHANGED <<serial, walk, met>> /\ Active' = Active
    BY <1>5 DEF QueueJob, history, Active
  <2>3. k \notin Active /\ k \notin ToSet(queue)
    BY <2>1 DEF JobsOnce
  <2>4. \A i \in 1..Len(queue) : queue[i] # k
    <3>1. ToSet(queue) = {queue[i] : i \in 1..Len(queue)}
      BY InSeq DEF TypeOK
    <3> QED
      BY <2>3, <3>1
  <2>5. \A i \in 1..Len(queue') : i \in 1..Len(queue) \/ i = Len(queue) + 1
    BY <2>1
  <2>6. \A i, j \in 1..Len(queue') : queue'[i] = queue'[j] => i = j
    <3>1. \A i, j \in 1..Len(queue) : queue[i] = queue[j] => i = j
      BY DEF JobsOnce
    <3> QED
      BY <2>1, <2>4, <2>5, <3>1
  <2>7. \A j \in Request : j # k => req'[j] = req[j]
    BY <2>1 DEF ReqGoes
  <2>8. req'[k].pc \in {"tomb", "done"}
    BY <2>1 DEF ReqGoes
  <2>9. ToSet(queue) \subseteq Request /\ Active \subseteq Request
    BY InSeq DEF TypeOK, Active
  <2> QED
    BY <2>1, <2>2, <2>3, <2>6, <2>7, <2>8, <2>9 DEF JobsOnce
<1>6. ASSUME NEW k \in Request,
             \/ \E f \in Folder : \/ SaveTrash(k, f)
                                  \/ \E kind \in {"recover", "purge"} : FindTrash(k, kind, f)
             \/ RemoveTrash(k) \/ QueueFails(k) \/ SaveTomb(k) \/ TombFails(k)
      PROVE  JobsOnce'
  <2>1. /\ UNCHANGED <<serial, queue, walk, met>> /\ \A j \in Request : j # k => req'[j] = req[j]
        /\ req[k].pc \in {"tomb", "done"} => req'[k].pc \in {"tomb", "done"}
    BY <1>6, MadeGoes
  <2>2. Active' = Active
    BY <2>1 DEF Active
  <2>3. ToSet(queue) \subseteq Request /\ Active \subseteq Request
    BY InSeq DEF TypeOK, Active
  <2> QED
    BY <2>1, <2>2, <2>3 DEF JobsOnce
<1>7. CASE UNCHANGED vars
  BY <1>7 DEF vars, history, JobsOnce, Active
<1> QED
  BY <1>1, <1>2, <1>3, <1>4, <1>5, <1>6, <1>7 DEF Next, RequestStep, WalkStep, Moves, Stops

\* One walk has changed, and the others keep what they carry.
LEMMA ShapeOfOne ==
  ASSUME Shape, NEW k \in Request, ShapeOf(k)',
         \A j \in Request : j # k => walk'[j] = walk[j],
         \A j \in Active : req'[j].kind = req[j].kind
  PROVE  Shape'
<1>1. SUFFICES ASSUME NEW j \in Request, j # k PROVE ShapeOf(j)'
  BY DEF Shape
<1>2. walk'[j] = walk[j] /\ (j \in Active => req'[j].kind = req[j].kind) /\ ShapeOf(j)
  BY <1>1 DEF Shape
<1>3. j \in Active' <=> j \in Active
  BY <1>2 DEF Active
<1>4. j \in Active => (Trashing(j)' <=> Trashing(j))
  BY <1>2 DEF Trashing
<1> QED
  BY <1>2, <1>3, <1>4 DEF ShapeOf

LEMMA ShapeStep ==
  ASSUME TypeOK, JobsOnce, Shape, [Next]_vars
  PROVE  Shape'
<1>1. ASSUME NEW k \in Request, Moves(k) PROVE Shape'
  <2>1. /\ k \in Active /\ k \in Active' /\ walk[k].at \in Folder /\ UNCHANGED req
        /\ \A j \in Request : j # k => walk'[j] = walk[j]
    BY <1>1, MovesGo
  <2>2. (Trashing(k)' <=> Trashing(k)) /\ ShapeOf(k)
    BY <2>1 DEF Shape, Trashing
  <2>3. ShapeOf(k)'
    <3>1. CASE SetFlag(k)
      BY <2>1, <2>2, <3>1, SetFlagGoes DEF ShapeOf, GoesTo, SameTodo, SameBack
    <3>2. CASE SetLinks(k)
      BY <2>1, <2>2, <3>2, SetLinksGoes DEF ShapeOf, GoesTo, SameTodo, SameBack
    <3>3. CASE ReadChildren(k)
      BY <2>1, <2>2, <3>3, ReadChildrenGoes DEF ShapeOf, GoesTo, SameTodo, SameBack
    <3>4. CASE TrashChild(k)
      BY <2>1, <2>2, <3>4, TrashChildGoes DEF ShapeOf, GoesTo, SameTodo, SameBack
    <3>5. CASE ReadParent(k)
      <4>1. TrashedParent(Parent[walk[k].at]) => Parent[walk[k].at] # None
        BY DEF TrashedParent
      <4> QED
        BY <2>1, <2>2, <3>5, <4>1, ReadParentGoes DEF ShapeOf, GoesTo, SameTodo, SameBack
    <3>6. CASE ReadRows(k)
      <4>1. walk[k].pc = "rows" /\ Parent[walk[k].at] # None
        BY <3>6, <2>2 DEF ReadRows, ShapeOf
      <4>2. CASE row[Parent[walk[k].at]] = 0
        BY <2>1, <2>2, <3>6, <4>1, <4>2, ReadRowsGoes DEF ShapeOf, GoesTo, SameTodo, SameBack
      <4>3. CASE row[Parent[walk[k].at]] # 0
        BY <2>1, <2>2, <3>6, <4>1, <4>3, ReadRowsGoes DEF ShapeOf, GoesTo, SameTodo
      <4> QED
        BY <4>2, <4>3
    <3>7. CASE TombParent(k)
      <4>1. walk[k].pc = "tomb" /\ walk[k].back # <<>>
        BY <3>7, <2>2 DEF TombParent, ShapeOf
      <4> QED
        BY <2>1, <2>2, <3>7, <4>1, TombParentGoes DEF ShapeOf, GoesTo, SameTodo, SameBack
    <3>8. CASE GoBack(k)
      <4>1. ~Trashing(k)
        BY <2>1, <2>2, <3>8 DEF ShapeOf, GoBack
      <4> QED
        BY <2>1, <2>2, <3>8, <4>1, GoBackGoes DEF ShapeOf, GoesTo, SameTodo
    <3> QED
      BY <1>1, <3>1, <3>2, <3>3, <3>4, <3>5, <3>6, <3>7, <3>8 DEF Moves
  <2> QED
    BY <2>1, <2>3, ShapeOfOne
<1>2. ASSUME NEW k \in Request, Stops(k) PROVE Shape'
  <2>1. /\ GoesTo(k, "over", None) /\ walk'[k].todo = <<>> /\ walk'[k].back = <<>>
        /\ Active' = Active \ {k} /\ UNCHANGED req
    BY <1>2, StopsGo
  <2>2. ShapeOf(k)'
    BY <2>1 DEF ShapeOf, GoesTo
  <2> QED
    BY <2>1, <2>2, ShapeOfOne DEF GoesTo
<1>3. CASE StartWalk
  <2>1. PICK k \in Request : k = Head(queue)
    BY <1>3, StartsOne
  <2>2. walk'[k].todo = <<>> /\ walk'[k].back = <<>> /\ UNCHANGED req
    BY <1>3, <2>1, StartGoes
  <2>3. CASE req[k].kind = "purge"
    <3>1. GoesTo(k, "over", None)
      BY <1>3, <2>1, <2>3, StartGoes
    <3>2. ShapeOf(k)'
      BY <2>2, <3>1 DEF ShapeOf, GoesTo, Active
    <3> QED
      BY <2>2, <3>1, <3>2, ShapeOfOne DEF GoesTo
  <2>4. CASE req[k].kind # "purge"
    <3>1. GoesTo(k, "flag", req[k].of)
      BY <1>3, <2>1, <2>4, StartGoes
    <3>2. ShapeOf(k)'
      BY <2>2, <3>1 DEF ShapeOf, GoesTo
    <3> QED
      BY <2>2, <3>1, <3>2, ShapeOfOne DEF GoesTo
  <2> QED
    BY <2>3, <2>4
<1>4. CASE Crash
  <2>1. /\ Active' = {} /\ UNCHANGED req
        /\ \A k \in Request :
              /\ k \notin Active => walk'[k] = walk[k]
              /\ k \in Active => /\ walk'[k].todo = <<>> /\ walk'[k].back = <<>>
                                 /\ walk'[k].pc \in {"none", "over"}
    BY <1>4, CrashGoes
  <2>2. ASSUME NEW k \in Request PROVE ShapeOf(k)'
    <3>1. CASE k \in Active
      BY <2>1, <3>1 DEF ShapeOf
    <3>2. CASE k \notin Active
      <4>1. ShapeOf(k)
        BY DEF Shape
      <4> QED
        BY <2>1, <3>2, <4>1 DEF ShapeOf
    <3> QED
      BY <3>1, <3>2
  <2> QED
    BY <2>2 DEF Shape
<1>5. ASSUME NEW k \in Request,
             \/ QueueJob(k)
             \/ \E f \in Folder : \/ SaveTrash(k, f)
                                  \/ \E kind \in {"recover", "purge"} : FindTrash(k, kind, f)
             \/ RemoveTrash(k) \/ QueueFails(k) \/ SaveTomb(k) \/ TombFails(k)
      PROVE  Shape'
  <2>1. UNCHANGED walk
    BY <1>5, MadeGoes DEF QueueJob
  <2>2. \A j \in Active : req'[j].kind = req[j].kind
    <3>1. SUFFICES ASSUME NEW j \in Active PROVE req'[j].kind = req[j].kind
      OBVIOUS
    <3>2. req[j].pc \in {"tomb", "done"} /\ j \in Request
      BY DEF JobsOnce, Active
    <3>3. CASE QueueJob(k)
      BY <3>2, <3>3, QueueJobGoes DEF ReqGoes
    <3> QED
      BY <1>5, <3>2, <3>3, MadeGoes
  <2>3. ShapeOf(k)'
    <3>1. ShapeOf(k) /\ Active' = Active
      BY <2>1 DEF Shape, Active
    <3>2. k \in Active => (Trashing(k)' <=> Trashing(k))
      BY <2>2 DEF Trashing
    <3> QED
      BY <2>1, <3>1, <3>2 DEF ShapeOf
  <2> QED
    BY <2>1, <2>2, <2>3, ShapeOfOne
<1>6. CASE UNCHANGED vars
  BY <1>6 DEF vars, history, rows, Shape, ShapeOf, Active, Trashing
<1> QED
  BY <1>1, <1>2, <1>3, <1>4, <1>5, <1>6 DEF Next, RequestStep, WalkStep, Moves, Stops

-----------------------------------------------------------------------------
(* Ids of rows *)

IsRowOf(id, f) == \A g \in Folder : row[g] = id => g = f
Removed(id)    == \A g \in Folder : row[g] # id

\* The ids of requests and walks are of rows there have been, each of the folder it is kept
\* with, and one that has been removed does not come again.
IdsOfRequest(k) ==
  req[k].pc \in {"remove", "queue", "tomb"} =>
    /\ req[k].id \in 1..lastId
    /\ req[k].pc # "queue" => ~Trashing(k)
    /\ ~Trashing(k) => IsRowOf(req[k].id, req[k].of)
    /\ ~Trashing(k) /\ req[k].pc # "remove" => Removed(req[k].id)
IdsOfWalk(k) == \A b \in Back(k) : b[2] \in 1..lastId /\ IsRowOf(b[2], b[1])
IdsInOrder   == \A k \in Request : IdsOfRequest(k) /\ IdsOfWalk(k)

\* What is the same of the rows after a step, whatever it does to one of them.
RowsStay ==
  /\ lastId' \in Nat /\ lastId <= lastId' /\ 1..lastId \subseteq 1..lastId'
  /\ row' \in [Folder -> 0..lastId']
  /\ \A f, g \in Folder : f # g => row'[f] # row'[g] \/ row'[f] = 0
  /\ \A id \in 1..lastId, f \in Folder : IsRowOf(id, f) => IsRowOf(id, f)'
  /\ \A id \in 1..lastId : Removed(id) => Removed(id)'

LEMMA InsertRowDoes ==
  ASSUME TypeOK, NEW f \in Folder, row[f] = 0, InsertRow(f)
  PROVE  /\ RowsStay /\ lastId' = lastId + 1 /\ row'[f] = lastId + 1 /\ tombs' = tombs
         /\ \A g \in Folder : g # f => row'[g] = row[g]
         /\ \A g \in Folder : row[g] # lastId + 1
<1>1. /\ lastId \in Nat /\ row \in [Folder -> 0..lastId]
      /\ \A g, h \in Folder : g # h => row[g] # row[h] \/ row[g] = 0
  BY DEF TypeOK
<1>2. lastId' = lastId + 1 /\ row' = [row EXCEPT ![f] = lastId + 1] /\ tombs' = tombs
  BY DEF InsertRow
<1>3. row'[f] = lastId + 1 /\ \A g \in Folder : g # f => row'[g] = row[g]
  BY <1>1, <1>2
<1>4. \A g \in Folder : row[g] \in 0..lastId /\ row[g] # lastId + 1
  BY <1>1
<1>5. row' \in [Folder -> 0..lastId']
  BY <1>1, <1>2
<1>6. \A g, h \in Folder : g # h => row'[g] # row'[h] \/ row'[g] = 0
  BY <1>1, <1>3, <1>4
<1>7. \A id \in 1..lastId, g \in Folder : IsRowOf(id, g) => IsRowOf(id, g)'
  BY <1>1, <1>3 DEF IsRowOf
<1>8. \A id \in 1..lastId : Removed(id) => Removed(id)'
  BY <1>1, <1>3 DEF Removed
<1>9. lastId' \in Nat /\ lastId <= lastId' /\ 1..lastId \subseteq 1..lastId'
  BY <1>1, <1>2
<1> QED
  BY <1>2, <1>3, <1>4, <1>5, <1>6, <1>7, <1>8, <1>9 DEF RowsStay

LEMMA RemoveRowDoes ==
  ASSUME TypeOK, NEW f \in Folder, NEW id \in 1..lastId, RemoveRow(f, id)
  PROVE  /\ RowsStay /\ lastId' = lastId /\ tombs' = tombs
         /\ row'[f] = IF row[f] = id THEN 0 ELSE row[f]
         /\ \A g \in Folder : g # f => row'[g] = row[g]
         /\ IsRowOf(id, f) => Removed(id)'
         /\ \A n \in 1..lastId : n # id => (Removed(n)' <=> Removed(n))
<1>1. /\ lastId \in Nat /\ row \in [Folder -> 0..lastId] /\ id # 0
      /\ \A g, h \in Folder : g # h => row[g] # row[h] \/ row[g] = 0
  BY DEF TypeOK
<1>2. /\ lastId' = lastId /\ tombs' = tombs
      /\ row' = [row EXCEPT ![f] = IF row[f] = id THEN 0 ELSE row[f]]
  BY DEF RemoveRow
<1>3. row'[f] = (IF row[f] = id THEN 0 ELSE row[f]) /\ \A g \in Folder : g # f => row'[g] = row[g]
  BY <1>1, <1>2
<1>4. row' \in [Folder -> 0..lastId]
  BY <1>1, <1>2
<1>5. \A g \in Folder : row'[g] = row[g] \/ row'[g] = 0
  BY <1>3
<1>6. \A g, h \in Folder : g # h => row'[g] # row'[h] \/ row'[g] = 0
  BY <1>1, <1>3
<1>7. \A n \in 1..lastId : n # 0
  BY <1>1
<1>8. \A n \in 1..lastId, g \in Folder : IsRowOf(n, g) => IsRowOf(n, g)'
  BY <1>5, <1>7 DEF IsRowOf
<1>9. \A n \in 1..lastId : Removed(n) => Removed(n)'
  BY <1>5, <1>7 DEF Removed
<1>10. \A n \in 1..lastId : n # id => (Removed(n)' <=> Removed(n))
  BY <1>3, <1>7 DEF Removed
<1>11. IsRowOf(id, f) => Removed(id)'
  BY <1>1, <1>3 DEF IsRowOf, Removed
<1> QED
  BY <1>1, <1>2, <1>3, <1>4, <1>6, <1>8, <1>9, <1>10, <1>11 DEF RowsStay

LEMMA SameRows ==
  ASSUME TypeOK, UNCHANGED <<row, lastId>>
  PROVE  RowsStay /\ \A n \in 1..lastId : Removed(n)' <=> Removed(n)
  BY DEF RowsStay, TypeOK, IsRowOf, Removed

LEMMA RowsStep ==
  ASSUME TypeOK, Shape, JobsOnce, IdsInOrder, [Next]_vars
  PROVE  RowsStay
<1>1. ASSUME NEW k \in Request, TrashChild(k) PROVE RowsStay
  <2> DEFINE c == Head(walk[k].todo)
  <2>1. c \in Folder /\ row[c] = 0 /\ InsertRow(c)
    BY <1>1, TrashChildGoes DEF TrashChild
  <2> QED
    BY <2>1, InsertRowDoes
<1>2. ASSUME NEW k \in Request, GoBack(k) PROVE RowsStay
  <2> DEFINE h == Head(walk[k].back)
  <2>1. h \in Folder \X Nat /\ h \in Back(k) /\ RemoveRow(h[1], h[2])
    BY <1>2, GoBackGoes DEF GoBack, RemoveParent
  <2>2. h[1] \in Folder /\ h[2] \in 1..lastId
    BY <2>1 DEF IdsInOrder, IdsOfWalk
  <2> QED
    BY <2>1, <2>2, RemoveRowDoes
<1>3. ASSUME NEW k \in Request, NEW f \in Folder, SaveTrash(k, f) PROVE RowsStay
  <2>1. CASE row[f] = 0 /\ InsertRow(f)
    BY <2>1, InsertRowDoes
  <2>2. CASE UNCHANGED rows
    BY <2>2, SameRows DEF rows
  <2> QED
    BY <1>3, <2>1, <2>2, SaveTrashGoes
<1>4. ASSUME NEW k \in Request, RemoveTrash(k) PROVE RowsStay
  <2>1. req[k].pc = "remove" /\ req[k].of \in Folder /\ RemoveRow(req[k].of, req[k].id)
    BY <1>4, RemoveTrashGoes DEF RemoveTrash
  <2>2. req[k].id \in 1..lastId
    BY <2>1 DEF IdsInOrder, IdsOfRequest
  <2> QED
    BY <2>1, <2>2, RemoveRowDoes
<1>5. ASSUME NEW k \in Request, Stops(k) PROVE RowsStay
  BY <1>5, StopsGo, SameRows DEF rows
<1>6. CASE StartWalk
  <2>1. UNCHANGED <<row, lastId>>
    BY <1>6 DEF StartWalk, rows
  <2> QED
    BY <2>1, SameRows
<1>7. CASE Crash
  <2>1. UNCHANGED <<row, lastId>>
    BY <1>7 DEF Crash, rows
  <2> QED
    BY <2>1, SameRows
<1>8. ASSUME NEW k \in Request,
             \/ QueueJob(k) \/ QueueFails(k) \/ SaveTomb(k) \/ TombFails(k)
             \/ SetFlag(k) \/ SetLinks(k) \/ ReadChildren(k) \/ ReadParent(k) \/ ReadRows(k) \/ TombParent(k)
             \/ \E f \in Folder : \E kind \in {"recover", "purge"} : FindTrash(k, kind, f)
      PROVE  RowsStay
  <2>1. UNCHANGED <<row, lastId>>
    BY <1>8 DEF QueueJob, QueueFails, SaveTomb, TombFails, SetFlag, SetLinks, ReadChildren,
                ReadParent, ReadRows, TombParent, FindTrash, AddTomb, rows
  <2> QED
    BY <2>1, SameRows
<1>9. CASE UNCHANGED vars
  BY <1>9, SameRows DEF vars, rows
<1> QED
  BY <1>1, <1>2, <1>3, <1>4, <1>5, <1>6, <1>7, <1>8, <1>9
  DEF Next, RequestStep, WalkStep, Moves, Stops

\* What was in order stays so, however the rows change.
LEMMA IdsOfSame ==
  ASSUME TypeOK, IdsInOrder, RowsStay, NEW k \in Request
  PROVE  /\ req'[k] = req[k] => IdsOfRequest(k)'
         /\ Back(k)' \subseteq Back(k) => IdsOfWalk(k)'
<1>1. ASSUME req'[k] = req[k], req[k].pc \in {"remove", "queue", "tomb"}
      PROVE  /\ req[k].id \in 1..lastId'
             /\ req[k].pc # "queue" => ~Trashing(k)'
             /\ ~Trashing(k)' => IsRowOf(req[k].id, req[k].of)'
             /\ ~Trashing(k)' /\ req[k].pc # "remove" => Removed(req[k].id)'
  <2>1. (Trashing(k)' <=> Trashing(k)) /\ req'[k].id = req[k].id /\ req'[k].of = req[k].of
    BY <1>1 DEF Trashing
  <2> DEFINE id == req[k].id
             f  == req[k].of
  <2>2. /\ id \in 1..lastId /\ (req[k].pc # "queue" => ~Trashing(k))
        /\ ~Trashing(k) => IsRowOf(id, f)
        /\ ~Trashing(k) /\ req[k].pc # "remove" => Removed(id)
    BY <1>1 DEF IdsInOrder, IdsOfRequest
  <2>3. /\ ~Trashing(k) => \A g \in Folder : row'[g] = id => g = f
        /\ ~Trashing(k) /\ req[k].pc # "remove" => \A g \in Folder : row'[g] # id
        /\ id \in 1..lastId'
    BY <2>2 DEF RowsStay, IsRowOf, Removed
  <2> QED
    BY <2>1, <2>2, <2>3 DEF IsRowOf, Removed
<1>2. ASSUME Back(k)' \subseteq Back(k) PROVE IdsOfWalk(k)'
  <2>1. SUFFICES ASSUME NEW b \in Back(k)' PROVE b[2] \in 1..lastId' /\ IsRowOf(b[2], b[1])'
    BY DEF IdsOfWalk
  <2>2. b \in Back(k) /\ b[1] \in Folder
    BY <1>2, <2>1, TypeOfWalks DEF WalkTypes
  <2>3. b[2] \in 1..lastId /\ IsRowOf(b[2], b[1])
    BY <2>2 DEF IdsInOrder, IdsOfWalk
  <2> QED
    BY <2>2, <2>3 DEF RowsStay
<1> QED
  BY <1>1, <1>2 DEF IdsOfRequest, IsRowOf, Removed

LEMMA RowIsOf ==
  ASSUME TypeOK, NEW f \in Folder, row[f] # 0
  PROVE  row[f] \in 1..lastId /\ IsRowOf(row[f], f)
  BY DEF TypeOK, IsRowOf

LEMMA IdsStep ==
  ASSUME TypeOK, Shape, JobsOnce, IdsInOrder, [Next]_vars
  PROVE  IdsInOrder'
<1>0. RowsStay
  BY RowsStep
<1>1. ASSUME NEW k \in Request, Moves(k) PROVE IdsInOrder'
  <2>1. UNCHANGED req /\ \A j \in Request : j # k => Back(j)' = Back(j)
    BY <1>1, MovesGo
  <2>2. IdsOfWalk(k)'
    <3>1. CASE Back(k)' \subseteq Back(k)
      BY <1>0, <3>1, IdsOfSame
    <3>2. CASE ~(Back(k)' \subseteq Back(k))
      <4>1. ReadRows(k)
        <5>1. SetFlag(k) => SameBack(k)
          BY SetFlagGoes
        <5>2. SetLinks(k) => SameBack(k)
          BY SetLinksGoes
        <5>3. ReadChildren(k) => SameBack(k)
          BY ReadChildrenGoes
        <5>4. TrashChild(k) => SameBack(k)
          BY TrashChildGoes
        <5>5. ReadParent(k) => SameBack(k)
          BY ReadParentGoes
        <5>6. TombParent(k) => SameBack(k)
          <6>1. TombParent(k) => walk[k].back # <<>>
            BY DEF TombParent, Shape, ShapeOf
          <6> QED
            BY <6>1, TombParentGoes
        <5>7. GoBack(k) => Back(k)' \subseteq Back(k)
          BY GoBackGoes
        <5> QED
          BY <1>1, <3>2, <5>1, <5>2, <5>3, <5>4, <5>5, <5>6, <5>7 DEF Moves, SameBack
      <4>2. Parent[walk[k].at] # None
        BY <4>1 DEF ReadRows, Shape, ShapeOf
      <4> DEFINE q == Parent[walk[k].at]
      <4>3. q \in Folder /\ row[q] # 0 /\ Back(k)' = {<<q, row[q]>>} \cup Back(k)
        BY <3>2, <4>1, <4>2, ReadRowsGoes DEF SameBack
      <4>4. row[q] \in 1..lastId /\ IsRowOf(row[q], q)
        BY <4>3, RowIsOf
      <4>5. row' = row /\ lastId' = lastId
        BY <4>1 DEF ReadRows, rows
      <4> HIDE DEF q
      <4>6. ASSUME NEW b \in Back(k)' PROVE b[2] \in 1..lastId' /\ IsRowOf(b[2], b[1])'
        <5>1. b[2] \in 1..lastId /\ IsRowOf(b[2], b[1])
          BY <4>3, <4>4, <4>6 DEF IdsInOrder, IdsOfWalk
        <5> QED
          BY <4>5, <5>1 DEF IsRowOf
      <4> QED
        BY <4>6 DEF IdsOfWalk
    <3> QED
      BY <3>1, <3>2
  <2> QED
    BY <1>0, <2>1, <2>2, IdsOfSame DEF IdsInOrder
<1>2. ASSUME UNCHANGED req, \A k \in Request : Back(k)' \subseteq Back(k) PROVE IdsInOrder'
  BY <1>0, <1>2, IdsOfSame DEF IdsInOrder
<1>3. ASSUME NEW k \in Request, Stops(k) PROVE IdsInOrder'
  BY <1>2, <1>3, StopsGo DEF GoesTo
<1>4. CASE StartWalk
  <2>1. PICK k \in Request : k = Head(queue)
    BY <1>4, StartsOne
  <2>2. /\ UNCHANGED req /\ Back(k)' = {}
        /\ \A j \in Request : j # k => Back(j)' = Back(j)
    BY <1>4, <2>1, StartGoes DEF GoesTo
  <2> QED
    BY <1>2, <2>2
<1>5. CASE Crash
  BY <1>2, <1>5, CrashGoes
<1>6. ASSUME UNCHANGED walk, NEW k \in Request, IdsOfRequest(k)',
             \A j \in Request : j # k => req'[j] = req[j]
      PROVE  IdsInOrder'
  <2>1. \A j \in Request : Back(j)' = Back(j)
    BY <1>6 DEF Back
  <2> QED
    BY <1>0, <1>6, <2>1, IdsOfSame DEF IdsInOrder
<1>7. ASSUME NEW k \in Request, NEW f \in Folder, SaveTrash(k, f) PROVE IdsInOrder'
  <2>1. /\ UNCHANGED walk /\ \A j \in Request : j # k => req'[j] = req[j]
        /\ req'[k].kind = "trash"
    BY <1>7, SaveTrashGoes
  <2>2. CASE req'[k].pc = "failed"
    BY <1>6, <2>1, <2>2 DEF IdsOfRequest
  <2>3. CASE req'[k].pc # "failed"
    <3>1. req'[k].pc = "queue" /\ req'[k].id = lastId + 1 /\ lastId' = lastId + 1 /\ lastId \in Nat
      BY <1>7, <2>3, SaveTrashGoes, InsertRowDoes DEF TypeOK
    <3>2. IdsOfRequest(k)'
      BY <2>1, <3>1 DEF IdsOfRequest, Trashing
    <3> QED
      BY <1>6, <2>1, <3>2
  <2> QED
    BY <2>2, <2>3
<1>8. ASSUME NEW k \in Request, NEW f \in Folder, NEW kind \in {"recover", "purge"},
             FindTrash(k, kind, f)
      PROVE  IdsInOrder'
  <2>1. /\ UNCHANGED walk /\ \A j \in Request : j # k => req'[j] = req[j]
        /\ req'[k].kind = kind /\ req'[k].of = f /\ req'[k].id = row[f]
        /\ req'[k].pc = IF row[f] = 0 THEN "failed" ELSE "remove"
        /\ row' = row /\ lastId' = lastId
    BY <1>8, FindTrashGoes DEF rows
  <2>2. CASE row[f] = 0
    BY <1>6, <2>1, <2>2 DEF IdsOfRequest
  <2>3. CASE row[f] # 0
    <3>1. row[f] \in 1..lastId /\ IsRowOf(row[f], f)
      BY <2>3, RowIsOf
    <3>2. IdsOfRequest(k)'
      BY <2>1, <2>3, <3>1 DEF IdsOfRequest, Trashing, IsRowOf
    <3> QED
      BY <1>6, <2>1, <3>2
  <2> QED
    BY <2>2, <2>3
<1>9. ASSUME NEW k \in Request, RemoveTrash(k) PROVE IdsInOrder'
  <2>1. req[k].pc = "remove" /\ ReqGoes(k, "queue") /\ req[k].of \in Folder
    BY <1>9, RemoveTrashGoes
  <2>2. UNCHANGED walk /\ RemoveRow(req[k].of, req[k].id)
    BY <1>9 DEF RemoveTrash
  <2> DEFINE id == req[k].id
             f  == req[k].of
  <2>3. id \in 1..lastId /\ ~Trashing(k) /\ IsRowOf(id, f)
    BY <2>1 DEF IdsInOrder, IdsOfRequest
  <2>4. /\ \A g \in Folder : row'[g] # id
        /\ id \in 1..lastId'
    <3>1. \A g \in Folder : row[g] = id => g = f
      BY <2>3 DEF IsRowOf
    <3>2. row'[f] # id /\ \A g \in Folder : g # f => row'[g] = row[g]
      <4>1. /\ row'[f] = IF row[f] = id THEN 0 ELSE row[f]
            /\ \A g \in Folder : g # f => row'[g] = row[g]
        BY <2>1, <2>2, <2>3, RemoveRowDoes
      <4>2. id # 0
        BY <2>3
      <4> QED
        BY <4>1, <4>2
    <3> QED
      BY <1>0, <2>1, <2>3, <3>1, <3>2 DEF RowsStay
  <2>5. IdsOfRequest(k)'
    BY <2>1, <2>3, <2>4 DEF IdsOfRequest, Trashing, ReqGoes, IsRowOf, Removed
  <2> QED
    BY <1>6, <2>1, <2>2, <2>5 DEF ReqGoes
<1>10. ASSUME NEW k \in Request, NEW p \in {"tomb", "done", "failed"}, ReqGoes(k, p),
              req[k].pc \in {"queue", "tomb"}, p = "tomb" => ~Trashing(k),
              UNCHANGED <<row, lastId, walk>>
       PROVE  IdsInOrder'
  <2>1. IdsOfRequest(k)'
    <3>1. CASE p # "tomb"
      BY <1>10, <3>1 DEF IdsOfRequest, ReqGoes
    <3>2. CASE p = "tomb"
      <4>1. /\ ~Trashing(k) /\ req[k].id \in 1..lastId
            /\ IsRowOf(req[k].id, req[k].of) /\ Removed(req[k].id)
        BY <1>10, <3>2 DEF IdsInOrder, IdsOfRequest
      <4> QED
        BY <1>10, <3>2, <4>1 DEF IdsOfRequest, Trashing, ReqGoes, IsRowOf, Removed
    <3> QED
      BY <3>1, <3>2
  <2> QED
    BY <1>6, <1>10, <2>1 DEF ReqGoes
<1>11. ASSUME NEW k \in Request, QueueJob(k) PROVE IdsInOrder'
  <2>1. req[k].pc = "queue" /\ ReqGoes(k, AfterQueue(k))
    BY <1>11, QueueJobGoes
  <2>2. AfterQueue(k) \in {"tomb", "done"} /\ (AfterQueue(k) = "tomb" => ~Trashing(k))
    BY DEF AfterQueue, Trashing
  <2>3. UNCHANGED <<row, lastId, walk>>
    BY <1>11 DEF QueueJob, rows
  <2> QED
    BY <1>10, <2>1, <2>2, <2>3
<1>12. ASSUME NEW k \in Request, QueueFails(k) PROVE IdsInOrder'
  <2> DEFINE p == IF serial THEN AfterQueue(k) ELSE "failed"
  <2>1. req[k].pc = "queue" /\ ReqGoes(k, p)
    BY <1>12, QueueFailsGoes
  <2>2. p \in {"tomb", "done", "failed"} /\ (p = "tomb" => ~Trashing(k))
    BY DEF AfterQueue, Trashing
  <2>3. UNCHANGED <<row, lastId, walk>>
    BY <1>12 DEF QueueFails, rows
  <2> HIDE DEF p
  <2> QED
    BY <1>10, <2>1, <2>2, <2>3
<1>13. ASSUME NEW k \in Request, SaveTomb(k) PROVE IdsInOrder'
  <2>1. UNCHANGED <<row, lastId, walk>>
    BY <1>13 DEF SaveTomb, AddTomb
  <2>2. req[k].pc = "tomb" /\ ReqGoes(k, "done")
    BY <1>13, SaveTombGoes
  <2> QED
    BY <1>10, <2>1, <2>2
<1>14. ASSUME NEW k \in Request, TombFails(k) PROVE IdsInOrder'
  <2>1. UNCHANGED <<row, lastId, walk>>
    BY <1>14 DEF TombFails, rows
  <2>2. req[k].pc = "tomb" /\ ReqGoes(k, "done")
    BY <1>14, TombFailsGoes
  <2> QED
    BY <1>10, <2>1, <2>2
<1>15. CASE UNCHANGED vars
  <2>1. UNCHANGED <<req, walk>>
    BY <1>15 DEF vars
  <2> QED
    BY <1>2, <2>1 DEF Back
<1> QED
  BY <1>1, <1>3, <1>4, <1>5, <1>7, <1>8, <1>9, <1>11, <1>12, <1>13, <1>14, <1>15
  DEF Next, RequestStep, WalkStep, Moves, Stops

-----------------------------------------------------------------------------
(* Types *)

\* The parts of TypeOK about the rest of the state.
TypeOfRest ==
  /\ serial \in BOOLEAN
  /\ tombs  \in SUBSET (1..lastId)
  /\ flag   \in [Folder -> BOOLEAN]
  /\ links  \in [Folder -> BOOLEAN]
  /\ faults \in 0..MaxFaults
  /\ met     \in SUBSET (SUBSET Request)
  /\ touched \in [Request -> SUBSET Folder]
  /\ purged \in SUBSET Folder /\ crossed \in SUBSET Folder
  /\ broken \in SUBSET Folder /\ unwalked \in SUBSET Folder
  /\ untold \in SUBSET (1..lastId)

LEMMA GiveUpTypes ==
  ASSUME TypeOK, IdsInOrder, NEW S, S \subseteq Active, GiveUp(S)
  PROVE  /\ broken' \in SUBSET Folder /\ unwalked' \in SUBSET Folder
         /\ untold' \in SUBSET (1..lastId) /\ untold \subseteq untold'
         /\ broken \subseteq broken' /\ unwalked \subseteq unwalked'
         /\ \A k \in S : \A b \in Back(k) : b[2] \in untold' /\ b[1] \in broken'
<1>1. /\ broken'   = broken \cup UNION {HalfDone(k) : k \in S}
      /\ unwalked' = unwalked \cup UNION {Unreached(k) : k \in S}
      /\ untold'   = untold \cup UNION {{b[2] : b \in Back(k)} : k \in S}
  BY DEF GiveUp, Back
<1>2. ASSUME NEW k \in S
      PROVE  /\ HalfDone(k) \subseteq Folder /\ Unreached(k) \subseteq Folder
             /\ {b[2] : b \in Back(k)} \subseteq 1..lastId
             /\ \A b \in Back(k) : b[1] \in HalfDone(k)
  <2>1. k \in Request /\ walk[k].at \in Folder
    BY <1>2, AtFolder DEF Active
  <2>2. Todo(k) \subseteq Folder /\ Back(k) \subseteq Folder \X Nat
    BY <2>1, TypeOfWalks DEF WalkTypes
  <2>3. \A b \in Back(k) : b[1] \in Folder
    BY <2>2
  <2>4. /\ HalfDone(k) \subseteq Folder /\ \A b \in Back(k) : b[1] \in HalfDone(k)
    BY <2>1, <2>3 DEF HalfDone, Back
  <2>5. Unreached(k) \subseteq Folder
    BY <2>1, <2>2 DEF Unreached, Todo, Children
  <2>6. \A b \in Back(k) : b[2] \in 1..lastId
    BY <2>1 DEF IdsInOrder, IdsOfWalk
  <2> QED
    BY <2>4, <2>5, <2>6
<1>3. broken \in SUBSET Folder /\ unwalked \in SUBSET Folder /\ untold \in SUBSET (1..lastId)
  BY DEF TypeOK
<1>4. broken' \in SUBSET Folder /\ unwalked' \in SUBSET Folder
  BY <1>1, <1>2, <1>3
<1>5. untold' \in SUBSET (1..lastId)
  BY <1>1, <1>2, <1>3
<1>6. \A k \in S : \A b \in Back(k) : b[2] \in untold' /\ b[1] \in broken'
  BY <1>1, <1>2
<1> QED
  BY <1>1, <1>4, <1>5, <1>6

LEMMA RestStep ==
  ASSUME TypeOK, Shape, JobsOnce, IdsInOrder, [Next]_vars
  PROVE  TypeOfRest'
<1>0. /\ TypeOfRest /\ lastId \in Nat /\ lastId' \in Nat /\ 1..lastId \subseteq 1..lastId'
      /\ tombs \in SUBSET (1..lastId') /\ untold \in SUBSET (1..lastId')
      /\ MaxFaults \in Nat
  BY RowsStep, BoundAssumption DEF TypeOK, TypeOfRest, RowsStay
<1>1. CASE StartWalk
  <2>1. PICK k \in Request : k = Head(queue)
    BY <1>1, StartsOne
  <2>2. /\ met' = met \/ met' = met \cup {{k, j} : j \in Active}
        /\ UNCHANGED <<serial, rows, flag, links, faults, touched, purged, crossed, broken,
                       unwalked, untold>>
    BY <1>1, <2>1, StartGoes
  <2>3. \A j \in Active : {k, j} \in SUBSET Request
    BY DEF Active
  <2>4. met' \in SUBSET (SUBSET Request)
    BY <1>0, <2>2, <2>3 DEF TypeOfRest
  <2> QED
    BY <1>0, <2>2, <2>4 DEF TypeOfRest, rows
<1>2. CASE Crash
  <2>1. /\ GiveUp(Active) /\ faults < MaxFaults /\ faults' = faults + 1
        /\ UNCHANGED <<serial, rows, flag, links, met, touched, purged, crossed>>
    BY <1>2 DEF Crash
  <2>2. /\ broken' \in SUBSET Folder /\ unwalked' \in SUBSET Folder
        /\ untold' \in SUBSET (1..lastId)
    BY <2>1, GiveUpTypes
  <2>3. faults' \in 0..MaxFaults
    BY <1>0, <2>1 DEF TypeOfRest
  <2> QED
    BY <1>0, <2>1, <2>2, <2>3 DEF TypeOfRest, rows
<1>3. ASSUME NEW k \in Request, ChildHasRow(k) \/ WalkFails(k) PROVE TypeOfRest'
  <2>1. /\ GiveUp({k})
        /\ faults' = faults \/ (faults < MaxFaults /\ faults' = faults + 1)
        /\ UNCHANGED <<serial, rows, flag, links, met, touched, purged, crossed>>
    BY <1>3 DEF ChildHasRow, WalkFails
  <2>2. k \in Active
    BY <1>3, ChildHasRowGoes, WalkFailsGoes
  <2>3. /\ broken' \in SUBSET Folder /\ unwalked' \in SUBSET Folder
        /\ untold' \in SUBSET (1..lastId)
    BY <1>3, <2>2, GiveUpTypes DEF ChildHasRow, WalkFails
  <2>4. faults' \in 0..MaxFaults
    <3>1. faults \in 0..MaxFaults
      BY <1>0 DEF TypeOfRest
    <3>2. CASE ChildHasRow(k)
      BY <3>1, <3>2 DEF ChildHasRow
    <3>3. CASE WalkFails(k)
      BY <1>0, <3>1, <3>3 DEF WalkFails
    <3> QED
      BY <1>3, <3>2, <3>3
  <2>5. UNCHANGED <<serial, rows, flag, links, met, touched, purged, crossed>>
    BY <1>3 DEF ChildHasRow, WalkFails
  <2> QED
    BY <1>0, <2>3, <2>4, <2>5 DEF TypeOfRest, rows
<1>4. ASSUME NEW k \in Request,
             EndWalk(k) \/ QueueJob(k) \/ ReadChildren(k) \/ ReadParent(k) \/ ReadRows(k)
             \/ \E f \in Folder : \E kind \in {"recover", "purge"} : FindTrash(k, kind, f)
      PROVE  TypeOfRest'
  <2>1. UNCHANGED <<serial, rows, flag, links, faults, history>>
    BY <1>4 DEF EndWalk, QueueJob, ReadChildren, ReadParent, ReadRows, FindTrash
  <2> QED
    BY <1>0, <2>1 DEF TypeOfRest, rows, history
<1>5. ASSUME NEW k \in Request, SetFlag(k) PROVE TypeOfRest'
  <2>1. walk[k].at \in Folder
    BY <1>5, SetFlagGoes
  <2>2. /\ flag' = [flag EXCEPT ![walk[k].at] = Trashing(k)]
        /\ touched' = [touched EXCEPT ![k] = touched[k] \cup {walk[k].at}]
        /\ UNCHANGED <<serial, rows, links, faults, met, purged, crossed, broken, unwalked, untold>>
    BY <1>5 DEF SetFlag
  <2>3. flag' \in [Folder -> BOOLEAN]
    BY <1>0, <2>2 DEF TypeOfRest, Trashing
  <2>4. touched' \in [Request -> SUBSET Folder]
    BY <1>0, <2>1, <2>2 DEF TypeOfRest
  <2> QED
    BY <1>0, <2>2, <2>3, <2>4 DEF TypeOfRest, rows
<1>6. ASSUME NEW k \in Request, SetLinks(k) PROVE TypeOfRest'
  <2>1. /\ links' = [links EXCEPT ![walk[k].at] = Trashing(k)]
        /\ UNCHANGED <<serial, rows, flag, faults, history>>
    BY <1>6 DEF SetLinks
  <2>2. links' \in [Folder -> BOOLEAN]
    BY <1>0, <2>1 DEF TypeOfRest, Trashing
  <2> QED
    BY <1>0, <2>1, <2>2 DEF TypeOfRest, rows, history
<1>7. ASSUME NEW c \in Folder, UNCHANGED tombs, crossed' = crossed \/ crossed' = crossed \cup {c},
             UNCHANGED <<serial, flag, links, faults, met, touched, broken, unwalked, untold>>,
             purged' \in SUBSET Folder
      PROVE  TypeOfRest'
  BY <1>0, <1>7 DEF TypeOfRest
<1>8. ASSUME NEW k \in Request, TrashChild(k) PROVE TypeOfRest'
  <2> DEFINE c == Head(walk[k].todo)
  <2>1. c \in Folder
    BY <1>8, TrashChildGoes
  <2>2. /\ UNCHANGED tombs /\ CrossedIf(c, Unqueued(c) \/ Waiting(c))
        /\ UNCHANGED <<serial, flag, links, faults, met, touched, purged, broken, unwalked, untold>>
    BY <1>8 DEF TrashChild, InsertRow
  <2>3. purged' \in SUBSET Folder
    BY <1>0, <2>2 DEF TypeOfRest
  <2> HIDE DEF c
  <2> QED
    BY <1>7, <2>1, <2>2, <2>3 DEF CrossedIf
<1>9. ASSUME NEW k \in Request, GoBack(k) PROVE TypeOfRest'
  <2> DEFINE p == Head(walk[k].back)[1]
  <2>1. p \in Folder
    BY <1>9, GoBackGoes
  <2>2. /\ UNCHANGED tombs
        /\ CrossedIf(p, row[p] = Head(walk[k].back)[2] /\ (Unqueued(p) \/ Waiting(p)))
        /\ UNCHANGED <<serial, flag, links, faults, met, touched, purged, broken, unwalked, untold>>
    BY <1>9 DEF GoBack, RemoveParent, RemoveRow
  <2>3. purged' \in SUBSET Folder
    BY <1>0, <2>2 DEF TypeOfRest
  <2> HIDE DEF p
  <2> QED
    BY <1>7, <2>1, <2>2, <2>3 DEF CrossedIf
<1>10. ASSUME NEW k \in Request, NEW f \in Folder, SaveTrash(k, f) PROVE TypeOfRest'
  <2>1. UNCHANGED tombs /\ (crossed' = crossed \/ crossed' = crossed \cup {f})
    BY <1>10, SaveTrashGoes DEF InsertRow, rows, CrossedIf
  <2>2. UNCHANGED <<serial, flag, links, faults, met, touched, purged, broken, unwalked, untold>>
    BY <1>10, SaveTrashGoes
  <2>3. purged' \in SUBSET Folder
    BY <1>0, <2>2 DEF TypeOfRest
  <2> QED
    BY <1>7, <2>1, <2>2, <2>3
<1>11. ASSUME NEW k \in Request, RemoveTrash(k) PROVE TypeOfRest'
  <2> DEFINE f == req[k].of
  <2>1. f \in Folder
    BY <1>11, RemoveTrashGoes
  <2>2. /\ UNCHANGED tombs
        /\ CrossedIf(f, Unqueued(f) \/ row[f] \notin {0, req[k].id})
        /\ UNCHANGED <<serial, flag, links, faults, met, touched, broken, unwalked, untold>>
        /\ purged' = IF req[k].kind = "purge" THEN purged \cup {f} ELSE purged
    BY <1>11 DEF RemoveTrash, RemoveRow
  <2>3. purged' \in SUBSET Folder
    BY <1>0, <2>1, <2>2 DEF TypeOfRest
  <2> HIDE DEF f
  <2> QED
    BY <1>7, <2>1, <2>2, <2>3 DEF CrossedIf
<1>12. ASSUME NEW k \in Request, QueueFails(k) PROVE TypeOfRest'
  <2>1. req[k].of \in Folder /\ req[k].id \in 1..lastId
    BY <1>12, QueueFailsGoes DEF IdsInOrder, IdsOfRequest
  <2>2. /\ faults < MaxFaults /\ faults' = faults + 1 /\ broken' = broken \cup {req[k].of}
        /\ untold' \in {untold, untold \cup {req[k].id}}
        /\ UNCHANGED <<serial, rows, flag, links, met, touched, purged, crossed, unwalked>>
    BY <1>12 DEF QueueFails
  <2>3. faults' \in 0..MaxFaults
    BY <1>0, <2>2 DEF TypeOfRest
  <2> QED
    BY <1>0, <2>1, <2>2, <2>3 DEF TypeOfRest, rows
<1>13. ASSUME NEW id \in 1..lastId, AddTomb(id),
              UNCHANGED <<serial, flag, links, faults, history>>
       PROVE  TypeOfRest'
  BY <1>0, <1>13 DEF TypeOfRest, AddTomb, history
<1>14. ASSUME NEW k \in Request, SaveTomb(k) PROVE TypeOfRest'
  <2>1. req[k].id \in 1..lastId
    BY <1>14 DEF SaveTomb, IdsInOrder, IdsOfRequest
  <2> QED
    BY <1>13, <1>14, <2>1 DEF SaveTomb
<1>15. ASSUME NEW k \in Request, TombParent(k) PROVE TypeOfRest'
  <2>1. walk[k].back # <<>>
    BY <1>15 DEF TombParent, Shape, ShapeOf
  <2>2. Head(walk[k].back) \in Back(k)
    BY <1>15, <2>1, TombParentGoes
  <2>3. Head(walk[k].back)[2] \in 1..lastId
    BY <2>2 DEF IdsInOrder, IdsOfWalk
  <2> QED
    BY <1>13, <1>15, <2>3 DEF TombParent
<1>16. ASSUME NEW k \in Request, TombFails(k) PROVE TypeOfRest'
  <2>1. req[k].id \in 1..lastId
    BY <1>16 DEF TombFails, IdsInOrder, IdsOfRequest
  <2>2. /\ faults < MaxFaults /\ faults' = faults + 1 /\ untold' = untold \cup {req[k].id}
        /\ UNCHANGED <<serial, rows, flag, links, met, touched, purged, crossed, broken, unwalked>>
    BY <1>16 DEF TombFails
  <2>3. faults' \in 0..MaxFaults
    BY <1>0, <2>2 DEF TypeOfRest
  <2> QED
    BY <1>0, <2>1, <2>2, <2>3 DEF TypeOfRest, rows
<1>17. CASE UNCHANGED vars
  BY <1>0, <1>17 DEF vars, TypeOfRest, rows, history
<1> QED
  BY <1>1, <1>2, <1>3, <1>4, <1>5, <1>6, <1>8, <1>9, <1>10, <1>11, <1>12, <1>14, <1>15, <1>16,
     <1>17
  DEF Next, RequestStep, WalkStep

LEMMA TypeStep ==
  ASSUME TypeOK, Shape, JobsOnce, IdsInOrder, [Next]_vars
  PROVE  TypeOK'
<1>1. RowsStay /\ TypeOfRest'
  BY RowsStep, RestStep
<1>2. /\ req' \in [Request -> ReqType]
      /\ \A j \in Request : req'[j].pc # "new" => req'[j].of # None
  <2>1. CASE UNCHANGED req
    BY <2>1 DEF TypeOK
  <2>2. ASSUME NEW k \in Request, req' \in [Request -> ReqType],
               \A j \in Request : j # k => req'[j] = req[j], req'[k].of # None
        PROVE  \A j \in Request : req'[j].pc # "new" => req'[j].of # None
    BY <2>2 DEF TypeOK
  <2>3. ASSUME NEW k \in Request, QueueJob(k)
        PROVE  /\ req' \in [Request -> ReqType]
               /\ \A j \in Request : req'[j].pc # "new" => req'[j].of # None
    <3>1. ReqGoes(k, AfterQueue(k)) /\ req[k].of # None
      BY <2>3, QueueJobGoes, ParentAssumption
    <3> QED
      BY <2>2, <3>1 DEF ReqGoes
  <2>4. ASSUME NEW k \in Request,
               \/ \E f \in Folder : \/ SaveTrash(k, f)
                                    \/ \E kind \in {"recover", "purge"} : FindTrash(k, kind, f)
               \/ RemoveTrash(k) \/ QueueFails(k) \/ SaveTomb(k) \/ TombFails(k)
        PROVE  /\ req' \in [Request -> ReqType]
               /\ \A j \in Request : req'[j].pc # "new" => req'[j].of # None
    BY <2>2, <2>4, MadeGoes
  <2>5. ASSUME NEW k \in Request, Moves(k) \/ Stops(k) PROVE UNCHANGED req
    BY <2>5, MovesGo, StopsGo
  <2>6. StartWalk \/ Crash \/ UNCHANGED vars => UNCHANGED req
    BY DEF StartWalk, Crash, vars
  <2> QED
    BY <2>1, <2>3, <2>4, <2>5, <2>6 DEF Next, RequestStep, WalkStep, Moves, Stops
<1>3. queue' \in Seq(Request)
  <2>1. CASE UNCHANGED queue
    BY <2>1 DEF TypeOK
  <2>2. ASSUME NEW k \in Request, Moves(k) \/ Stops(k) PROVE UNCHANGED queue
    BY <2>2, MovesGo, StopsGo
  <2>3. ASSUME NEW k \in Request,
               \/ \E f \in Folder : \/ SaveTrash(k, f)
                                    \/ \E kind \in {"recover", "purge"} : FindTrash(k, kind, f)
               \/ RemoveTrash(k) \/ QueueFails(k) \/ SaveTomb(k) \/ TombFails(k)
        PROVE  UNCHANGED queue
    BY <2>3, MadeGoes
  <2>4. CASE StartWalk
    BY <2>4, StartsOne, StartGoes
  <2>5. CASE Crash
    BY <2>5, CrashGoes
  <2>6. ASSUME NEW k \in Request, QueueJob(k) PROVE queue' \in Seq(Request)
    BY <2>6, QueueJobGoes
  <2>7. UNCHANGED vars => UNCHANGED queue
    BY DEF vars
  <2> QED
    BY <2>1, <2>2, <2>3, <2>4, <2>5, <2>6, <2>7 DEF Next, RequestStep, WalkStep, Moves, Stops
<1>4. /\ walk' \in [Request -> WalkType]
      /\ \A j \in Active' : req'[j].kind # "purge" /\ walk'[j].at # None
  <2>0. Active \subseteq Request /\ \A j \in Active : req[j].kind # "purge" /\ walk[j].at # None
    BY DEF TypeOK, Active
  <2>1. ASSUME NEW k \in Request, Moves(k)
        PROVE  /\ walk' \in [Request -> WalkType]
               /\ \A j \in Active' : req'[j].kind # "purge" /\ walk'[j].at # None
    <3>1. /\ walk' \in [Request -> WalkType] /\ Active' = Active /\ UNCHANGED req
          /\ \A j \in Request : j # k => walk'[j] = walk[j]
          /\ walk'[k].at # None
      BY <2>1, MovesGo, ParentAssumption
    <3> QED
      BY <2>0, <3>1
  <2>2. ASSUME NEW k \in Request, Stops(k)
        PROVE  /\ walk' \in [Request -> WalkType]
               /\ \A j \in Active' : req'[j].kind # "purge" /\ walk'[j].at # None
    <3>1. GoesTo(k, "over", None) /\ Active' = Active \ {k} /\ UNCHANGED req
      BY <2>2, StopsGo
    <3> QED
      BY <2>0, <3>1 DEF GoesTo
  <2>3. CASE StartWalk
    <3>1. PICK k \in Request : k = Head(queue)
      BY <2>3, StartsOne
    <3>2. /\ req[k].pc \in {"tomb", "done"}
          /\ Active' = IF req[k].kind = "purge" THEN Active ELSE Active \cup {k}
      BY <2>3, <3>1, StartActive
    <3>3. req[k].of # None
      BY <3>2 DEF TypeOK
    <3>4. CASE req[k].kind = "purge"
      <4>1. GoesTo(k, "over", None) /\ UNCHANGED req
        BY <2>3, <3>1, <3>4, StartGoes
      <4>2. k \notin Active
        BY <3>4 DEF TypeOK, Active
      <4> QED
        BY <2>0, <3>2, <3>4, <4>1, <4>2 DEF GoesTo
    <3>5. CASE req[k].kind # "purge"
      <4>1. GoesTo(k, "flag", req[k].of) /\ UNCHANGED req
        BY <2>3, <3>1, <3>5, StartGoes
      <4> QED
        BY <2>0, <3>2, <3>3, <3>5, <4>1 DEF GoesTo
    <3> QED
      BY <3>4, <3>5
  <2>4. CASE Crash
    BY <2>4, CrashGoes
  <2>5. ASSUME NEW k \in Request,
               \/ QueueJob(k)
               \/ \E f \in Folder : \/ SaveTrash(k, f)
                                    \/ \E kind \in {"recover", "purge"} : FindTrash(k, kind, f)
               \/ RemoveTrash(k) \/ QueueFails(k) \/ SaveTomb(k) \/ TombFails(k)
        PROVE  /\ walk' \in [Request -> WalkType]
               /\ \A j \in Active' : req'[j].kind # "purge" /\ walk'[j].at # None
    <3>1. UNCHANGED walk
      BY <2>5, MadeGoes DEF QueueJob
    <3>2. \A j \in Active : req'[j].kind = req[j].kind
      <4>1. SUFFICES ASSUME NEW j \in Active PROVE req'[j].kind = req[j].kind
        OBVIOUS
      <4>2. req[j].pc \in {"tomb", "done"} /\ j \in Request
        BY DEF JobsOnce, Active
      <4>3. CASE QueueJob(k)
        BY <4>2, <4>3, QueueJobGoes DEF ReqGoes
      <4> QED
        BY <2>5, <4>2, <4>3, MadeGoes
    <3>3. Active' = Active
      BY <3>1 DEF Active
    <3> QED
      BY <2>0, <3>1, <3>2, <3>3 DEF TypeOK
  <2>6. CASE UNCHANGED vars
    BY <2>0, <2>6 DEF vars, Active, TypeOK
  <2> QED
    BY <2>1, <2>2, <2>3, <2>4, <2>5, <2>6 DEF Next, RequestStep, WalkStep, Moves, Stops
<1>5. \A j \in Request : walk'[j].pc \notin {"none", "over"} =>
                           req'[j].kind # "purge" /\ walk'[j].at # None
  BY <1>4 DEF Active
<1> QED
  BY <1>1, <1>2, <1>3, <1>4, <1>5 DEF TypeOK, TypeOfRest, RowsStay

-----------------------------------------------------------------------------
(* Tombstones *)

\* On the way up a row gets its tombstone before it is removed on the way back.
TombedOf(k) ==
  \A b \in Back(k) : b[2] \in tombs \/ (walk[k].pc = "tomb" /\ b = Head(walk[k].back))
TombedFirst == \A k \in Request : TombedOf(k)

TombComes(id) ==
  \E k \in Request : ~Trashing(k) /\ req[k].pc \in {"queue", "tomb"} /\ req[k].id = id
RowGoes(id)   == \E k \in Request : \E b \in Back(k) : b[2] = id

\* A removed row has its tombstone, or a request is to write it; a tombstone is of a removed
\* row, or of one a walk is to remove.
FitsAt(id) ==
  /\ Removed(id) => id \in tombs \/ TombComes(id)
  /\ id \in tombs => Removed(id) \/ RowGoes(id)
TombsFit == \A id \in (1..lastId) \ untold : FitsAt(id)

LEMMA TombedStep ==
  ASSUME TypeOK, Shape, JobsOnce, IdsInOrder, TombedFirst, [Next]_vars
  PROVE  TombedFirst'
<1>1. ASSUME NEW k \in Request,
             \A j \in Request : j # k => walk'[j] = walk[j] /\ Back(j)' = Back(j),
             tombs \subseteq tombs', TombedOf(k)'
      PROVE  TombedFirst'
  <2>1. ASSUME NEW j \in Request, j # k PROVE TombedOf(j)'
    <3>1. TombedOf(j) /\ walk'[j] = walk[j] /\ Back(j)' = Back(j)
      BY <1>1, <2>1 DEF TombedFirst
    <3> QED
      BY <1>1, <3>1 DEF TombedOf
  <2> QED
    BY <1>1, <2>1 DEF TombedFirst
<1>2. ASSUME NEW k \in Request, Moves(k) PROVE TombedFirst'
  <2>1. k \in Active /\ \A j \in Request : j # k => walk'[j] = walk[j] /\ Back(j)' = Back(j)
    BY <1>2, MovesGo
  <2>2. CASE TombParent(k)
    <3>1. walk[k].pc = "tomb" /\ walk[k].back # <<>>
      BY <2>2 DEF TombParent, Shape, ShapeOf
    <3>2. Back(k)' = Back(k) /\ tombs' = tombs \cup {Head(walk[k].back)[2]}
      BY <2>2, <3>1, TombParentGoes DEF TombParent, AddTomb, SameBack
    <3>3. TombedOf(k)'
      BY <3>2 DEF TombedFirst, TombedOf
    <3> QED
      BY <1>1, <2>1, <3>2, <3>3
  <2>3. CASE ReadRows(k)
    <3>1. walk[k].pc = "rows" /\ Parent[walk[k].at] # None /\ tombs' = tombs
      BY <2>3 DEF ReadRows, Shape, ShapeOf, rows
    <3>2. \A b \in Back(k) : b[2] \in tombs
      BY <3>1 DEF TombedFirst, TombedOf
    <3> DEFINE q == Parent[walk[k].at]
    <3>3. CASE row[q] = 0
      <4>1. Back(k)' = Back(k)
        BY <2>3, <3>1, <3>3, ReadRowsGoes DEF SameBack
      <4>2. TombedOf(k)'
        BY <3>1, <3>2, <4>1 DEF TombedOf
      <4> QED
        BY <1>1, <2>1, <3>1, <4>2
    <3>4. CASE row[q] # 0
      <4>1. /\ walk'[k].pc = "tomb" /\ Head(walk'[k].back) = <<q, row[q]>>
            /\ Back(k)' = {<<q, row[q]>>} \cup Back(k)
        BY <2>3, <3>1, <3>4, ReadRowsGoes DEF GoesTo
      <4>2. TombedOf(k)'
        BY <3>1, <3>2, <4>1 DEF TombedOf
      <4> QED
        BY <1>1, <2>1, <3>1, <4>2
    <3> QED
      BY <3>3, <3>4
  <2>4. CASE ~TombParent(k) /\ ~ReadRows(k)
    <3>1. walk[k].pc # "tomb" /\ tombs' = tombs
      BY <1>2, <2>4 DEF Moves, SetFlag, SetLinks, ReadChildren, TrashChild, ReadParent, GoBack,
                        rows, InsertRow, RemoveParent, RemoveRow
    <3>2. Back(k)' \subseteq Back(k)
      <4>1. SetFlag(k) => SameBack(k)
        BY SetFlagGoes
      <4>2. SetLinks(k) => SameBack(k)
        BY SetLinksGoes
      <4>3. ReadChildren(k) => SameBack(k)
        BY ReadChildrenGoes
      <4>4. TrashChild(k) => SameBack(k)
        BY TrashChildGoes
      <4>5. ReadParent(k) => SameBack(k)
        BY ReadParentGoes
      <4>6. GoBack(k) => Back(k)' \subseteq Back(k)
        BY GoBackGoes
      <4> QED
        BY <1>2, <2>4, <4>1, <4>2, <4>3, <4>4, <4>5, <4>6 DEF Moves, SameBack
    <3>3. TombedOf(k)'
      BY <3>1, <3>2 DEF TombedFirst, TombedOf
    <3> QED
      BY <1>1, <2>1, <3>1, <3>3
  <2> QED
    BY <2>2, <2>3, <2>4
<1>3. ASSUME NEW k \in Request, Stops(k) PROVE TombedFirst'
  <2>1. GoesTo(k, "over", None) /\ Back(k)' = {} /\ tombs' = tombs
    BY <1>3, StopsGo DEF rows
  <2>2. TombedOf(k)'
    BY <2>1 DEF TombedOf
  <2> QED
    BY <1>1, <2>1, <2>2 DEF GoesTo
<1>4. CASE StartWalk
  <2>1. PICK k \in Request : k = Head(queue)
    BY <1>4, StartsOne
  <2>2. /\ Back(k)' = {} /\ tombs' = tombs
        /\ \A j \in Request : j # k => walk'[j] = walk[j] /\ Back(j)' = Back(j)
    BY <1>4, <2>1, StartGoes DEF rows, GoesTo
  <2>3. TombedOf(k)'
    BY <2>2 DEF TombedOf
  <2> QED
    BY <1>1, <2>2, <2>3
<1>5. CASE Crash
  <2>1. tombs' = tombs /\ \A j \in Request :
          /\ j \notin Active => walk'[j] = walk[j] /\ Back(j)' = Back(j)
          /\ j \in Active => Back(j)' = {}
    BY <1>5, CrashGoes DEF rows
  <2> QED
    BY <2>1 DEF TombedFirst, TombedOf
<1>6. ASSUME NEW k \in Request,
             \/ QueueJob(k)
             \/ \E f \in Folder : \/ SaveTrash(k, f)
                                  \/ \E kind \in {"recover", "purge"} : FindTrash(k, kind, f)
             \/ RemoveTrash(k) \/ QueueFails(k) \/ SaveTomb(k) \/ TombFails(k)
      PROVE  TombedFirst'
  <2>1. UNCHANGED walk
    BY <1>6, MadeGoes DEF QueueJob
  <2>2. tombs \subseteq tombs'
    <3>1. ASSUME NEW f \in Folder, SaveTrash(k, f) PROVE tombs' = tombs
      BY <3>1, SaveTrashGoes DEF InsertRow, rows
    <3> QED
      BY <1>6, <3>1
      DEF QueueJob, FindTrash, RemoveTrash, QueueFails, SaveTomb, TombFails, AddTomb, RemoveRow,
          rows
  <2>3. \A j \in Request : Back(j)' = Back(j)
    BY <2>1 DEF Back
  <2> QED
    BY <2>1, <2>2, <2>3 DEF TombedFirst, TombedOf
<1>7. CASE UNCHANGED vars
  BY <1>7 DEF vars, rows, TombedFirst, TombedOf, Back
<1> QED
  BY <1>2, <1>3, <1>4, <1>5, <1>6, <1>7 DEF Next, RequestStep, WalkStep, Moves, Stops

\* An id of which nothing is lost fits as before.
LEMMA FitsAsBefore ==
  ASSUME TombsFit, NEW id \in 1..lastId, id \notin untold,
         Removed(id)' <=> Removed(id), id \in tombs' <=> id \in tombs,
         TombComes(id) => TombComes(id)', RowGoes(id) => RowGoes(id)'
  PROVE  FitsAt(id)'
  BY DEF TombsFit, FitsAt

LEMMA TombComesStill ==
  ASSUME NEW id \in Nat, NEW k \in Request, \A j \in Request : j # k => req'[j] = req[j],
         ~(~Trashing(k) /\ req[k].pc \in {"queue", "tomb"} /\ req[k].id = id), TombComes(id)
  PROVE  TombComes(id)'
<1>1. PICK j \in Request : ~Trashing(j) /\ req[j].pc \in {"queue", "tomb"} /\ req[j].id = id
  BY DEF TombComes
<1>2. j # k /\ req'[j] = req[j]
  BY <1>1
<1> QED
  BY <1>1, <1>2 DEF TombComes, Trashing

LEMMA FitStep ==
  ASSUME TypeOK, Shape, JobsOnce, IdsInOrder, TombedFirst, TombsFit, [Next]_vars
  PROVE  TombsFit'
<1>0. RowsStay /\ lastId \in Nat /\ \A id \in 1..lastId : id \in Nat /\ id # 0
  BY RowsStep DEF TypeOK
<1>a. untold \subseteq untold'
  BY DEF Next, RequestStep, WalkStep, SaveTrash, FindTrash, RemoveTrash, QueueJob, QueueFails,
         SaveTomb, TombFails, StartWalk, SetFlag, SetLinks, ReadChildren, TrashChild, ReadParent,
         ReadRows, TombParent, GoBack, EndWalk, GiveUp, ChildHasRow, WalkFails, Crash, history, vars
\* The rows stay as they are, and the ids that are lost are told.
<1>1. ASSUME UNCHANGED rows, \A id \in (1..lastId) \ untold' : TombComes(id) => TombComes(id)',
             \A id \in (1..lastId) \ untold' : RowGoes(id) => RowGoes(id)'
      PROVE  TombsFit'
  <2>1. ASSUME NEW id \in (1..lastId) \ untold' PROVE FitsAt(id)'
    <3>1. (Removed(id)' <=> Removed(id)) /\ (id \in tombs' <=> id \in tombs)
      BY <1>1 DEF rows, Removed
    <3>2. id \in 1..lastId /\ id \notin untold
      BY <1>a
    <3> QED
      BY <1>1, <3>1, <3>2, FitsAsBefore
  <2>2. lastId' = lastId
    BY <1>1 DEF rows
  <2> QED
    BY <2>1, <2>2 DEF TombsFit
<1>2. ASSUME UNCHANGED req PROVE \A id \in 1..lastId : TombComes(id) => TombComes(id)'
  BY <1>2 DEF TombComes, Trashing
<1>3. ASSUME \A k \in Request : Back(k) \subseteq Back(k)'
      PROVE  \A id \in 1..lastId : RowGoes(id) => RowGoes(id)'
  BY <1>3 DEF RowGoes
\* A row is inserted, and nothing is lost.
<1>4. ASSUME NEW f \in Folder, row[f] = 0, InsertRow(f), UNCHANGED untold,
             \A id \in 1..lastId : TombComes(id) => TombComes(id)',
             \A id \in 1..lastId : RowGoes(id) => RowGoes(id)'
      PROVE  TombsFit'
  <2>1. /\ lastId' = lastId + 1 /\ row'[f] = lastId + 1 /\ tombs' = tombs
        /\ \A g \in Folder : g # f => row'[g] = row[g]
    BY <1>4, InsertRowDoes
  <2>2. ASSUME NEW id \in (1..lastId') \ untold' PROVE FitsAt(id)'
    <3>1. CASE id = lastId + 1
      <4>1. ~Removed(id)' /\ id \notin tombs'
        BY <1>0, <2>1, <3>1 DEF Removed, TypeOK
      <4> QED
        BY <4>1 DEF FitsAt
    <3>2. CASE id # lastId + 1
      <4>1. id \in 1..lastId
        BY <1>0, <2>1, <2>2, <3>2
      <4>2. Removed(id)' <=> Removed(id)
        BY <1>0, <1>4, <2>1, <3>2, <4>1 DEF Removed
      <4> QED
        BY <1>4, <2>1, <2>2, <4>1, <4>2, FitsAsBefore
    <3> QED
      BY <3>1, <3>2
  <2> QED
    BY <2>2 DEF TombsFit
<1>5. ASSUME NEW k \in Request, Moves(k) PROVE TombsFit'
  <2>1. /\ k \in Active /\ UNCHANGED <<req, untold>>
        /\ \A j \in Request : j # k => Back(j)' = Back(j)
    BY <1>5, MovesGo
  <2>2. \A id \in 1..lastId : TombComes(id) => TombComes(id)'
    BY <1>2, <2>1
  <2>3. CASE SetFlag(k)
    BY <1>1, <1>3, <2>1, <2>2, <2>3, SetFlagGoes DEF SetFlag, SameBack
  <2>4. CASE SetLinks(k)
    BY <1>1, <1>3, <2>1, <2>2, <2>4, SetLinksGoes DEF SetLinks, SameBack
  <2>5. CASE ReadChildren(k)
    BY <1>1, <1>3, <2>1, <2>2, <2>5, ReadChildrenGoes DEF ReadChildren, SameBack
  <2>6. CASE TrashChild(k)
    <3>1. /\ Head(walk[k].todo) \in Folder /\ row[Head(walk[k].todo)] = 0
          /\ InsertRow(Head(walk[k].todo)) /\ SameBack(k)
      BY <2>6, TrashChildGoes DEF TrashChild
    <3> QED
      BY <1>3, <1>4, <2>1, <2>2, <3>1 DEF SameBack
  <2>7. CASE ReadParent(k)
    BY <1>1, <1>3, <2>1, <2>2, <2>7, ReadParentGoes DEF ReadParent, SameBack
  <2>8. CASE ReadRows(k)
    <3>1. Parent[walk[k].at] # None /\ UNCHANGED rows
      BY <2>8 DEF ReadRows, Shape, ShapeOf
    <3>2. Back(k) \subseteq Back(k)'
      BY <2>8, <3>1, ReadRowsGoes DEF SameBack
    <3> QED
      BY <1>1, <1>3, <2>1, <2>2, <3>1, <3>2
  <2>9. CASE TombParent(k)
    <3>1. walk[k].back # <<>>
      BY <2>9 DEF TombParent, Shape, ShapeOf
    <3>2. Head(walk[k].back) \in Back(k) /\ SameBack(k)
      BY <2>9, <3>1, TombParentGoes
    <3>3. tombs' = tombs \cup {Head(walk[k].back)[2]} /\ row' = row /\ lastId' = lastId
      BY <2>9 DEF TombParent, AddTomb
    <3>4. ASSUME NEW id \in (1..lastId) \ untold PROVE FitsAt(id)'
      <4>1. (Removed(id)' <=> Removed(id)) /\ (RowGoes(id) => RowGoes(id)')
        BY <1>3, <2>1, <3>2, <3>3 DEF Removed, SameBack
      <4>2. CASE id = Head(walk[k].back)[2]
        <5>1. RowGoes(id)'
          BY <3>2, <4>2 DEF RowGoes, SameBack
        <5>2. id \in tombs'
          BY <3>3, <4>2
        <5> QED
          BY <5>1, <5>2 DEF FitsAt
      <4>3. CASE id # Head(walk[k].back)[2]
        BY <2>2, <3>3, <4>1, <4>3, FitsAsBefore
      <4> QED
        BY <4>2, <4>3
    <3> QED
      BY <2>1, <3>3, <3>4 DEF TombsFit
  <2>10. CASE GoBack(k)
    <3>1. PICK f \in Folder, n \in 1..lastId :
            /\ <<f, n>> \in Back(k) /\ Back(k) = {<<f, n>>} \cup Back(k)'
            /\ RemoveRow(f, n) /\ IsRowOf(n, f) /\ n \in tombs
      <4> DEFINE h == Head(walk[k].back)
      <4>1. /\ h \in Folder \X Nat /\ h \in Back(k) /\ Back(k) = {h} \cup Back(k)'
            /\ h = <<h[1], h[2]>> /\ walk[k].pc = "back" /\ RemoveRow(h[1], h[2])
        BY <2>10, GoBackGoes DEF GoBack, RemoveParent
      <4>2. h[1] \in Folder /\ h[2] \in 1..lastId /\ IsRowOf(h[2], h[1]) /\ h[2] \in tombs
        BY <4>1 DEF IdsInOrder, IdsOfWalk, TombedFirst, TombedOf
      <4> HIDE DEF h
      <4> QED
        BY <4>1, <4>2
    <3>2. /\ lastId' = lastId /\ tombs' = tombs /\ Removed(n)'
          /\ \A m \in 1..lastId : m # n => (Removed(m)' <=> Removed(m))
      BY <3>1, RemoveRowDoes
    <3>3. ASSUME NEW id \in (1..lastId) \ untold PROVE FitsAt(id)'
      <4>1. CASE id = n
        BY <3>1, <3>2, <4>1 DEF FitsAt
      <4>2. CASE id # n
        <5>1. RowGoes(id) => RowGoes(id)'
          <6>1. SUFFICES ASSUME NEW j \in Request, NEW b \in Back(j), b[2] = id PROVE RowGoes(id)'
            BY DEF RowGoes
          <6>2. b \in Back(j)'
            BY <2>1, <3>1, <4>2, <6>1
          <6> QED
            BY <6>1, <6>2 DEF RowGoes
        <5> QED
          BY <2>2, <3>2, <4>2, <5>1, FitsAsBefore
      <4> QED
        BY <4>1, <4>2
    <3> QED
      BY <2>1, <3>2, <3>3 DEF TombsFit
  <2> QED
    BY <1>5, <2>3, <2>4, <2>5, <2>6, <2>7, <2>8, <2>9, <2>10 DEF Moves
<1>6. ASSUME NEW k \in Request, Stops(k) PROVE TombsFit'
  <2>1. /\ UNCHANGED <<rows, req>> /\ k \in Active
        /\ \A j \in Request : j # k => Back(j)' = Back(j)
    BY <1>6, StopsGo DEF GoesTo
  <2>2. \A b \in Back(k) : b[2] \in untold'
    <3>1. CASE EndWalk(k)
      <4>1. Back(k) = {}
        BY <3>1, TypeOfWalks DEF EndWalk, WalkTypes
      <4> QED
        BY <4>1
    <3>2. CASE ~EndWalk(k)
      <4>1. GiveUp({k}) /\ {k} \subseteq Active
        BY <1>6, <2>1, <3>2 DEF Stops, ChildHasRow, WalkFails
      <4> QED
        BY <4>1, GiveUpTypes
    <3> QED
      BY <3>1, <3>2
  <2>3. \A id \in (1..lastId) \ untold' : RowGoes(id) => RowGoes(id)'
    BY <2>1, <2>2 DEF RowGoes
  <2> QED
    BY <1>1, <1>2, <2>1, <2>3
<1>7. CASE StartWalk
  <2>1. PICK k \in Request : k = Head(queue)
    BY <1>7, StartsOne
  <2>2. /\ UNCHANGED <<rows, req, untold>> /\ Back(k)' = {}
        /\ \A j \in Request : j # k => Back(j)' = Back(j)
    BY <1>7, <2>1, StartGoes DEF GoesTo
  <2>3. Back(k) = {}
    <3>1. k \notin Active
      BY <1>7, <2>1, StartActive
    <3> QED
      BY <3>1, TypeOfWalks DEF Shape, ShapeOf, WalkTypes
  <2> QED
    BY <1>1, <1>2, <1>3, <2>2, <2>3
<1>8. CASE Crash
  <2>1. /\ UNCHANGED <<rows, req>> /\ GiveUp(Active)
        /\ \A j \in Request : j \notin Active => Back(j)' = Back(j)
    BY <1>8, CrashGoes DEF Crash
  <2>2. \A k \in Active : \A b \in Back(k) : b[2] \in untold'
    BY <2>1, GiveUpTypes
  <2>3. \A id \in (1..lastId) \ untold' : RowGoes(id) => RowGoes(id)'
    BY <2>1, <2>2 DEF RowGoes
  <2> QED
    BY <1>1, <1>2, <2>1, <2>3
\* The steps of a request leave the walks alone.
<1>9. ASSUME UNCHANGED walk PROVE \A id \in 1..lastId : RowGoes(id) => RowGoes(id)'
  BY <1>3, <1>9 DEF Back
<1>10. ASSUME NEW k \in Request, req[k].pc \notin {"queue", "tomb"},
              \A j \in Request : j # k => req'[j] = req[j]
       PROVE  \A id \in 1..lastId : TombComes(id) => TombComes(id)'
  BY <1>0, <1>10, TombComesStill
<1>11. ASSUME NEW k \in Request, NEW f \in Folder, SaveTrash(k, f) PROVE TombsFit'
  <2>1. /\ req[k].pc = "new" /\ \A j \in Request : j # k => req'[j] = req[j]
        /\ UNCHANGED <<walk, untold>>
        /\ (row[f] = 0 /\ InsertRow(f)) \/ UNCHANGED rows
    BY <1>11, SaveTrashGoes
  <2>2. \A j \in Request : j # k => req'[j] = req[j]
    BY <1>11, SaveTrashGoes
  <2>3. req[k].pc = "new" /\ UNCHANGED <<walk, untold>>
    BY <1>11, SaveTrashGoes
  <2>4. (row[f] = 0 /\ InsertRow(f)) \/ UNCHANGED rows
    BY <1>11, SaveTrashGoes
  <2> QED
    BY <1>1, <1>4, <1>9, <1>10, <2>2, <2>3, <2>4
<1>12. ASSUME NEW k \in Request, NEW f \in Folder, NEW kind \in {"recover", "purge"},
              FindTrash(k, kind, f)
       PROVE  TombsFit'
  BY <1>1, <1>9, <1>10, <1>12, FindTrashGoes
<1>13. ASSUME NEW k \in Request, RemoveTrash(k) PROVE TombsFit'
  <2> DEFINE f == req[k].of
             n == req[k].id
  <2>1. /\ req[k].pc = "remove" /\ ReqGoes(k, "queue") /\ f \in Folder /\ RemoveRow(f, n)
        /\ UNCHANGED <<walk, untold>>
    BY <1>13, RemoveTrashGoes DEF RemoveTrash
  <2>2. n \in 1..lastId /\ ~Trashing(k) /\ IsRowOf(n, f)
    BY <2>1 DEF IdsInOrder, IdsOfRequest
  <2>3. req'[k].pc = "queue" /\ req'[k].id = n /\ req'[k].kind = req[k].kind
    BY <2>1 DEF ReqGoes
  <2>4. \E j \in Request : /\ req'[j].kind # "trash" /\ req'[j].pc \in {"queue", "tomb"}
                           /\ req'[j].id = n
    BY <2>2, <2>3 DEF Trashing
  <2>5. \A id \in 1..lastId : TombComes(id) => TombComes(id)'
    BY <1>10, <2>1 DEF ReqGoes
  <2>6. /\ lastId' = lastId /\ tombs' = tombs
        /\ \A m \in 1..lastId : m # n => (Removed(m)' <=> Removed(m))
    BY <2>1, <2>2, RemoveRowDoes
  <2>7. ASSUME NEW id \in (1..lastId) \ untold PROVE FitsAt(id)'
    <3>1. CASE id = n
      <4>1. TombComes(id)'
        BY <2>4, <3>1 DEF TombComes, Trashing
      <4>2. id \in tombs' => Removed(id)' \/ RowGoes(id)'
        <5>1. id \in tombs' => Removed(id) \/ RowGoes(id)
          BY <2>6, <2>7 DEF TombsFit, FitsAt
        <5>2. Removed(id) => Removed(id)'
          BY <1>0 DEF RowsStay
        <5> QED
          BY <1>9, <2>1, <5>1, <5>2
      <4> QED
        BY <4>1, <4>2 DEF FitsAt
    <3>2. CASE id # n
      BY <1>9, <2>1, <2>5, <2>6, <3>2, FitsAsBefore
    <3> QED
      BY <3>1, <3>2
  <2> QED
    BY <2>1, <2>6, <2>7 DEF TombsFit
<1>14. ASSUME NEW k \in Request, QueueJob(k) PROVE TombsFit'
  <2>1. /\ req[k].pc = "queue" /\ ReqGoes(k, AfterQueue(k))
        /\ UNCHANGED <<walk, rows>>
    BY <1>14, QueueJobGoes DEF QueueJob
  <2>2. \A id \in 1..lastId : TombComes(id) => TombComes(id)'
    <3>1. SUFFICES ASSUME NEW id \in 1..lastId, NEW j \in Request, ~Trashing(j),
                          req[j].pc \in {"queue", "tomb"}, req[j].id = id
                   PROVE  TombComes(id)'
      BY DEF TombComes
    <3>2. req'[j].kind = req[j].kind /\ req'[j].id = id /\ req'[j].pc \in {"queue", "tomb"}
      BY <2>1, <3>1 DEF ReqGoes, AfterQueue, Trashing
    <3> QED
      BY <3>1, <3>2 DEF TombComes, Trashing
  <2> QED
    BY <1>1, <1>9, <2>1, <2>2
<1>15. ASSUME NEW k \in Request, QueueFails(k) PROVE TombsFit'
  <2> DEFINE p == IF serial THEN AfterQueue(k) ELSE "failed"
  <2>1. req[k].pc = "queue" /\ ReqGoes(k, p)
    BY <1>15, QueueFailsGoes
  <2>2. ~Trashing(k) => p = "tomb" \/ req[k].id \in untold'
    BY <1>15 DEF QueueFails, AfterQueue, Trashing
  <2>3. UNCHANGED <<walk, rows>>
    BY <1>15 DEF QueueFails
  <2> HIDE DEF p
  <2>4. ASSUME NEW id \in (1..lastId) \ untold', TombComes(id) PROVE TombComes(id)'
    <3>1. PICK j \in Request : ~Trashing(j) /\ req[j].pc \in {"queue", "tomb"} /\ req[j].id = id
      BY <2>4 DEF TombComes
    <3>2. req'[j].kind = req[j].kind /\ req'[j].id = id /\ req'[j].pc \in {"queue", "tomb"}
      BY <2>1, <2>2, <2>4, <3>1 DEF ReqGoes
    <3> QED
      BY <3>1, <3>2 DEF TombComes, Trashing
  <2> QED
    BY <1>1, <1>9, <2>3, <2>4
<1>16. ASSUME NEW k \in Request, SaveTomb(k) PROVE TombsFit'
  <2> DEFINE n == req[k].id
  <2>1. /\ req[k].pc = "tomb" /\ \A j \in Request : j # k => req'[j] = req[j]
        /\ UNCHANGED <<walk, untold, row, lastId>> /\ tombs' = tombs \cup {n}
    BY <1>16, SaveTombGoes DEF SaveTomb, ReqGoes, AddTomb, history
  <2>2. n \in 1..lastId /\ Removed(n)
    BY <2>1 DEF IdsInOrder, IdsOfRequest
  <2>3. ASSUME NEW id \in (1..lastId) \ untold PROVE FitsAt(id)'
    <3>1. Removed(id)' <=> Removed(id)
      BY <2>1 DEF Removed
    <3>2. CASE id = n
      BY <2>1, <2>2, <3>1, <3>2 DEF FitsAt
    <3>3. CASE id # n
      <4>1. TombComes(id) => TombComes(id)'
        BY <1>0, <2>1, <3>3, TombComesStill
      <4>2. id \in tombs' <=> id \in tombs
        BY <2>1, <3>3
      <4>3. RowGoes(id) => RowGoes(id)'
        BY <1>9, <2>1
      <4> QED
        BY <3>1, <4>1, <4>2, <4>3, FitsAsBefore
    <3> QED
      BY <3>2, <3>3
  <2> QED
    BY <2>1, <2>3 DEF TombsFit
<1>17. ASSUME NEW k \in Request, TombFails(k) PROVE TombsFit'
  <2>1. /\ req[k].pc = "tomb" /\ \A j \in Request : j # k => req'[j] = req[j]
        /\ UNCHANGED <<walk, rows>> /\ untold' = untold \cup {req[k].id}
    BY <1>17, TombFailsGoes DEF TombFails, ReqGoes
  <2>2. \A id \in (1..lastId) \ untold' : TombComes(id) => TombComes(id)'
    BY <1>0, <2>1, TombComesStill
  <2> QED
    BY <1>1, <1>9, <2>1, <2>2
<1>18. CASE UNCHANGED vars
  BY <1>1, <1>2, <1>9, <1>18 DEF vars
<1> QED
  BY <1>5, <1>6, <1>7, <1>8, <1>11, <1>12, <1>13, <1>14, <1>15, <1>16, <1>17, <1>18
  DEF Next, RequestStep, WalkStep, Moves, Stops

-----------------------------------------------------------------------------
(* Theorems *)

\* All of it at once, for the theorems below.
TombInv == TypeOK /\ Shape /\ JobsOnce /\ IdsInOrder /\ TombedFirst /\ TombsFit

LEMMA InitTombInv ==
  ASSUME Init
  PROVE  TombInv
<1>0. PICK S \in SUBSET Folder :
        /\ flag  = [f \in Folder |-> f \in S] /\ links = flag /\ lastId = Cardinality(S)
        /\ row \in [Folder -> 0..lastId]
        /\ \A f \in Folder : row[f] # 0 <=> f \in S
        /\ \A f, g \in S : row[f] = row[g] => f = g
  BY DEF Init
<1>1. lastId \in Nat
  <2>1. IsFiniteSet(S)
    BY FolderAssumption, FS_Subset
  <2> QED
    BY <1>0, <2>1, FS_CardinalityType
<1>2. /\ serial \in BOOLEAN /\ tombs = {} /\ req = [k \in Request |-> NoRequest] /\ queue = <<>>
      /\ walk = [k \in Request |-> NoWalk] /\ faults = 0 /\ met = {}
      /\ touched = [k \in Request |-> {}] /\ purged = {} /\ crossed = {} /\ broken = {}
      /\ unwalked = {} /\ untold = {}
  BY DEF Init
<1>3. /\ <<>> \in Seq(Folder) /\ <<>> \in Seq(Folder \X Nat) /\ <<>> \in Seq(Request)
      /\ ToSet(<<>>) = {} /\ Len(<<>>) = 0
  BY EmptySeq DEF ToSet
<1>4. NoWalk \in WalkType /\ NoWalk.pc = "none" /\ NoWalk.todo = <<>> /\ NoWalk.back = <<>>
  BY <1>3 DEF NoWalk, WalkType
<1>5. NoRequest \in ReqType /\ NoRequest.pc = "new"
  BY DEF NoRequest, ReqType, Kind
<1>6. \A k \in Request : /\ walk[k].pc = "none" /\ walk[k].todo = <<>> /\ walk[k].back = <<>>
                         /\ req[k].pc = "new" /\ Back(k) = {}
  BY <1>2, <1>3, <1>4, <1>5 DEF Back
<1>7. Active = {}
  BY <1>6 DEF Active
<1>8. TypeOK
  <2>1. \A f, g \in Folder : f # g => row[f] # row[g] \/ row[f] = 0
    BY <1>0
  <2>2. flag \in [Folder -> BOOLEAN] /\ links \in [Folder -> BOOLEAN]
    BY <1>0
  <2>3. req \in [Request -> ReqType] /\ walk \in [Request -> WalkType]
    BY <1>2, <1>4, <1>5
  <2>4. touched \in [Request -> SUBSET Folder] /\ faults \in 0..MaxFaults
    BY <1>2, BoundAssumption
  <2> QED
    BY <1>0, <1>1, <1>2, <1>3, <1>6, <2>1, <2>2, <2>3, <2>4 DEF TypeOK
<1>9. Shape
  BY <1>6, <1>7 DEF Shape, ShapeOf
<1>10. JobsOnce
  BY <1>2, <1>3, <1>7 DEF JobsOnce
<1>11. IdsInOrder /\ TombedFirst
  BY <1>6 DEF IdsInOrder, IdsOfRequest, IdsOfWalk, TombedFirst, TombedOf
<1>12. TombsFit
  <2>1. SUFFICES ASSUME NEW id \in 1..lastId PROVE ~Removed(id)
    BY <1>2 DEF TombsFit, FitsAt
  <2>2. \E f \in S : row[f] = id
    <3> DEFINE r == [f \in S |-> row[f]]
    <3>1. IsFiniteSet(S) /\ Cardinality(S) = lastId
      BY <1>0, FolderAssumption, FS_Subset
    <3>2. r \in Injection(S, 1..lastId)
      <4>1. \A f \in S : row[f] \in 1..lastId
        BY <1>0, <1>1
      <4> QED
        BY <1>0, <4>1 DEF Injection, IsInjective
    <3>3. IsFiniteSet(1..lastId) /\ Cardinality(1..lastId) = lastId
      BY <1>1, FS_Interval
    <3>4. r \in Surjection(S, 1..lastId)
      BY <3>1, <3>2, <3>3, FS_Injection
    <3> QED
      BY <2>1, <3>4 DEF Surjection
  <2> QED
    BY <2>2 DEF Removed
<1> QED
  BY <1>8, <1>9, <1>10, <1>11, <1>12 DEF TombInv

LEMMA TombInvStep ==
  ASSUME TombInv, [Next]_vars
  PROVE  TombInv'
  BY TypeStep, ShapeStep, JobsStep, IdsStep, TombedStep, FitStep DEF TombInv

LEMMA TombInvAlways == Spec => []TombInv
<1>1. Init => TombInv
  BY InitTombInv
<1>2. TombInv /\ [Next]_vars => TombInv'
  BY TombInvStep
<1> QED
  BY <1>1, <1>2, PTL DEF Spec

\* The values of every variable are those it is meant for, and no two folders have one row,
\* whatever the requests, walks and failures: TypeOK always holds.
THEOREM TypeCorrect == Spec => []TypeOK
<1>1. TombInv => TypeOK
  BY DEF TombInv
<1> QED
  BY <1>1, TombInvAlways, PTL

\* When all is done, the rows that are gone are those with a tombstone (but for what a failure
\* left half done), however requests, walks and failures interleave.
THEOREM TombsAlwaysGone == Spec => []TombsAreGone
<1>1. TombInv => TombsAreGone
  <2>1. SUFFICES ASSUME TombInv, Quiet, NEW id \in (1..lastId) \ untold
                 PROVE  id \in tombs <=> Removed(id)
    BY DEF TombsAreGone, Removed
  <2>2. ~TombComes(id)
    BY <2>1 DEF Quiet, TombComes
  <2>3. \A k \in Request : Back(k) = {}
    <3>1. SUFFICES ASSUME NEW k \in Request PROVE Back(k) = {}
      OBVIOUS
    <3>2. k \notin Active
      BY <2>1 DEF Quiet
    <3> QED
      BY <2>1, <3>2, TypeOfWalks DEF TombInv, Shape, ShapeOf, WalkTypes
  <2>4. ~RowGoes(id)
    BY <2>3 DEF RowGoes
  <2> QED
    BY <2>1, <2>2, <2>4 DEF TombInv, TombsFit, FitsAt
<1> QED
  BY <1>1, TombInvAlways, PTL

-----------------------------------------------------------------------------
(* Who changes the flag of a folder *)

\* The walk of k is about to set the flag of f, or sets its links next.
Commits(k, f) == \/ walk[k].pc = "flag" /\ walk[k].at = f
                 \/ walk[k].pc = "tomb" /\ Head(walk[k].back)[1] = f
LinksAt(k, f) == walk[k].pc = "links" /\ walk[k].at = f

\* The walk of k has still to do with the flag, the links or the row of f.
Holds(k, f) == \/ walk[k].pc \in {"flag", "links"} /\ walk[k].at = f
               \/ \E b \in Back(k) : b[1] = f

\* The walk of k has set the flag of f or is about to.
Marks(k, f) == f \in touched[k] \/ Commits(k, f)

Racing(f) == \E P \in met : \A k \in P : Marks(k, f)

\* Nothing that the properties allow for has happened to f.
Calm(f) == f \notin purged \cup crossed \cup broken /\ ~Racing(f)

\* A walk has set, or is about to set, the flag of the folder of its request, and those of
\* all the folders it holds.
MarksAll == \A k \in Active : \A f \in Folder : Holds(k, f) \/ req[k].of = f => Marks(k, f)

PurgesTold == \A k \in Request :
  req[k].kind = "purge" /\ req[k].pc \in {"queue", "tomb", "done"} => req[k].of \in purged

LEMMA CommitsHolds ==
  ASSUME TypeOK, Shape, NEW k \in Request, NEW f \in Folder, Commits(k, f)
  PROVE  k \in Active /\ Holds(k, f)
<1>1. k \in Active
  BY DEF Commits, Active
<1>2. CASE walk[k].pc = "flag"
  BY <1>1, <1>2 DEF Commits, Holds
<1>3. CASE walk[k].pc = "tomb"
  <2>1. walk[k].back # <<>> /\ walk[k].back \in Seq(Folder \X Nat)
    BY <1>3, TypeOfWalks DEF Shape, ShapeOf, WalkTypes
  <2>2. Head(walk[k].back) \in Back(k)
    BY <2>1, InTail DEF Back
  <2> QED
    BY <1>1, <1>3, <2>2 DEF Commits, Holds
<1> QED
  BY <1>2, <1>3 DEF Commits

LEMMA SameHold ==
  ASSUME NEW k \in Request, NEW f \in Folder, walk'[k] = walk[k]
  PROVE  /\ Holds(k, f)' <=> Holds(k, f)
         /\ Commits(k, f)' <=> Commits(k, f)
         /\ LinksAt(k, f)' <=> LinksAt(k, f)
         /\ Back(k)' = Back(k)
  BY DEF Holds, Commits, LinksAt, Back

\* A walk that is given up leaves what it holds half done.
LEMMA HoldsBreak ==
  ASSUME TypeOK, NEW S, S \subseteq Active, GiveUp(S), NEW k \in S, NEW f \in Folder, Holds(k, f)
  PROVE  f \in broken'
<1>1. broken' = broken \cup UNION {HalfDone(j) : j \in S}
  BY DEF GiveUp
<1>2. f \in HalfDone(k)
  BY DEF HalfDone, Holds, Back
<1> QED
  BY <1>1, <1>2

LEMMA TouchedGrows ==
  ASSUME TypeOK, [Next]_vars
  PROVE  \A k \in Request : touched[k] \subseteq touched'[k]
<1>1. CASE UNCHANGED touched
  BY <1>1
<1>2. ASSUME NEW k \in Request, SetFlag(k)
      PROVE  \A j \in Request : touched[j] \subseteq touched'[j]
  <2>1. /\ touched' = [touched EXCEPT ![k] = touched[k] \cup {walk[k].at}]
        /\ touched \in [Request -> SUBSET Folder]
    BY <1>2 DEF SetFlag, TypeOK
  <2> QED
    BY <2>1
<1> QED
  BY <1>1, <1>2
  DEF Next, RequestStep, WalkStep, SaveTrash, FindTrash, RemoveTrash, QueueJob, QueueFails,
      SaveTomb, TombFails, StartWalk, SetLinks, ReadChildren, TrashChild, ReadParent, ReadRows,
      TombParent, GoBack, EndWalk, ChildHasRow, WalkFails, Crash, history, vars

LEMMA MarksStay ==
  ASSUME TypeOK, Shape, JobsOnce, [Next]_vars, NEW k \in Request, NEW f \in Folder,
         Marks(k, f)
  PROVE  Marks(k, f)' \/ (k \notin Active' /\ f \in broken')
<1>0. touched[k] \subseteq touched'[k]
  BY TouchedGrows
<1>1. SUFFICES ASSUME Commits(k, f) PROVE Marks(k, f)' \/ (k \notin Active' /\ f \in broken')
  BY <1>0 DEF Marks
<1>2. k \in Active /\ Holds(k, f)
  BY <1>1, CommitsHolds
<1>3. CASE walk'[k] = walk[k]
  BY <1>1, <1>3, SameHold DEF Marks
<1>4. CASE SetFlag(k)
  <2>1. walk[k].at = f
    BY <1>1, <1>4 DEF Commits, SetFlag
  <2>2. /\ touched' = [touched EXCEPT ![k] = touched[k] \cup {f}]
        /\ touched \in [Request -> SUBSET Folder]
    BY <1>4, <2>1 DEF SetFlag, TypeOK
  <2> QED
    BY <2>2 DEF Marks
<1>5. CASE TombParent(k)
  <2>1. walk[k].pc = "tomb" /\ walk[k].back # <<>>
    BY <1>5 DEF TombParent, Shape, ShapeOf
  <2>2. GoesTo(k, "flag", Head(walk[k].back)[1])
    BY <1>5, <2>1, TombParentGoes
  <2> QED
    BY <1>1, <2>1, <2>2 DEF Marks, Commits, GoesTo
<1>6. CASE Crash
  <2>1. GiveUp(Active)
    BY <1>6 DEF Crash
  <2>2. Active' = {}
    BY <1>6, CrashGoes
  <2> QED
    BY <1>2, <2>1, <2>2, HoldsBreak
<1>7. CASE WalkFails(k)
  <2>1. GiveUp({k}) /\ {k} \subseteq Active
    BY <1>2, <1>7 DEF WalkFails
  <2>2. k \notin Active'
    BY <1>7, StopsGo DEF Stops
  <2> QED
    BY <1>2, <2>1, <2>2, HoldsBreak
<1>8. walk'[k] = walk[k] \/ SetFlag(k) \/ TombParent(k) \/ Crash \/ WalkFails(k)
  <2>1. walk[k].pc \in {"flag", "tomb"}
    BY <1>1 DEF Commits
  <2>2. ASSUME NEW j \in Request, Moves(j) \/ Stops(j), j # k PROVE walk'[k] = walk[k]
    BY <2>2, MovesGo, StopsGo DEF GoesTo
  <2>3. Moves(k) => SetFlag(k) \/ TombParent(k)
    BY <2>1 DEF Moves, SetLinks, ReadChildren, TrashChild, ReadParent, ReadRows, GoBack
  <2>4. Stops(k) => WalkFails(k)
    BY <2>1 DEF Stops, EndWalk, ChildHasRow
  <2>5. CASE StartWalk
    <3>1. PICK j \in Request : j = Head(queue)
      BY <2>5, StartsOne
    <3>2. j \notin Active
      BY <2>5, <3>1, StartActive
    <3>3. \A i \in Request : i # j => walk'[i] = walk[i]
      BY <2>5, <3>1, StartGoes DEF GoesTo
    <3> QED
      BY <1>2, <3>2, <3>3
  <2>6. ASSUME NEW j \in Request,
               \/ QueueJob(j)
               \/ \E g \in Folder : \/ SaveTrash(j, g)
                                    \/ \E kind \in {"recover", "purge"} : FindTrash(j, kind, g)
               \/ RemoveTrash(j) \/ QueueFails(j) \/ SaveTomb(j) \/ TombFails(j)
        PROVE  walk'[k] = walk[k]
    BY <2>6, MadeGoes DEF QueueJob
  <2>7. UNCHANGED vars => walk'[k] = walk[k]
    BY DEF vars
  <2> QED
    BY <2>2, <2>3, <2>4, <2>5, <2>6, <2>7 DEF Next, RequestStep, WalkStep, Moves, Stops
<1> QED
  BY <1>3, <1>4, <1>5, <1>6, <1>7, <1>8

\* What has happened to f is not undone.
LEMMA CalmBefore ==
  ASSUME TypeOK, Shape, JobsOnce, [Next]_vars, NEW f \in Folder, Calm(f)'
  PROVE  Calm(f)
<1>1. /\ purged \subseteq purged' /\ crossed \subseteq crossed'
      /\ broken \subseteq broken' /\ met \subseteq met'
  BY DEF Next, RequestStep, WalkStep, SaveTrash, FindTrash, RemoveTrash, QueueJob, QueueFails,
         SaveTomb, TombFails, StartWalk, SetFlag, SetLinks, ReadChildren, TrashChild, ReadParent,
         ReadRows, TombParent, GoBack, EndWalk, GiveUp, ChildHasRow, WalkFails, Crash, history, vars,
         CrossedIf
<1>2. f \notin purged' \cup crossed' \cup broken' /\ ~Racing(f)'
  BY DEF Calm
<1>3. ASSUME NEW P \in met, \A k \in P : Marks(k, f) PROVE FALSE
  <2>1. P \subseteq Request
    BY DEF TypeOK
  <2>2. \A k \in P : Marks(k, f)'
    BY <1>2, <1>3, <2>1, MarksStay
  <2> QED
    BY <1>1, <1>2, <2>2 DEF Racing
<1> QED
  BY <1>1, <1>2, <1>3 DEF Calm, Racing

\* Two walks that are at work at once do not both set the flag of a folder that stays calm.
LEMMA Alone ==
  ASSUME JobsOnce', NEW f \in Folder, Calm(f)', NEW k \in Active', NEW j \in Active',
         Marks(k, f)', Marks(j, f)'
  PROVE  j = k
<1>1. SUFFICES ASSUME j # k PROVE FALSE
  OBVIOUS
<1>2. {k, j} \in met'
  BY <1>1 DEF JobsOnce
<1>3. \A i \in {k, j} : Marks(i, f)'
  OBVIOUS
<1> QED
  BY <1>2, <1>3 DEF Calm, Racing

\* A walk that goes on marks what it comes to hold.
LEMMA MarksOfMove ==
  ASSUME TypeOK, Shape, JobsOnce, MarksAll, NEW k \in Request, Moves(k), [Next]_vars,
         NEW f \in Folder, Holds(k, f)'
  PROVE  Marks(k, f)'
<1>0. k \in Active /\ k \in Active' /\ walk[k].at \in Folder
  BY MovesGo
<1>1. CASE Holds(k, f)
  <2>1. Marks(k, f)
    BY <1>0, <1>1 DEF MarksAll
  <2> QED
    BY <1>0, <2>1, MarksStay
<1>2. SUFFICES ASSUME ~Holds(k, f) PROVE Commits(k, f)'
  BY <1>1 DEF Marks
<1>3. CASE TrashChild(k)
  <2>1. GoesTo(k, "flag", Head(walk[k].todo)) /\ SameBack(k)
    BY <1>3, TrashChildGoes
  <2> QED
    BY <1>2, <2>1 DEF Holds, Commits, GoesTo, SameBack
<1>4. CASE ReadRows(k)
  <2>1. Parent[walk[k].at] # None
    BY <1>4 DEF ReadRows, Shape, ShapeOf
  <2> DEFINE q == Parent[walk[k].at]
  <2>2. CASE row[q] = 0
    <3>1. GoesTo(k, "back", walk[k].at) /\ SameBack(k)
      BY <1>4, <2>1, <2>2, ReadRowsGoes
    <3> QED
      BY <1>2, <3>1 DEF Holds, GoesTo, SameBack
  <2>3. CASE row[q] # 0
    <3>1. /\ walk'[k].pc = "tomb" /\ Head(walk'[k].back) = <<q, row[q]>>
          /\ Back(k)' = {<<q, row[q]>>} \cup Back(k)
      BY <1>4, <2>1, <2>3, ReadRowsGoes DEF GoesTo
    <3> QED
      BY <1>2, <3>1 DEF Holds, Commits
  <2> QED
    BY <2>2, <2>3
<1>5. CASE TombParent(k)
  <2>1. walk[k].pc = "tomb" /\ walk[k].back # <<>>
    BY <1>5 DEF TombParent, Shape, ShapeOf
  <2>2. GoesTo(k, "flag", Head(walk[k].back)[1]) /\ SameBack(k)
    BY <1>5, <2>1, TombParentGoes
  <2> QED
    BY <1>2, <2>2 DEF Holds, Commits, GoesTo, SameBack
<1>6. CASE SetFlag(k)
  <2>1. GoesTo(k, "links", walk[k].at) /\ SameBack(k) /\ walk[k].pc = "flag"
    BY <1>6, SetFlagGoes
  <2> QED
    BY <1>2, <2>1 DEF Holds, GoesTo, SameBack
<1>7. CASE SetLinks(k)
  <2>1. GoesTo(k, IF Trashing(k) THEN "children" ELSE "parent", walk[k].at) /\ SameBack(k)
    BY <1>7, SetLinksGoes
  <2> QED
    BY <1>2, <2>1 DEF Holds, GoesTo, SameBack
<1>8. CASE ReadChildren(k)
  <2>1. GoesTo(k, "next", walk[k].at) /\ SameBack(k)
    BY <1>8, ReadChildrenGoes
  <2> QED
    BY <1>2, <2>1 DEF Holds, GoesTo, SameBack
<1>9. CASE ReadParent(k)
  <2>1. /\ GoesTo(k, IF TrashedParent(Parent[walk[k].at]) THEN "rows" ELSE "back", walk[k].at)
        /\ SameBack(k)
    BY <1>9, ReadParentGoes
  <2> QED
    BY <1>2, <2>1 DEF Holds, GoesTo, SameBack
<1>10. CASE GoBack(k)
  <2>1. GoesTo(k, "back", walk[k].at) /\ Back(k)' \subseteq Back(k)
    BY <1>10, GoBackGoes
  <2> QED
    BY <1>2, <2>1 DEF Holds, GoesTo
<1> QED
  BY <1>3, <1>4, <1>5, <1>6, <1>7, <1>8, <1>9, <1>10 DEF Moves

LEMMA MarksAllStep ==
  ASSUME TypeOK, Shape, JobsOnce, MarksAll, [Next]_vars
  PROVE  MarksAll'
<1>1. ASSUME NEW k \in Request, NEW f \in Folder, k \in Active, k \in Active',
             req'[k].of = req[k].of, Holds(k, f)' => Holds(k, f), Holds(k, f)' \/ req'[k].of = f
      PROVE  Marks(k, f)'
  <2>1. Marks(k, f)
    BY <1>1 DEF MarksAll
  <2> QED
    BY <1>1, <2>1, MarksStay
<1>2. Active \subseteq Request /\ Active' \subseteq Request
  BY DEF Active
<1>3. ASSUME NEW k \in Request, Moves(k) PROVE MarksAll'
  <2>1. /\ UNCHANGED req /\ Active' = Active /\ k \in Active
        /\ \A j \in Request : j # k => walk'[j] = walk[j]
    BY <1>3, MovesGo
  <2>2. ASSUME NEW j \in Active', NEW f \in Folder, Holds(j, f)' \/ req'[j].of = f
        PROVE  Marks(j, f)'
    <3>1. CASE j = k /\ Holds(k, f)'
      BY <1>3, <3>1, MarksOfMove
    <3>2. CASE j = k /\ ~Holds(k, f)'
      BY <1>1, <2>1, <2>2, <3>2
    <3>3. CASE j # k
      <4>1. j \in Request /\ (Holds(j, f)' <=> Holds(j, f))
        BY <1>2, <2>1, <3>3, SameHold
      <4> QED
        BY <1>1, <2>1, <2>2, <4>1
    <3> QED
      BY <3>1, <3>2, <3>3
  <2> QED
    BY <2>2 DEF MarksAll
<1>4. ASSUME Active' \subseteq Active,
             \A j \in Active' : walk'[j] = walk[j] /\ req'[j].of = req[j].of
      PROVE  MarksAll'
  <2>1. ASSUME NEW j \in Active', NEW f \in Folder, Holds(j, f)' \/ req'[j].of = f
        PROVE  Marks(j, f)'
    <3>1. j \in Request /\ (Holds(j, f)' <=> Holds(j, f))
      BY <1>2, <1>4, SameHold
    <3> QED
      BY <1>1, <1>4, <2>1, <3>1
  <2> QED
    BY <2>1 DEF MarksAll
<1>5. ASSUME NEW k \in Request, Stops(k) PROVE MarksAll'
  <2>1. UNCHANGED req /\ Active' = Active \ {k} /\ GoesTo(k, "over", None)
    BY <1>5, StopsGo
  <2>2. \A j \in Active' : walk'[j] = walk[j]
    BY <1>2, <2>1 DEF GoesTo
  <2> QED
    BY <1>4, <2>1, <2>2
<1>6. CASE Crash
  <2>1. Active' = {}
    BY <1>6, CrashGoes
  <2> QED
    BY <2>1 DEF MarksAll
<1>7. CASE StartWalk
  <2>1. PICK k \in Request : k = Head(queue)
    BY <1>7, StartsOne
  <2>2. /\ UNCHANGED req /\ Active' = IF req[k].kind = "purge" THEN Active ELSE Active \cup {k}
        /\ k \notin Active
    BY <1>7, <2>1, StartActive, StartGoes
  <2>3. CASE req[k].kind = "purge"
    <3>1. GoesTo(k, "over", None)
      BY <1>7, <2>1, <2>3, StartGoes
    <3>2. \A j \in Active' : walk'[j] = walk[j]
      BY <1>2, <2>2, <2>3, <3>1 DEF GoesTo
    <3> QED
      BY <1>4, <2>2, <2>3, <3>2
  <2>4. CASE req[k].kind # "purge"
    <3>1. GoesTo(k, "flag", req[k].of) /\ Back(k)' = {}
      BY <1>7, <2>1, <2>4, StartGoes
    <3>2. ASSUME NEW j \in Active', NEW f \in Folder, Holds(j, f)' \/ req'[j].of = f
          PROVE  Marks(j, f)'
      <4>1. CASE j = k
        BY <2>2, <3>1, <3>2, <4>1 DEF Marks, Commits, Holds, GoesTo
      <4>2. CASE j # k
        <5>1. j \in Request /\ j \in Active /\ (Holds(j, f)' <=> Holds(j, f))
          BY <1>2, <2>2, <2>4, <3>1, <4>2, SameHold DEF GoesTo
        <5> QED
          BY <1>1, <2>2, <3>2, <5>1
      <4> QED
        BY <4>1, <4>2
    <3> QED
      BY <3>2 DEF MarksAll
  <2> QED
    BY <2>3, <2>4
<1>8. ASSUME NEW k \in Request,
             \/ QueueJob(k)
             \/ \E f \in Folder : \/ SaveTrash(k, f)
                                  \/ \E kind \in {"recover", "purge"} : FindTrash(k, kind, f)
             \/ RemoveTrash(k) \/ QueueFails(k) \/ SaveTomb(k) \/ TombFails(k)
      PROVE  MarksAll'
  <2>1. UNCHANGED walk
    BY <1>8, MadeGoes DEF QueueJob
  <2>2. \A j \in Active : req'[j].of = req[j].of
    <3>1. SUFFICES ASSUME NEW j \in Active PROVE req'[j].of = req[j].of
      OBVIOUS
    <3>2. req[j].pc \in {"tomb", "done"} /\ j \in Request
      BY <1>2 DEF JobsOnce
    <3>3. CASE QueueJob(k)
      BY <3>2, <3>3, QueueJobGoes DEF ReqGoes
    <3> QED
      BY <1>8, <3>2, <3>3, MadeGoes
  <2>3. Active' = Active
    BY <2>1 DEF Active
  <2> QED
    BY <1>4, <2>1, <2>2, <2>3
<1>9. CASE UNCHANGED vars
  <2>1. UNCHANGED <<req, walk>>
    BY <1>9 DEF vars
  <2>2. Active' = Active
    BY <2>1 DEF Active
  <2> QED
    BY <1>4, <2>1, <2>2
<1> QED
  BY <1>3, <1>5, <1>6, <1>7, <1>8, <1>9 DEF Next, RequestStep, WalkStep, Moves, Stops

LEMMA PurgesStep ==
  ASSUME TypeOK, Shape, JobsOnce, PurgesTold, [Next]_vars
  PROVE  PurgesTold'
<1>0. purged \subseteq purged'
  BY DEF Next, RequestStep, WalkStep, SaveTrash, FindTrash, RemoveTrash, QueueJob, QueueFails,
         SaveTomb, TombFails, StartWalk, SetFlag, SetLinks, ReadChildren, TrashChild, ReadParent,
         ReadRows, TombParent, GoBack, EndWalk, GiveUp, ChildHasRow, WalkFails, Crash, history, vars
<1>1. CASE UNCHANGED req
  BY <1>0, <1>1 DEF PurgesTold
<1>2. ASSUME NEW k \in Request, \A j \in Request : j # k => req'[j] = req[j],
             req'[k].kind = "purge" /\ req'[k].pc \in {"queue", "tomb", "done"} =>
               req'[k].of \in purged'
      PROVE  PurgesTold'
  BY <1>0, <1>2 DEF PurgesTold
<1>3. ASSUME NEW k \in Request, NEW p, ReqGoes(k, p), req[k].pc \in {"queue", "tomb"}
      PROVE  PurgesTold'
  BY <1>0, <1>2, <1>3 DEF PurgesTold, ReqGoes
<1>4. ASSUME NEW k \in Request, NEW f \in Folder, SaveTrash(k, f) PROVE PurgesTold'
  BY <1>2, <1>4, SaveTrashGoes
<1>5. ASSUME NEW k \in Request, NEW f \in Folder, NEW kind \in {"recover", "purge"},
             FindTrash(k, kind, f)
      PROVE  PurgesTold'
  BY <1>2, <1>5, FindTrashGoes
<1>6. ASSUME NEW k \in Request, RemoveTrash(k) PROVE PurgesTold'
  <2>1. ReqGoes(k, "queue")
    BY <1>6, RemoveTrashGoes
  <2>2. req[k].kind = "purge" => req[k].of \in purged'
    BY <1>6 DEF RemoveTrash
  <2> QED
    BY <1>2, <2>1, <2>2 DEF ReqGoes
<1>7. ASSUME NEW k \in Request, QueueJob(k) PROVE PurgesTold'
  BY <1>3, <1>7, QueueJobGoes
<1>8. ASSUME NEW k \in Request, QueueFails(k) PROVE PurgesTold'
  <2> DEFINE p == IF serial THEN AfterQueue(k) ELSE "failed"
  <2>1. ReqGoes(k, p) /\ req[k].pc = "queue"
    BY <1>8, QueueFailsGoes
  <2> HIDE DEF p
  <2> QED
    BY <1>3, <2>1
<1>9. ASSUME NEW k \in Request, SaveTomb(k) PROVE PurgesTold'
  BY <1>3, <1>9, SaveTombGoes
<1>10. ASSUME NEW k \in Request, TombFails(k) PROVE PurgesTold'
  BY <1>3, <1>10, TombFailsGoes
<1>11. ASSUME NEW k \in Request, Moves(k) \/ Stops(k) PROVE UNCHANGED req
  BY <1>11, MovesGo, StopsGo
<1>12. StartWalk \/ Crash \/ UNCHANGED vars => UNCHANGED req
  BY DEF StartWalk, Crash, vars
<1> QED
  BY <1>1, <1>4, <1>5, <1>6, <1>7, <1>8, <1>9, <1>10, <1>11, <1>12
  DEF Next, RequestStep, WalkStep, Moves, Stops

-----------------------------------------------------------------------------
(* Flags and rows of a calm folder *)

Queuing(k, f) == req[k].pc = "queue" /\ req[k].of = f

Pending(f) == Unqueued(f) \/ Waiting(f)

\* Of the jobs about f in the queue the one at i is the last.
LastAt(i, f) == /\ req[queue[i]].of = f
                /\ \A j \in 1..Len(queue) : j > i => req[queue[j]].of # f

\* Only the last change of the row of f can have a job to queue still, and otherwise the last
\* job about f in the queue is that of the last change.
LastJobOf(f) ==
  /\ \A k, j \in Request : Queuing(k, f) /\ Queuing(j, f) => k = j
  /\ \A k \in Request : Queuing(k, f) => (Trashing(k) <=> row[f] # 0)
  /\ ~Unqueued(f) =>
       \A i \in 1..Len(queue) : LastAt(i, f) => (Trashing(queue[i]) <=> row[f] # 0)

\* What the flag, the links and the row of f are while the walk of k has to do with them.
FlagsOf(k, f) ==
  /\ LinksAt(k, f) => (flag[f] <=> Trashing(k))
  /\ ~Trashing(k) /\ Holds(k, f) /\ ~Commits(k, f) => ~flag[f]
  /\ ~Trashing(k) /\ Holds(k, f) /\ ~Commits(k, f) /\ ~LinksAt(k, f) => ~links[f]
  /\ req[k].of = f /\ ~Commits(k, f) => (flag[f] <=> Trashing(k))
  /\ Holds(k, f) /\ ~Pending(f) /\ Trashing(k)  => row[f] # 0
  /\ Holds(k, f) /\ ~Pending(f) /\ ~Trashing(k) => row[f] = 0 \/ <<f, row[f]>> \in Back(k)

SettledOf(f) ==
  ~Pending(f) /\ (\A k \in Active : ~Holds(k, f)) =>
    (flag[f] <=> row[f] # 0) /\ (links[f] <=> flag[f])

FlagsFit(f) == LastJobOf(f) /\ (\A k \in Active : FlagsOf(k, f)) /\ SettledOf(f)

\* The walk of j has not come nearer to f, nor done with it.
StaysAt(j, f) ==
  /\ Commits(j, f) => Commits(j, f)'
  /\ Holds(j, f)' <=> Holds(j, f)
  /\ LinksAt(j, f)' <=> LinksAt(j, f)
  /\ \A n \in Nat : <<f, n>> \in Back(j) => <<f, n>> \in Back(j)'

LEMMA SameStays ==
  ASSUME NEW j \in Request, NEW f \in Folder, walk'[j] = walk[j]
  PROVE  StaysAt(j, f)
  BY SameHold DEF StaysAt

LEMMA SamePending ==
  ASSUME NEW f \in Folder, UNCHANGED <<req, queue>>
  PROVE  (Pending(f)' <=> Pending(f)) /\ (Unqueued(f)' <=> Unqueued(f))
  BY DEF Pending, Unqueued, Waiting

LEMMA SameJobs ==
  ASSUME NEW f \in Folder, LastJobOf(f), UNCHANGED <<req, queue>>, row'[f] = row[f] \/ ~Pending(f)
  PROVE  LastJobOf(f)'
<1>1. CASE row'[f] = row[f]
  BY <1>1 DEF LastJobOf, LastAt, Unqueued, Trashing, Queuing
<1>2. CASE ~Pending(f)
  BY <1>2 DEF LastJobOf, LastAt, Unqueued, Trashing, Pending, Waiting, Queuing
<1> QED
  BY <1>1, <1>2

LEMMA SameFit ==
  ASSUME TypeOK, NEW f \in Folder, FlagsFit(f), UNCHANGED <<req, queue>>,
         flag'[f] = flag[f], links'[f] = links[f], row'[f] = row[f],
         Active' \subseteq Active, \A j \in Active' : StaysAt(j, f),
         \A j \in Active : Holds(j, f) => j \in Active'
  PROVE  FlagsFit(f)'
<1>1. LastJobOf(f)'
  BY SameJobs DEF FlagsFit
<1>2. Pending(f)' <=> Pending(f)
  BY SamePending
<1>3. row[f] \in Nat
  BY DEF TypeOK
<1>4. ASSUME NEW j \in Active' PROVE FlagsOf(j, f)'
  <2>1. FlagsOf(j, f) /\ StaysAt(j, f)
    BY <1>4 DEF FlagsFit
  <2>2. Trashing(j)' <=> Trashing(j)
    BY DEF Trashing
  <2> QED
    BY <1>2, <1>3, <2>1, <2>2 DEF FlagsOf, StaysAt
<1>5. SettledOf(f)'
  BY <1>2 DEF FlagsFit, SettledOf, StaysAt
<1> QED
  BY <1>1, <1>4, <1>5 DEF FlagsFit

\* A walk that has marked f is the only one that has to do with f, if f stays calm.
LEMMA AloneFits ==
  ASSUME JobsOnce', MarksAll', NEW f \in Folder, Calm(f)', NEW k \in Active', Marks(k, f)'
  PROVE  /\ \A j \in Active' : j # k => FlagsOf(j, f)'
         /\ \A j \in Active' : j # k => ~Holds(j, f)'
<1>1. ASSUME NEW j \in Active', j # k PROVE ~Holds(j, f)' /\ req'[j].of # f
  <2>1. Holds(j, f)' \/ req'[j].of = f => Marks(j, f)'
    BY DEF MarksAll
  <2> QED
    BY <1>1, <2>1, Alone
<1>2. \A j \in Active' : LinksAt(j, f)' => Holds(j, f)'
  BY DEF LinksAt, Holds
<1> QED
  BY <1>1, <1>2 DEF FlagsOf

LEMMA MovesFit ==
  ASSUME TypeOK, Shape, JobsOnce, MarksAll, JobsOnce', MarksAll', [Next]_vars,
         NEW f \in Folder, Calm(f)', FlagsFit(f), NEW k \in Request, Moves(k)
  PROVE  FlagsFit(f)'
<1>0. /\ k \in Active /\ walk[k].at \in Folder /\ Active' = Active /\ UNCHANGED <<req, queue>>
      /\ \A j \in Request : j # k => walk'[j] = walk[j]
      /\ row[f] \in Nat /\ flag[f] \in BOOLEAN /\ links[f] \in BOOLEAN
  BY MovesGo DEF TypeOK
<1>a. Active \subseteq Request /\ (Trashing(k)' <=> Trashing(k)) /\ ShapeOf(k)
  BY <1>0 DEF Active, Trashing, Shape
<1>b. Pending(f)' <=> Pending(f)
  BY <1>0, SamePending
\* The walk has nothing to do with f.
<1>c. ASSUME flag'[f] = flag[f], links'[f] = links[f], row'[f] = row[f], StaysAt(k, f)
      PROVE  FlagsFit(f)'
  <2>1. \A j \in Active' : StaysAt(j, f)
    BY <1>0, <1>a, <1>c, SameStays
  <2> QED
    BY <1>0, <1>c, <2>1, SameFit
\* The walk has to do with f, and is the only one.
<1>d. ASSUME Marks(k, f)', FlagsOf(k, f)', row'[f] = row[f] \/ ~Pending(f),
             Holds(k, f)' \/ Pending(f) \/
               ((flag'[f] <=> row'[f] # 0) /\ (links'[f] <=> flag'[f]))
      PROVE  FlagsFit(f)'
  <2>1. \A j \in Active' : FlagsOf(j, f)'
    BY <1>0, <1>d, AloneFits
  <2>2. LastJobOf(f)'
    BY <1>0, <1>d, SameJobs DEF FlagsFit
  <2>3. SettledOf(f)'
    BY <1>0, <1>b, <1>d DEF SettledOf
  <2> QED
    BY <2>1, <2>2, <2>3 DEF FlagsFit
<1>e. FlagsOf(k, f)
  BY <1>0 DEF FlagsFit
<1>f. Holds(k, f) \/ Holds(k, f)' => Marks(k, f)'
  <2>1. CASE Holds(k, f)
    <3>1. Marks(k, f)
      BY <1>0, <2>1 DEF MarksAll
    <3> QED
      BY <1>0, <3>1, MarksStay
  <2>2. CASE Holds(k, f)'
    BY <1>0, <2>2 DEF MarksAll
  <2> QED
    BY <2>1, <2>2
<1>1. CASE SetFlag(k)
  <2>1. /\ walk[k].pc = "flag" /\ walk'[k].pc = "links" /\ walk'[k].at = walk[k].at
        /\ Back(k)' = Back(k)
    BY <1>1, SetFlagGoes DEF GoesTo, SameBack
  <2>2. flag' = [flag EXCEPT ![walk[k].at] = Trashing(k)] /\ links' = links /\ row' = row
    BY <1>1 DEF SetFlag, rows
  <2>3. flag \in [Folder -> BOOLEAN]
    BY DEF TypeOK
  <2>4. CASE walk[k].at = f
    <3>1. flag'[f] <=> Trashing(k)
      BY <2>2, <2>3, <2>4
    <3>2. LinksAt(k, f)' /\ Holds(k, f)' /\ Holds(k, f)
      BY <2>1, <2>4 DEF LinksAt, Holds
    <3>3. FlagsOf(k, f)'
      BY <1>a, <1>b, <1>e, <2>1, <2>2, <3>1, <3>2 DEF FlagsOf
    <3> QED
      BY <1>d, <1>f, <2>2, <3>2, <3>3
  <2>5. CASE walk[k].at # f
    <3>1. flag'[f] = flag[f]
      BY <2>2, <2>3, <2>5
    <3>2. StaysAt(k, f)
      BY <2>1, <2>5 DEF StaysAt, Commits, Holds, LinksAt
    <3> QED
      BY <1>c, <2>2, <3>1, <3>2
  <2> QED
    BY <2>4, <2>5
<1>2. CASE SetLinks(k)
  <2> DEFINE p == IF Trashing(k) THEN "children" ELSE "parent"
  <2>1. /\ walk[k].pc = "links" /\ walk'[k].pc = p /\ walk'[k].at = walk[k].at
        /\ Back(k)' = Back(k)
    BY <1>2, SetLinksGoes DEF GoesTo, SameBack
  <2>2. links' = [links EXCEPT ![walk[k].at] = Trashing(k)] /\ flag' = flag /\ row' = row
    BY <1>2 DEF SetLinks, rows
  <2>3. links \in [Folder -> BOOLEAN] /\ p \in {"children", "parent"}
    BY DEF TypeOK
  <2> HIDE DEF p
  <2>4. CASE walk[k].at = f
    <3>1. links'[f] <=> Trashing(k)
      BY <2>2, <2>3, <2>4
    <3>2. LinksAt(k, f) /\ Holds(k, f) /\ ~Commits(k, f)
      BY <2>1, <2>4 DEF LinksAt, Holds, Commits
    <3>3. flag[f] <=> Trashing(k)
      BY <1>e, <3>2 DEF FlagsOf
    <3>4. Holds(k, f)' <=> \E b \in Back(k) : b[1] = f
      BY <2>1, <2>3 DEF Holds
    <3>5. ~LinksAt(k, f)'
      BY <2>1, <2>3 DEF LinksAt
    <3>6. FlagsOf(k, f)'
      BY <1>a, <1>b, <1>e, <2>1, <2>2, <3>1, <3>2, <3>3, <3>5 DEF FlagsOf
    <3>7. CASE Pending(f)
      BY <1>d, <1>f, <2>2, <3>2, <3>6, <3>7
    <3>8. CASE ~Pending(f)
      <4>1. Trashing(k) => row[f] # 0
        BY <1>e, <3>2, <3>8 DEF FlagsOf
      <4>2. ~Trashing(k) /\ ~Holds(k, f)' => row[f] = 0
        BY <1>e, <3>2, <3>4, <3>8 DEF FlagsOf
      <4>3. Holds(k, f)' \/ ((flag'[f] <=> row'[f] # 0) /\ (links'[f] <=> flag'[f]))
        BY <2>2, <3>1, <3>3, <4>1, <4>2
      <4> QED
        BY <1>d, <1>f, <2>2, <3>2, <3>6, <4>3
    <3> QED
      BY <3>7, <3>8
  <2>5. CASE walk[k].at # f
    <3>1. links'[f] = links[f]
      BY <2>2, <2>3, <2>5
    <3>2. StaysAt(k, f)
      BY <2>1, <2>3, <2>5 DEF StaysAt, Commits, Holds, LinksAt
    <3> QED
      BY <1>c, <2>2, <3>1, <3>2
  <2> QED
    BY <2>4, <2>5
<1>3. CASE ReadChildren(k)
  <2>1. walk[k].pc = "children" /\ walk'[k].pc = "next" /\ Back(k)' = Back(k)
    BY <1>3, ReadChildrenGoes DEF GoesTo, SameBack
  <2>2. StaysAt(k, f)
    BY <2>1 DEF StaysAt, Commits, Holds, LinksAt
  <2> QED
    BY <1>3, <1>c, <2>2 DEF ReadChildren, rows
<1>4. CASE ReadParent(k)
  <2>1. /\ walk[k].pc = "parent" /\ walk'[k].pc \in {"rows", "back"} /\ Back(k)' = Back(k)
    BY <1>4, ReadParentGoes DEF GoesTo, SameBack
  <2>2. StaysAt(k, f)
    BY <2>1 DEF StaysAt, Commits, Holds, LinksAt
  <2> QED
    BY <1>4, <1>c, <2>2 DEF ReadParent, rows
<1>5. CASE TrashChild(k)
  <2> DEFINE c == Head(walk[k].todo)
  <2>1. /\ walk[k].pc = "next" /\ walk'[k].pc = "flag" /\ walk'[k].at = c /\ Back(k)' = Back(k)
        /\ c \in Folder
    BY <1>5, TrashChildGoes DEF GoesTo, SameBack
  <2>2. /\ row[c] = 0 /\ InsertRow(c) /\ CrossedIf(c, Unqueued(c) \/ Waiting(c))
        /\ flag' = flag /\ links' = links
    BY <1>5 DEF TrashChild
  <2>3. row'[c] = lastId + 1 /\ lastId \in Nat /\ \A g \in Folder : g # c => row'[g] = row[g]
    BY <2>1, <2>2, InsertRowDoes DEF TypeOK
  <2>4. Trashing(k)
    BY <1>0, <1>a, <2>1 DEF ShapeOf
  <2> HIDE DEF c
  <2>5. CASE c = f
    <3>1. ~Pending(f)
      BY <2>2, <2>5 DEF CrossedIf, Calm, Pending
    <3>2. Holds(k, f)' /\ Commits(k, f)' /\ ~LinksAt(k, f)'
      BY <2>1, <2>5 DEF Holds, Commits, LinksAt
    <3>3. row'[f] # 0
      BY <2>3, <2>5
    <3>4. FlagsOf(k, f)'
      BY <1>a, <2>4, <3>2, <3>3 DEF FlagsOf
    <3> QED
      BY <1>d, <1>f, <3>1, <3>2, <3>4
  <2>6. CASE c # f
    <3>1. StaysAt(k, f)
      BY <2>1, <2>6 DEF StaysAt, Commits, Holds, LinksAt
    <3> QED
      BY <1>c, <2>2, <2>3, <2>6, <3>1
  <2> QED
    BY <2>5, <2>6
<1>6. CASE ReadRows(k)
  <2> DEFINE q == Parent[walk[k].at]
  <2>1. q # None /\ flag' = flag /\ links' = links /\ row' = row /\ walk[k].pc = "rows"
    BY <1>6 DEF ReadRows, rows, Shape, ShapeOf
  <2>2. CASE row[q] = 0
    <3>1. walk'[k].pc = "back" /\ Back(k)' = Back(k)
      BY <1>6, <2>1, <2>2, ReadRowsGoes DEF GoesTo, SameBack
    <3>2. StaysAt(k, f)
      BY <2>1, <3>1 DEF StaysAt, Commits, Holds, LinksAt
    <3> QED
      BY <1>c, <2>1, <3>2
  <2>3. CASE row[q] # 0
    <3>1. /\ walk'[k].pc = "tomb" /\ Head(walk'[k].back) = <<q, row[q]>>
          /\ Back(k)' = {<<q, row[q]>>} \cup Back(k)
      BY <1>6, <2>1, <2>3, ReadRowsGoes DEF GoesTo
    <3>2. CASE q = f
      <4>0. /\ <<f, row[f]>> \in Back(k)' /\ Head(walk'[k].back) = <<f, row[f]>>
            /\ <<f, row[f]>>[1] = f
        BY <3>1, <3>2
      <4>1. Commits(k, f)' /\ Holds(k, f)' /\ ~LinksAt(k, f)' /\ <<f, row[f]>> \in Back(k)'
        BY <3>1, <4>0 DEF Commits, Holds, LinksAt
      <4>2. ~Trashing(k)
        BY <1>0, <1>a, <2>1 DEF ShapeOf
      <4>3. FlagsOf(k, f)'
        BY <1>a, <2>1, <4>1, <4>2 DEF FlagsOf
      <4> QED
        BY <1>d, <1>f, <2>1, <4>1, <4>3
    <3>3. CASE q # f
      <4>1. StaysAt(k, f)
        BY <2>1, <3>1, <3>3 DEF StaysAt, Commits, Holds, LinksAt
      <4> QED
        BY <1>c, <2>1, <4>1
    <3> QED
      BY <3>2, <3>3
  <2> QED
    BY <2>2, <2>3
<1>7. CASE TombParent(k)
  <2>1. walk[k].pc = "tomb" /\ walk[k].back # <<>> /\ flag' = flag /\ links' = links /\ row' = row
    BY <1>7 DEF TombParent, AddTomb, Shape, ShapeOf
  <2>2. /\ walk'[k].pc = "flag" /\ walk'[k].at = Head(walk[k].back)[1] /\ Back(k)' = Back(k)
        /\ Head(walk[k].back) \in Back(k)
    BY <1>7, <2>1, TombParentGoes DEF GoesTo, SameBack
  <2>3. StaysAt(k, f)
    BY <2>1, <2>2 DEF StaysAt, Commits, Holds, LinksAt
  <2> QED
    BY <1>c, <2>1, <2>3
<1>8. CASE GoBack(k)
  <2>1. PICK p \in Folder, n \in Nat :
          /\ <<p, n>> \in Back(k) /\ Back(k) = {<<p, n>>} \cup Back(k)' /\ RemoveRow(p, n)
          /\ CrossedIf(p, row[p] = n /\ (Unqueued(p) \/ Waiting(p)))
          /\ walk[k].pc = "back" /\ walk'[k].pc = "back"
          /\ flag' = flag /\ links' = links
    <3> DEFINE h == Head(walk[k].back)
    <3>1. /\ h \in Folder \X Nat /\ h = <<h[1], h[2]>> /\ h \in Back(k)
          /\ Back(k) = {h} \cup Back(k)' /\ RemoveRow(h[1], h[2])
          /\ CrossedIf(h[1], row[h[1]] = h[2] /\ (Unqueued(h[1]) \/ Waiting(h[1])))
          /\ walk[k].pc = "back" /\ walk'[k].pc = "back" /\ flag' = flag /\ links' = links
      BY <1>8, GoBackGoes DEF GoBack, RemoveParent, GoesTo
    <3>2. h[1] \in Folder /\ h[2] \in Nat
      BY <3>1
    <3> HIDE DEF h
    <3> QED
      BY <3>1, <3>2
  <2>2. row' = [row EXCEPT ![p] = IF row[p] = n THEN 0 ELSE row[p]] /\ row \in [Folder -> 0..lastId]
    BY <2>1 DEF RemoveRow, TypeOK
  <2>3. ~Trashing(k) /\ ~Commits(k, f) /\ ~LinksAt(k, f) /\ ~Commits(k, f)' /\ ~LinksAt(k, f)'
    BY <1>0, <1>a, <2>1 DEF ShapeOf, Commits, LinksAt
  <2>4. /\ Holds(k, f)' <=> \E b \in Back(k)' : b[1] = f
        /\ Holds(k, f) <=> \E b \in Back(k) : b[1] = f
    BY <2>1 DEF Holds
  <2>5. CASE p = f
    <3>1. Holds(k, f)
      BY <2>1, <2>4, <2>5
    <3>2. ~flag[f] /\ ~links[f]
      BY <1>e, <2>3, <3>1 DEF FlagsOf
    <3>3. CASE row[f] = n
      <4>1. row'[f] = 0 /\ ~Pending(f)
        BY <2>1, <2>2, <2>5, <3>3 DEF CrossedIf, Calm, Pending
      <4>2. FlagsOf(k, f)'
        BY <1>a, <2>1, <2>3, <3>2, <4>1 DEF FlagsOf
      <4> QED
        BY <1>d, <1>f, <2>1, <3>1, <3>2, <4>1, <4>2
    <3>4. CASE row[f] # n
      <4>1. row'[f] = row[f]
        BY <2>2, <2>5, <3>4
      <4>2. ~Pending(f) => row[f] = 0 \/ (<<f, row[f]>> \in Back(k)' /\ Holds(k, f)')
        <5>1. ~Pending(f) => row[f] = 0 \/ <<f, row[f]>> \in Back(k)
          BY <1>e, <2>3, <3>1 DEF FlagsOf
        <5>2. <<f, row[f]>> # <<p, n>>
          BY <3>4
        <5> QED
          BY <2>1, <2>4, <5>1, <5>2
      <4>3. FlagsOf(k, f)'
        BY <1>a, <1>b, <2>1, <2>3, <3>2, <4>1, <4>2 DEF FlagsOf
      <4> QED
        BY <1>d, <1>f, <2>1, <3>1, <3>2, <4>1, <4>2, <4>3
    <3> QED
      BY <3>3, <3>4
  <2>6. CASE p # f
    <3>1. row'[f] = row[f]
      BY <2>2, <2>6
    <3>2. \A m \in Nat : <<f, m>> \in Back(k) => <<f, m>> \in Back(k)'
      BY <2>1, <2>6
    <3>3. Holds(k, f)' <=> Holds(k, f)
      BY <2>1, <2>4, <2>6
    <3>4. StaysAt(k, f)
      BY <2>3, <3>2, <3>3 DEF StaysAt
    <3> QED
      BY <1>c, <2>1, <3>1, <3>4
  <2> QED
    BY <2>5, <2>6
<1> QED
  BY <1>1, <1>2, <1>3, <1>4, <1>5, <1>6, <1>7, <1>8 DEF Moves

-----------------------------------------------------------------------------
(* The flag of a calm folder while the rest moves *)

LEMMA SameFlags ==
  ASSUME NEW k \in Request, NEW f \in Folder, FlagsOf(k, f), walk'[k] = walk[k],
         UNCHANGED <<flag, links>>, req'[k].of = req[k].of, req'[k].kind = req[k].kind,
         Pending(f)' \/ (~Pending(f) /\ row'[f] = row[f])
  PROVE  FlagsOf(k, f)'
<1>1. /\ Holds(k, f)' <=> Holds(k, f)
      /\ Commits(k, f)' <=> Commits(k, f)
      /\ LinksAt(k, f)' <=> LinksAt(k, f)
      /\ Back(k)' = Back(k)
  BY SameHold
<1>2. Trashing(k)' <=> Trashing(k)
  BY DEF Trashing
<1> QED
  BY <1>1, <1>2 DEF FlagsOf

LEMMA StopsFit ==
  ASSUME TypeOK, Shape, NEW f \in Folder, Calm(f)', FlagsFit(f), NEW k \in Request, Stops(k)
  PROVE  FlagsFit(f)'
<1>1. /\ k \in Active /\ GoesTo(k, "over", None) /\ Active' = Active \ {k}
      /\ UNCHANGED <<rows, flag, links, req, queue>>
  BY StopsGo
<1>2. Active \subseteq Request
  BY DEF Active
<1>3. ~Holds(k, f)
  <2>1. CASE EndWalk(k)
    <3>1. walk[k].pc \notin {"flag", "links"} /\ ToSet(walk[k].back) = {}
      BY <2>1, EmptySeq DEF EndWalk, ToSet
    <3> QED
      BY <3>1 DEF Holds, Back
  <2>2. CASE ChildHasRow(k) \/ WalkFails(k)
    <3>1. GiveUp({k}) /\ {k} \subseteq Active /\ f \notin broken'
      BY <1>1, <2>2 DEF ChildHasRow, WalkFails, Calm
    <3> QED
      BY <3>1, HoldsBreak
  <2> QED
    BY <2>1, <2>2 DEF Stops
<1>4. \A j \in Active' : StaysAt(j, f)
  BY <1>1, <1>2, SameStays DEF GoesTo
<1> QED
  BY <1>1, <1>3, <1>4, SameFit DEF rows

LEMMA CrashFit ==
  ASSUME TypeOK, Shape, JobsOnce, NEW f \in Folder, Calm(f)', FlagsFit(f), Crash
  PROVE  FlagsFit(f)'
<1>1. /\ Active' = {} /\ UNCHANGED <<row, flag, links, req>>
      /\ serial => \E k \in Active : queue' = <<k>> \o queue
      /\ ~serial => queue' = queue
  BY CrashGoes DEF rows
<1>2. \A j \in Active : ~Holds(j, f)
  <2>1. GiveUp(Active) /\ f \notin broken'
    BY DEF Crash, Calm
  <2> QED
    BY <2>1, HoldsBreak
<1>3. CASE ~serial
  BY <1>1, <1>2, <1>3, SameFit
<1>4. CASE serial
  <2>1. PICK k \in Active : queue' = <<k>> \o queue
    BY <1>1, <1>4
  <2>2. /\ Len(queue) \in Nat /\ Len(queue') = Len(queue) + 1 /\ queue'[1] = k
        /\ \A i \in 1..Len(queue) : queue'[i + 1] = queue[i]
    BY <2>1, CrashQueue
  <2>4. Unqueued(f)' <=> Unqueued(f)
    BY <1>1 DEF Unqueued
  <2>5. Waiting(f) => Waiting(f)'
    <3>1. \A i \in 1..Len(queue) : i + 1 \in 1..Len(queue')
      BY <2>2
    <3> QED
      BY <1>1, <2>2, <3>1 DEF Waiting
  <2>6. k \in Request
    BY DEF Active
  <2>7. ASSUME ~Unqueued(f), NEW i \in 1..Len(queue'), LastAt(i, f)'
        PROVE  Trashing(queue[i])' <=> row[f] # 0
    <3>1. CASE i = 1
      <4>1. req[k].of = f
        BY <1>1, <2>2, <2>7, <3>1 DEF LastAt
      <4>2. \A j \in 1..Len(queue) : req[queue[j]].of # f
        <5>1. \A j \in 1..Len(queue) : j + 1 \in 1..Len(queue') /\ j + 1 > 1
          BY <2>2
        <5> QED
          BY <1>1, <2>2, <2>7, <3>1, <5>1 DEF LastAt
      <4>3. ~Pending(f)
        BY <2>7, <4>2 DEF Pending, Waiting
      <4>4. flag[f] <=> row[f] # 0
        BY <1>2, <4>3 DEF FlagsFit, SettledOf
      <4>5. FlagsOf(k, f) /\ ~Commits(k, f)
        BY <1>2, <2>6, CommitsHolds DEF FlagsFit
      <4>6. flag[f] <=> Trashing(k)
        BY <4>1, <4>5 DEF FlagsOf
      <4> QED
        BY <1>1, <2>2, <3>1, <4>4, <4>6 DEF Trashing
    <3>2. CASE i # 1
      <4>1. PICK h \in 1..Len(queue) : i = h + 1
        <5>1. i - 1 \in 1..Len(queue) /\ i = (i - 1) + 1
          BY <2>2, <3>2
        <5> QED
          BY <5>1
      <4>2. queue'[i] = queue[h]
        BY <2>2, <4>1
      <4>3. \A j \in 1..Len(queue) : j > h => j + 1 \in 1..Len(queue') /\ j + 1 > i
        BY <2>2, <4>1
      <4>4. LastAt(h, f)
        BY <1>1, <2>2, <2>7, <4>2, <4>3 DEF LastAt
      <4>5. Trashing(queue[h]) <=> row[f] # 0
        BY <2>7, <4>4 DEF FlagsFit, LastJobOf
      <4> QED
        BY <1>1, <4>2, <4>5 DEF Trashing
    <3> QED
      BY <3>1, <3>2
  <2>8. LastJobOf(f)'
    BY <1>1, <2>4, <2>7 DEF FlagsFit, LastJobOf, Trashing, Queuing
  <2>9. SettledOf(f)'
    BY <1>1, <1>2, <2>4, <2>5 DEF FlagsFit, SettledOf, Pending
  <2> QED
    BY <1>1, <2>8, <2>9 DEF FlagsFit
<1> QED
  BY <1>3, <1>4

LEMMA StartPending ==
  ASSUME TypeOK, NEW k \in Request, k = Head(queue), StartWalk, NEW f \in Folder, req[k].of # f
  PROVE  Pending(f)' <=> Pending(f)
<1>1. queue # <<>> /\ queue' = Tail(queue) /\ queue \in Seq(Request) /\ UNCHANGED req
  BY StartGoes DEF TypeOK
<1>2. /\ k = queue[1] /\ Len(queue) \in Nat \ {0} /\ Len(queue') = Len(queue) - 1
      /\ \A i \in 1..Len(queue') : queue'[i] = queue[i + 1]
  BY <1>1, InTail
<1>3. Waiting(f) => Waiting(f)'
  <2>1. SUFFICES ASSUME NEW i \in 1..Len(queue), req[queue[i]].of = f PROVE Waiting(f)'
    BY DEF Waiting
  <2>2. i # 1
    BY <1>2, <2>1
  <2>3. i - 1 \in 1..Len(queue') /\ (i - 1) + 1 = i
    BY <1>2, <2>2
  <2>4. queue'[i - 1] = queue[i]
    BY <1>2, <2>3
  <2> QED
    BY <1>1, <2>1, <2>3, <2>4 DEF Waiting
<1>4. Waiting(f)' => Waiting(f)
  <2>1. \A i \in 1..Len(queue') : i + 1 \in 1..Len(queue)
    BY <1>2
  <2> QED
    BY <1>1, <1>2, <2>1 DEF Waiting
<1>5. Unqueued(f)' <=> Unqueued(f)
  BY <1>1 DEF Unqueued
<1> QED
  BY <1>3, <1>4, <1>5 DEF Pending

LEMMA StartFit ==
  ASSUME TypeOK, Shape, JobsOnce, PurgesTold, JobsOnce', MarksAll',
         NEW f \in Folder, Calm(f)', FlagsFit(f), StartWalk
  PROVE  FlagsFit(f)'
<1>0. PICK k \in Request : k = Head(queue)
  BY StartsOne
<1>1. /\ queue # <<>> /\ queue' = Tail(queue) /\ queue \in Seq(Request)
      /\ UNCHANGED <<row, flag, links, req, purged>>
      /\ req[k].kind = "purge" => GoesTo(k, "over", None)
      /\ req[k].kind # "purge" => GoesTo(k, "flag", req[k].of) /\ Back(k)' = {}
  BY <1>0, StartGoes DEF rows, TypeOK
<1>2. /\ k \notin Active /\ req[k].pc \in {"tomb", "done"}
      /\ Active' = IF req[k].kind = "purge" THEN Active ELSE Active \cup {k}
  BY <1>0, StartActive
<1>3. /\ k = queue[1] /\ Len(queue) \in Nat \ {0} /\ Len(queue') = Len(queue) - 1
      /\ \A i \in 1..Len(queue') : queue'[i] = queue[i + 1]
  BY <1>0, <1>1, InTail
<1>4. \A j \in Request : j # k => walk'[j] = walk[j]
  BY <1>1 DEF GoesTo
<1>5. Active \subseteq Request
  BY DEF Active
<1>6. Unqueued(f)' <=> Unqueued(f)
  BY <1>1 DEF Unqueued
<1>7. ASSUME NEW i \in 1..Len(queue'), LastAt(i, f)', ~Unqueued(f)
      PROVE  Trashing(queue[i])' <=> row[f] # 0
  <2>1. i + 1 \in 1..Len(queue) /\ queue'[i] = queue[i + 1]
    BY <1>3
  <2>2. \A j \in 1..Len(queue) : j > i + 1 => /\ j - 1 \in 1..Len(queue') /\ j - 1 > i
                                              /\ queue'[j - 1] = queue[j]
    <3>1. \A j \in 1..Len(queue) : j > i + 1 => /\ j - 1 \in 1..Len(queue') /\ j - 1 > i
                                                /\ (j - 1) + 1 = j
      BY <1>3
    <3> QED
      BY <1>3, <3>1
  <2>3. LastAt(i + 1, f)
    BY <1>1, <1>7, <2>1, <2>2 DEF LastAt
  <2>4. Trashing(queue[i + 1]) <=> row[f] # 0
    BY <1>7, <2>1, <2>3 DEF FlagsFit, LastJobOf
  <2> QED
    BY <1>1, <2>1, <2>4 DEF Trashing
<1>8. LastJobOf(f)'
  BY <1>1, <1>6, <1>7 DEF FlagsFit, LastJobOf, Trashing, Queuing
<1>9. CASE req[k].of = f
  <2>1. req[k].kind # "purge"
    BY <1>1, <1>2, <1>9 DEF PurgesTold, Calm
  <2>2. /\ k \in Active' /\ Commits(k, f)' /\ Holds(k, f)' /\ Marks(k, f)' /\ ~LinksAt(k, f)'
    BY <1>1, <1>2, <1>9, <2>1 DEF Commits, Holds, Marks, LinksAt, GoesTo
  <2>3. \A j \in Active' : j # k => FlagsOf(j, f)'
    BY <2>2, AloneFits
  <2>4. ~Pending(f)' => (Trashing(k) <=> row[f] # 0)
    <3>1. SUFFICES ASSUME ~Pending(f)' PROVE Trashing(k) <=> row[f] # 0
      OBVIOUS
    <3>2. ~Unqueued(f) /\ \A i \in 1..Len(queue') : req[queue'[i]].of # f
      BY <1>1, <1>6, <3>1 DEF Pending, Waiting
    <3>3. \A j \in 1..Len(queue) : j > 1 => j - 1 \in 1..Len(queue') /\ queue'[j - 1] = queue[j]
      <4>1. \A j \in 1..Len(queue) : j > 1 => j - 1 \in 1..Len(queue') /\ (j - 1) + 1 = j
        BY <1>3
      <4> QED
        BY <1>3, <4>1
    <3>4. 1 \in 1..Len(queue) /\ LastAt(1, f)
      BY <1>3, <1>9, <3>2, <3>3 DEF LastAt
    <3> QED
      BY <1>3, <3>2, <3>4 DEF FlagsFit, LastJobOf
  <2>5. FlagsOf(k, f)'
    BY <1>1, <2>2, <2>4 DEF FlagsOf, Trashing
  <2>6. SettledOf(f)'
    BY <2>2 DEF SettledOf
  <2> QED
    BY <1>8, <2>3, <2>5, <2>6 DEF FlagsFit
<1>10. CASE req[k].of # f
  <2>2. Pending(f)' <=> Pending(f)
    BY <1>0, <1>10, StartPending
  <2>3. ASSUME NEW j \in Active
        PROVE  FlagsOf(j, f)' /\ (Holds(j, f)' <=> Holds(j, f)) /\ j \in Active'
    <3>1. j \in Request /\ FlagsOf(j, f) /\ walk'[j] = walk[j]
      BY <1>2, <1>4, <1>5 DEF FlagsFit
    <3> QED
      BY <1>1, <1>2, <2>2, <3>1, SameFlags, SameHold
  <2>4. k \in Active' => FlagsOf(k, f)'
    <3>1. SUFFICES ASSUME k \in Active' PROVE FlagsOf(k, f)'
      OBVIOUS
    <3>2. GoesTo(k, "flag", req[k].of) /\ Back(k)' = {}
      BY <1>1, <1>2, <3>1
    <3>3. ~Holds(k, f)' /\ ~LinksAt(k, f)' /\ req'[k].of # f
      BY <1>1, <1>10, <3>2 DEF Holds, LinksAt, GoesTo
    <3> QED
      BY <3>3 DEF FlagsOf
  <2>5. SettledOf(f)'
    BY <1>1, <2>2, <2>3 DEF FlagsFit, SettledOf
  <2>6. \A j \in Active' : FlagsOf(j, f)'
    BY <1>2, <2>3, <2>4
  <2> QED
    BY <1>8, <2>5, <2>6 DEF FlagsFit
<1> QED
  BY <1>9, <1>10

LEMMA AskFit ==
  ASSUME TypeOK, JobsOnce, NEW f \in Folder, FlagsFit(f),
         UNCHANGED <<queue, walk, flag, links>>, row'[f] = row[f],
         \A j \in Request :
           req[j].pc # "new" => req'[j].kind = req[j].kind /\ req'[j].of = req[j].of,
         \A j \in Request : Queuing(j, f)' <=> Queuing(j, f)
  PROVE  FlagsFit(f)'
<1>1. Unqueued(f)' <=> Unqueued(f)
  BY DEF Unqueued, Queuing
<1>2. \A i \in 1..Len(queue) : /\ req'[queue[i]].kind = req[queue[i]].kind
                               /\ req'[queue[i]].of = req[queue[i]].of
  <2>1. \A i \in 1..Len(queue) : queue[i] \in Request /\ queue[i] \in ToSet(queue)
    BY InSeq DEF TypeOK
  <2>2. \A i \in 1..Len(queue) : req[queue[i]].pc \in {"tomb", "done"}
    BY <2>1 DEF JobsOnce
  <2> QED
    BY <2>1, <2>2
<1>3. Waiting(f)' <=> Waiting(f)
  BY <1>2 DEF Waiting
<1>4. Pending(f)' <=> Pending(f)
  BY <1>1, <1>3 DEF Pending
<1>5. LastJobOf(f)'
  <2>1. \A j \in Request : Queuing(j, f) => (Trashing(j)' <=> Trashing(j))
    BY DEF Queuing, Trashing
  <2> QED
    BY <1>1, <1>2, <2>1 DEF FlagsFit, LastJobOf, LastAt, Trashing
<1>6. Active' = Active
  BY DEF Active
<1>7. ASSUME NEW j \in Active PROVE FlagsOf(j, f)' /\ (Holds(j, f)' <=> Holds(j, f))
  <2>1. j \in Request /\ req[j].pc \in {"tomb", "done"} /\ FlagsOf(j, f)
    BY DEF JobsOnce, Active, FlagsFit
  <2>2. req'[j].kind = req[j].kind /\ req'[j].of = req[j].of
    BY <2>1
  <2>3. Holds(j, f)' <=> Holds(j, f)
    BY <2>1, SameHold
  <2>4. CASE Pending(f)'
    BY <2>1, <2>2, <2>3, <2>4, SameFlags
  <2>5. CASE ~Pending(f)'
    BY <1>4, <2>1, <2>2, <2>3, <2>5, SameFlags
  <2> QED
    BY <2>4, <2>5, <2>3
<1>8. SettledOf(f)'
  BY <1>4, <1>6, <1>7 DEF FlagsFit, SettledOf
<1> QED
  BY <1>5, <1>6, <1>7, <1>8 DEF FlagsFit

\* The request has changed the row of f, and comes to queue its job.
LEMMA ChangeFit ==
  ASSUME TypeOK, JobsOnce, NEW f \in Folder, FlagsFit(f), ~Unqueued(f),
         UNCHANGED <<queue, walk, flag, links>>, NEW k \in Request,
         \A j \in Request : j # k => req'[j] = req[j],
         req[k].pc \notin {"tomb", "done"},
         req'[k].pc = "queue", req'[k].of = f, Trashing(k)' <=> row'[f] # 0
  PROVE  FlagsFit(f)'
<1>1. Unqueued(f)' /\ Pending(f)'
  BY DEF Unqueued, Pending
<1>2. \A j \in Request : Queuing(j, f)' => j = k
  BY DEF Unqueued, Queuing
<1>3. LastJobOf(f)'
  <2>1. \A j \in Request : Queuing(j, f)' => (Trashing(j)' <=> row'[f] # 0)
    BY <1>2 DEF Trashing
  <2> QED
    BY <1>1, <1>2, <2>1 DEF LastJobOf
<1>4. Active' = Active
  BY DEF Active
<1>5. ASSUME NEW j \in Active PROVE FlagsOf(j, f)'
  <2>1. j \in Request /\ j # k /\ FlagsOf(j, f)
    BY DEF JobsOnce, Active, FlagsFit
  <2> QED
    BY <1>1, <2>1, SameFlags
<1>6. SettledOf(f)'
  BY <1>1 DEF SettledOf
<1> QED
  BY <1>3, <1>4, <1>5, <1>6 DEF FlagsFit

LEMMA QueueFit ==
  ASSUME TypeOK, JobsOnce, NEW f \in Folder, FlagsFit(f), NEW k \in Request, QueueJob(k)
  PROVE  FlagsFit(f)'
<1> DEFINE n == Len(queue)
<1>1. /\ req[k].pc = "queue" /\ req'[k].of = req[k].of /\ req'[k].kind = req[k].kind
      /\ req'[k].pc \in {"tomb", "done"}
      /\ \A j \in Request : j # k => req'[j] = req[j]
  <2>1. ReqGoes(k, AfterQueue(k)) /\ AfterQueue(k) \in {"tomb", "done"} /\ req[k].pc = "queue"
    BY QueueJobGoes DEF AfterQueue
  <2> QED
    BY <2>1 DEF ReqGoes
<1>2. /\ n \in Nat /\ Len(queue') = n + 1 /\ queue'[n + 1] = k
      /\ \A i \in 1..n : queue'[i] = queue[i]
  BY QueueJobGoes
<1>3. UNCHANGED <<rows, flag, links, walk>> /\ Active' = Active
  BY DEF QueueJob, Active
<1>4. \A i \in 1..n : queue[i] \in Request
  BY InSeq DEF TypeOK
<1>5. \A j \in Request : req'[j].kind = req[j].kind /\ req'[j].of = req[j].of
  BY <1>1
<1>6. \A j \in Active : j \in Request /\ FlagsOf(j, f) /\ (Holds(j, f)' <=> Holds(j, f))
  BY <1>3, SameHold DEF Active, FlagsFit
<1>7. \A i \in 1..Len(queue') : i \in 1..n \/ i = n + 1
  BY <1>2
<1>8. \A i \in 1..n : i \in 1..Len(queue') /\ n + 1 > i
  BY <1>2
<1>9. n + 1 \in 1..Len(queue')
  BY <1>2
<1> HIDE DEF n
<1>10. CASE req[k].of = f
  <2>1. ~Unqueued(f)'
    BY <1>1, <1>10 DEF FlagsFit, LastJobOf, Unqueued, Queuing
  <2>2. Waiting(f)' /\ Pending(f)'
    BY <1>1, <1>2, <1>9, <1>10 DEF Waiting, Pending
  <2>3. ASSUME NEW i \in 1..Len(queue'), LastAt(i, f)' PROVE Trashing(queue[i])' <=> row'[f] # 0
    <3>1. i = n + 1
      BY <1>1, <1>2, <1>7, <1>8, <1>9, <1>10, <2>3 DEF LastAt
    <3>2. Trashing(k) <=> row[f] # 0
      BY <1>1, <1>10 DEF FlagsFit, LastJobOf, Queuing
    <3> QED
      BY <1>1, <1>2, <1>3, <3>1, <3>2 DEF Trashing, rows
  <2>4. LastJobOf(f)'
    <3>1. \A j \in Request : ~Queuing(j, f)'
      BY <2>1 DEF Unqueued, Queuing
    <3> QED
      BY <2>3, <3>1 DEF LastJobOf
  <2>5. \A j \in Active : FlagsOf(j, f)'
    BY <1>3, <1>5, <1>6, <2>2, SameFlags
  <2>6. SettledOf(f)'
    BY <2>2 DEF SettledOf
  <2> QED
    BY <1>3, <2>4, <2>5, <2>6 DEF FlagsFit
<1>11. CASE req[k].of # f
  <2>1. Unqueued(f)' <=> Unqueued(f)
    BY <1>1, <1>11 DEF Unqueued
  <2>2. Waiting(f)' <=> Waiting(f)
    <3>1. Waiting(f) <=> \E i \in 1..n : req[queue[i]].of = f
      BY DEF Waiting, n
    <3>2. Waiting(f)' <=> \E i \in 1..Len(queue') : req'[queue'[i]].of = f
      BY DEF Waiting
    <3> QED
      BY <1>1, <1>2, <1>4, <1>5, <1>7, <1>8, <1>11, <3>1, <3>2
  <2>3. Pending(f)' <=> Pending(f)
    BY <2>1, <2>2 DEF Pending
  <2>4. ASSUME NEW i \in 1..Len(queue'), LastAt(i, f)', ~Unqueued(f)
        PROVE  Trashing(queue[i])' <=> row'[f] # 0
    <3>1. i \in 1..n
      BY <1>1, <1>2, <1>7, <1>11, <2>4 DEF LastAt
    <3>2. LastAt(i, f)
      BY <1>2, <1>4, <1>5, <1>8, <2>4, <3>1 DEF LastAt, n
    <3>3. Trashing(queue[i]) <=> row[f] # 0
      BY <2>4, <3>1, <3>2 DEF FlagsFit, LastJobOf, n
    <3> QED
      BY <1>2, <1>3, <1>4, <1>5, <3>1, <3>3 DEF Trashing, rows
  <2>5. LastJobOf(f)'
    <3>1. \A j \in Request : /\ Queuing(j, f)' => Queuing(j, f)
                             /\ Trashing(j)' <=> Trashing(j)
      BY <1>1, <1>5, <1>11 DEF Trashing, Queuing
    <3>2. row'[f] = row[f]
      BY <1>3 DEF rows
    <3>3. \A j, h \in Request : Queuing(j, f)' /\ Queuing(h, f)' => j = h
      BY <3>1 DEF FlagsFit, LastJobOf
    <3>4. \A j \in Request : Queuing(j, f)' => (Trashing(j)' <=> row'[f] # 0)
      BY <3>1, <3>2 DEF FlagsFit, LastJobOf
    <3> QED
      BY <2>1, <2>4, <3>3, <3>4 DEF LastJobOf
  <2>6. \A j \in Active : FlagsOf(j, f)'
    <3>1. CASE Pending(f)'
      BY <1>3, <1>5, <1>6, <3>1, SameFlags
    <3>2. CASE ~Pending(f)'
      BY <1>3, <1>5, <1>6, <2>3, <3>2, SameFlags DEF rows
    <3> QED
      BY <3>1, <3>2
  <2>7. SettledOf(f)'
    BY <1>3, <1>6, <2>3 DEF FlagsFit, SettledOf, rows
  <2> QED
    BY <1>3, <2>5, <2>6, <2>7 DEF FlagsFit
<1> QED
  BY <1>10, <1>11

LEMMA FlagsFitStep ==
  ASSUME TypeOK, Shape, JobsOnce, IdsInOrder, PurgesTold, MarksAll, JobsOnce', MarksAll',
         [Next]_vars, NEW f \in Folder, Calm(f)', FlagsFit(f)
  PROVE  FlagsFit(f)'
<1>0. f \notin purged' \cup crossed' \cup broken'
  BY DEF Calm
\* A request that does not change the row of f, nor queue a job about it.
<1>a. ASSUME NEW k \in Request, UNCHANGED <<queue, walk, flag, links>>, row'[f] = row[f],
             \A j \in Request : j # k => req'[j] = req[j],
             req[k].pc # "new" => req'[k].kind = req[k].kind /\ req'[k].of = req[k].of,
             ~Queuing(k, f), ~Queuing(k, f)'
      PROVE  FlagsFit(f)'
  <2>1. \A j \in Request : Queuing(j, f)' <=> Queuing(j, f)
    BY <1>a DEF Queuing
  <2> QED
    BY <1>a, <2>1, AskFit
<1>1. ASSUME NEW k \in Request, NEW g \in Folder, SaveTrash(k, g) PROVE FlagsFit(f)'
  <2>1. /\ req[k].pc = "new" /\ \A j \in Request : j # k => req'[j] = req[j]
        /\ req'[k].kind = "trash" /\ req'[k].of = g
        /\ UNCHANGED <<queue, walk, flag, links>>
        /\ \/ /\ row[g] = 0 /\ InsertRow(g) /\ CrossedIf(g, Unqueued(g))
              /\ req'[k].pc = "queue"
           \/ req'[k].pc = "failed" /\ row' = row
    BY <1>1, SaveTrashGoes DEF rows
  <2>2. CASE row[g] = 0 /\ InsertRow(g) /\ CrossedIf(g, Unqueued(g)) /\ req'[k].pc = "queue"
    <3>1. /\ lastId \in Nat /\ row'[g] = lastId + 1
          /\ \A h \in Folder : h # g => row'[h] = row[h]
      BY <2>2, InsertRowDoes DEF TypeOK
    <3>2. CASE g = f
      <4>1. ~Unqueued(f)
        BY <1>0, <2>2, <3>2 DEF CrossedIf
      <4>2. Trashing(k)' <=> row'[f] # 0
        BY <2>1, <3>1, <3>2 DEF Trashing
      <4> QED
        BY <2>1, <2>2, <3>2, <4>1, <4>2, ChangeFit
    <3>3. CASE g # f
      BY <1>a, <2>1, <3>1, <3>3 DEF Queuing
    <3> QED
      BY <3>2, <3>3
  <2>3. CASE req'[k].pc = "failed" /\ row' = row
    BY <1>a, <2>1, <2>3 DEF Queuing
  <2> QED
    BY <2>1, <2>2, <2>3
<1>2. ASSUME NEW k \in Request, NEW g \in Folder, NEW kind \in {"recover", "purge"},
             FindTrash(k, kind, g)
      PROVE  FlagsFit(f)'
  <2>1. /\ req[k].pc = "new" /\ \A j \in Request : j # k => req'[j] = req[j]
        /\ req'[k].pc \in {"failed", "remove"}
        /\ UNCHANGED <<queue, walk, flag, links, row>>
    BY <1>2, FindTrashGoes DEF rows
  <2> QED
    BY <1>a, <2>1 DEF Queuing
<1>3. ASSUME NEW k \in Request, RemoveTrash(k) PROVE FlagsFit(f)'
  <2> DEFINE g  == req[k].of
             id == req[k].id
  <2>1. /\ req[k].pc = "remove" /\ g \in Folder /\ RemoveRow(g, id)
        /\ CrossedIf(g, Unqueued(g) \/ row[g] \notin {0, id})
        /\ UNCHANGED <<queue, walk, flag, links>>
    BY <1>3, RemoveTrashGoes DEF RemoveTrash
  <2>2. /\ req'[k].pc = "queue" /\ req'[k].kind = req[k].kind /\ req'[k].of = g
        /\ \A j \in Request : j # k => req'[j] = req[j]
    BY <1>3, RemoveTrashGoes DEF ReqGoes
  <2>3. id \in 1..lastId /\ ~Trashing(k)
    BY <2>1 DEF IdsInOrder, IdsOfRequest
  <2> HIDE DEF g, id
  <2>4. /\ row'[g] = IF row[g] = id THEN 0 ELSE row[g]
        /\ \A h \in Folder : h # g => row'[h] = row[h]
    BY <2>1, <2>3, RemoveRowDoes
  <2>5. CASE g = f
    <3>1. ~Unqueued(f) /\ row[f] \in {0, id}
      BY <1>0, <2>1, <2>5 DEF CrossedIf
    <3>2. Trashing(k)' <=> row'[f] # 0
      BY <2>2, <2>3, <2>4, <2>5, <3>1 DEF Trashing
    <3> QED
      BY <2>1, <2>2, <2>5, <3>1, <3>2, ChangeFit
  <2>6. CASE g # f
    <3>1. ~Queuing(k, f) /\ ~Queuing(k, f)'
      BY <2>1, <2>2, <2>6 DEF Queuing
    <3>2. req'[k].of = req[k].of
      BY <2>2 DEF g
    <3> QED
      BY <1>a, <2>1, <2>2, <2>4, <2>6, <3>1, <3>2
  <2> QED
    BY <2>5, <2>6
<1>4. ASSUME NEW k \in Request, QueueFails(k) PROVE FlagsFit(f)'
  <2> DEFINE p == IF serial THEN AfterQueue(k) ELSE "failed"
  <2>1. ReqGoes(k, p)
    BY <1>4, QueueFailsGoes
  <2>2. req[k].of # f /\ UNCHANGED <<queue, walk, flag, links, row>>
    BY <1>0, <1>4 DEF QueueFails, rows
  <2> HIDE DEF p
  <2>3. ~Queuing(k, f) /\ ~Queuing(k, f)'
    BY <2>1, <2>2 DEF Queuing, ReqGoes
  <2> QED
    BY <1>a, <2>1, <2>2, <2>3 DEF ReqGoes
<1>5. ASSUME NEW k \in Request, SaveTomb(k) PROVE FlagsFit(f)'
  <2>1. req[k].pc = "tomb" /\ ReqGoes(k, "done")
    BY <1>5, SaveTombGoes
  <2>2. UNCHANGED <<queue, walk, flag, links, row>>
    BY <1>5 DEF SaveTomb, AddTomb
  <2>3. ~Queuing(k, f) /\ ~Queuing(k, f)'
    BY <2>1 DEF Queuing, ReqGoes
  <2> QED
    BY <1>a, <2>1, <2>2, <2>3 DEF ReqGoes
<1>6. CASE UNCHANGED vars
  <2>1. UNCHANGED <<queue, walk, flag, links, row, req>>
    BY <1>6 DEF vars, rows
  <2>2. \A j \in Request : Queuing(j, f)' <=> Queuing(j, f)
    BY <2>1 DEF Queuing
  <2> QED
    BY <2>1, <2>2, AskFit
<1>7. ASSUME NEW k \in Request, Moves(k) PROVE FlagsFit(f)'
  BY <1>7, MovesFit
<1>8. ASSUME NEW k \in Request, Stops(k) PROVE FlagsFit(f)'
  BY <1>8, StopsFit
<1>9. ASSUME NEW k \in Request, QueueJob(k) PROVE FlagsFit(f)'
  BY <1>9, QueueFit
<1>10. StartWalk \/ Crash => FlagsFit(f)'
  BY StartFit, CrashFit
<1>11. ASSUME NEW k \in Request, TombFails(k) PROVE FlagsFit(f)'
  <2>1. req[k].pc = "tomb" /\ ReqGoes(k, "done")
    BY <1>11, TombFailsGoes
  <2>2. UNCHANGED <<queue, walk, flag, links, row>>
    BY <1>11 DEF TombFails, rows
  <2>3. ~Queuing(k, f) /\ ~Queuing(k, f)'
    BY <2>1 DEF Queuing, ReqGoes
  <2> QED
    BY <1>a, <2>1, <2>2, <2>3 DEF ReqGoes
<1> QED
  BY <1>1, <1>2, <1>3, <1>4, <1>5, <1>6, <1>7, <1>8, <1>9, <1>10, <1>11
  DEF Next, RequestStep, WalkStep, Moves, Stops

FlagInv == PurgesTold /\ MarksAll /\ \A f \in Folder : Calm(f) => FlagsFit(f)

LEMMA InitFlagInv ==
  ASSUME Init
  PROVE  FlagInv
<1>1. TombInv /\ Active = {}
  <2>1. \A k \in Request : walk[k].pc = "none"
    BY DEF Init, NoWalk
  <2> QED
    BY <2>1, InitTombInv DEF Active
<1>2. \A k \in Request : req[k].pc = "new"
  BY DEF Init, NoRequest
<1>3. queue = <<>> /\ Len(queue) = 0
  BY EmptySeq DEF Init
<1>4. PurgesTold /\ MarksAll
  BY <1>1, <1>2 DEF PurgesTold, MarksAll
<1>5. ASSUME NEW f \in Folder PROVE FlagsFit(f)
  <2>1. (flag[f] <=> row[f] # 0) /\ (links[f] <=> flag[f])
    BY DEF Init
  <2>2. LastJobOf(f)
    BY <1>2, <1>3 DEF LastJobOf, Queuing
  <2> QED
    BY <1>1, <2>1, <2>2 DEF FlagsFit, SettledOf
<1> QED
  BY <1>4, <1>5 DEF FlagInv

LEMMA FlagInvStep ==
  ASSUME TombInv, TombInv', FlagInv, [Next]_vars
  PROVE  FlagInv'
<1>1. PurgesTold' /\ MarksAll'
  BY PurgesStep, MarksAllStep DEF TombInv, FlagInv
<1>2. ASSUME NEW f \in Folder, Calm(f)' PROVE FlagsFit(f)'
  <2>1. Calm(f)
    BY <1>2, CalmBefore DEF TombInv
  <2> QED
    BY <1>1, <1>2, <2>1, FlagsFitStep DEF TombInv, FlagInv
<1> QED
  BY <1>1, <1>2 DEF FlagInv

LEMMA FlagInvAlways == Spec => []FlagInv
<1>1. Init => FlagInv
  BY InitFlagInv
<1>2. TombInv /\ TombInv' /\ FlagInv /\ [Next]_vars => FlagInv'
  BY FlagInvStep
<1> QED
  BY <1>1, <1>2, TombInvAlways, PTL DEF Spec

\* When nobody is at work, only what the properties allow for keeps a folder from being calm.
LEMMA QuietCalm ==
  ASSUME TombInv, Quiet, NEW f \in Folder, f \notin purged \cup crossed \cup broken, ~Raced(f)
  PROVE  Calm(f) /\ ~Pending(f)
<1>1. Active = {} /\ queue = <<>> /\ Len(queue) = 0
  BY EmptySeq DEF Quiet
<1>2. ~Pending(f)
  BY <1>1 DEF Quiet, Pending, Unqueued, Waiting
<1>3. \A k \in Request : ~Commits(k, f)
  BY <1>1, CommitsHolds DEF TombInv
<1>4. ~Racing(f)
  <2>1. SUFFICES ASSUME NEW P \in met, \A k \in P : Marks(k, f) PROVE FALSE
    BY DEF Racing
  <2>2. P \subseteq Request
    BY DEF TombInv, TypeOK
  <2>3. \A k \in P : f \in touched[k]
    BY <1>3, <2>1, <2>2 DEF Marks
  <2> QED
    BY <2>3 DEF Raced
<1> QED
  BY <1>2, <1>4 DEF Calm

\* When all is done, the folders with a row are those with the flag, and so are their links,
\* however many requests and walks of however deep a tree interleave: FlagsAreRows always holds.
THEOREM FlagsAlwaysRows == Spec => []FlagsAreRows
<1>1. TombInv /\ FlagInv => FlagsAreRows
  <2>1. SUFFICES ASSUME TombInv, FlagInv, Quiet,
                        NEW f \in Folder \ (purged \cup crossed \cup broken), ~Raced(f)
                 PROVE  flag[f] = (row[f] # 0) /\ links[f] = flag[f]
    BY DEF FlagsAreRows
  <2>2. Calm(f) /\ ~Pending(f) /\ Active = {}
    BY <2>1, QuietCalm DEF Quiet
  <2>3. SettledOf(f)
    BY <2>1, <2>2 DEF FlagInv, FlagsFit
  <2>4. flag[f] \in BOOLEAN /\ links[f] \in BOOLEAN
    BY <2>1 DEF TombInv, TypeOK
  <2>5. (flag[f] <=> row[f] # 0) /\ (links[f] <=> flag[f])
    BY <2>2, <2>3 DEF SettledOf
  <2> QED
    BY <2>4, <2>5
<1> QED
  BY <1>1, TombInvAlways, FlagInvAlways, PTL

-----------------------------------------------------------------------------
(* What is below a trashed folder *)

\* The walk of k will set the flag of f, or clear that of p, its parent.
SeesTo(k, p, f) ==
  \/ Commits(k, p)
  \/ Trashing(k) /\ \/ walk[k].pc \in {"links", "children"} /\ walk[k].at = p
                    \/ f \in Todo(k)
                    \/ walk[k].pc = "flag" /\ walk[k].at = f
  \/ ~Trashing(k) /\ walk[k].pc \in {"links", "parent", "rows"} /\ walk[k].at = f

Seen(p, f) == \E k \in Active : SeesTo(k, p, f)

\* While no job about a calm folder is to come, walks see to all that is live below it.
BelowFits(p, f) == Calm(p) /\ ~Pending(p) /\ flag[p] /\ ~flag[f] => Seen(p, f)

BelowInv == \A f \in Folder \ unwalked : Parent[f] # None => BelowFits(Parent[f], f)

LEMMA SameSees ==
  ASSUME NEW k \in Request, NEW p \in Folder, NEW f \in Folder, walk'[k] = walk[k],
         req'[k].kind = req[k].kind, SeesTo(k, p, f)
  PROVE  SeesTo(k, p, f)'
  BY DEF SeesTo, Commits, Trashing, Todo

\* A walk that is given up leaves marks on what it would have seen to.
LEMMA UnseenMarks ==
  ASSUME TypeOK, Shape, NEW S, S \subseteq Active, GiveUp(S), NEW k \in S,
         NEW f \in Folder, NEW p \in Folder, Parent[f] = p, SeesTo(k, p, f)
  PROVE  f \in unwalked' \/ p \in broken'
<1>0. k \in Active /\ k \in Request /\ unwalked' = unwalked \cup UNION {Unreached(j) : j \in S}
  BY DEF GiveUp, Active
<1>1. CASE Commits(k, p)
  BY <1>0, <1>1, CommitsHolds, HoldsBreak
<1>2. CASE ~Commits(k, p)
  <2>1. f \in Unreached(k)
    <3>1. CASE Trashing(k)
      <4>1. walk[k].pc \in {"flag", "links", "children", "next"}
        BY <1>0, <3>1 DEF Shape, ShapeOf
      <4>2. f \in Children(p)
        BY DEF Children
      <4> QED
        BY <1>2, <3>1, <4>1, <4>2 DEF SeesTo, Unreached, Todo
    <3>2. CASE ~Trashing(k)
      BY <1>2, <3>2 DEF SeesTo, Unreached
    <3> QED
      BY <3>1, <3>2
  <2> QED
    BY <1>0, <2>1
<1> QED
  BY <1>1, <1>2

\* A walk up that finds its parent without a row finds it without the flag as well, but for a
\* walk that is about to clear the flag.
LEMMA NoRowSeen ==
  ASSUME TypeOK, NEW p \in Folder, NEW f \in Folder, FlagsFit(p), ~Pending(p), flag[p], row[p] = 0
  PROVE  \E j \in Active : Commits(j, p)
<1>1. SUFFICES ASSUME \A j \in Active : ~Commits(j, p) PROVE FALSE
  OBVIOUS
<1>2. \A j \in Active : ~Holds(j, p)
  BY <1>1 DEF FlagsFit, FlagsOf
<1> QED
  BY <1>2 DEF FlagsFit, SettledOf

LEMMA MovesBelow ==
  ASSUME TypeOK, Shape, NEW p \in Folder, NEW f \in Folder, Parent[f] = p,
         FlagsFit(p), ~Pending(p), flag'[p], ~flag'[f],
         flag[p] /\ ~flag[f] => Seen(p, f), NEW k \in Request, Moves(k)
  PROVE  Seen(p, f)'
<1>0. /\ k \in Active /\ walk[k].at \in Folder /\ Active' = Active /\ UNCHANGED req
      /\ \A j \in Request : j # k => walk'[j] = walk[j]
  BY MovesGo
<1>a. Active \subseteq Request /\ (Trashing(k)' <=> Trashing(k)) /\ ShapeOf(k) /\ p # None
  BY <1>0, ParentAssumption DEF Active, Trashing, Shape
<1>b. ASSUME SeesTo(k, p, f)' PROVE Seen(p, f)'
  BY <1>0, <1>b DEF Seen
<1>c. ASSUME NEW j \in Active, j # k, SeesTo(j, p, f) PROVE Seen(p, f)'
  <2>1. SeesTo(j, p, f)' /\ j \in Active'
    BY <1>0, <1>a, <1>c, SameSees
  <2> QED
    BY <2>1 DEF Seen
\* The flags stay, and so the walk that saw to f is that of k, or does so still.
<1>d. ASSUME flag'[p] = flag[p], flag'[f] = flag[f], SeesTo(k, p, f) => Seen(p, f)'
      PROVE  Seen(p, f)'
  <2>1. PICK j \in Active : SeesTo(j, p, f)
    BY <1>d DEF Seen
  <2> QED
    BY <1>c, <1>d, <2>1
<1>1. CASE SetFlag(k)
  <2>1. /\ walk[k].pc = "flag" /\ walk'[k].pc = "links" /\ walk'[k].at = walk[k].at
        /\ Todo(k)' = Todo(k)
    BY <1>1, SetFlagGoes DEF GoesTo, SameTodo
  <2>2. flag' = [flag EXCEPT ![walk[k].at] = Trashing(k)] /\ flag \in [Folder -> BOOLEAN]
    BY <1>1 DEF SetFlag, TypeOK
  <2>3. CASE walk[k].at = p
    <3>1. Trashing(k)
      BY <2>2, <2>3
    <3> QED
      BY <1>a, <1>b, <2>1, <2>3, <3>1 DEF SeesTo
  <2>4. CASE walk[k].at = f
    <3>1. ~Trashing(k)
      BY <2>2, <2>4
    <3> QED
      BY <1>a, <1>b, <2>1, <2>4, <3>1 DEF SeesTo
  <2>5. CASE walk[k].at # p /\ walk[k].at # f
    <3>1. flag'[p] = flag[p] /\ flag'[f] = flag[f]
      BY <2>2, <2>5
    <3>2. SeesTo(k, p, f) => SeesTo(k, p, f)'
      BY <1>a, <2>1, <2>5 DEF SeesTo, Commits
    <3> QED
      BY <1>b, <1>d, <3>1, <3>2
  <2> QED
    BY <2>3, <2>4, <2>5
<1>2. CASE SetLinks(k)
  <2>1. /\ walk[k].pc = "links" /\ walk'[k].pc = IF Trashing(k) THEN "children" ELSE "parent"
        /\ walk'[k].at = walk[k].at /\ Todo(k)' = Todo(k)
    BY <1>2, SetLinksGoes DEF GoesTo, SameTodo
  <2>2. SeesTo(k, p, f) => SeesTo(k, p, f)'
    BY <1>a, <2>1 DEF SeesTo, Commits
  <2> QED
    BY <1>2, <1>b, <1>d, <2>2 DEF SetLinks
<1>3. CASE ReadChildren(k)
  <2>1. /\ walk[k].pc = "children" /\ walk'[k].pc = "next"
        /\ Todo(k)' = Todo(k) \cup LiveChildren(k) /\ flag' = flag
    BY <1>3, ReadChildrenGoes DEF GoesTo, ReadChildren
  <2>2. walk[k].at = p => f \in LiveChildren(k)
    BY <2>1 DEF LiveChildren, Children
  <2>3. SeesTo(k, p, f) => SeesTo(k, p, f)'
    BY <1>a, <2>1, <2>2 DEF SeesTo, Commits, ShapeOf
  <2> QED
    BY <1>b, <1>d, <2>1, <2>3
<1>4. CASE TrashChild(k)
  <2> DEFINE c == Head(walk[k].todo)
  <2>1. /\ walk[k].pc = "next" /\ walk'[k].pc = "flag" /\ walk'[k].at = c
        /\ Todo(k) = {c} \cup Todo(k)' /\ flag' = flag
    BY <1>4, TrashChildGoes DEF GoesTo, TrashChild
  <2> HIDE DEF c
  <2>2. SeesTo(k, p, f) => SeesTo(k, p, f)'
    BY <1>a, <2>1 DEF SeesTo, Commits
  <2> QED
    BY <1>b, <1>d, <2>1, <2>2
<1>5. CASE ReadParent(k)
  <2>1. /\ walk[k].pc = "parent" /\ walk'[k].at = walk[k].at /\ Todo(k)' = Todo(k) /\ flag' = flag
        /\ walk'[k].pc = IF TrashedParent(Parent[walk[k].at]) THEN "rows" ELSE "back"
    BY <1>5, ReadParentGoes DEF GoesTo, SameTodo, ReadParent
  <2>2. walk[k].at = f => walk'[k].pc = "rows"
    BY <1>a, <2>1 DEF TrashedParent
  <2>3. SeesTo(k, p, f) => SeesTo(k, p, f)'
    BY <1>a, <2>1, <2>2 DEF SeesTo, Commits
  <2> QED
    BY <1>b, <1>d, <2>1, <2>3
<1>6. CASE ReadRows(k)
  <2>0. walk[k].pc = "rows" /\ flag' = flag /\ Parent[walk[k].at] # None
    BY <1>6, <1>a DEF ReadRows, ShapeOf
  <2>1. CASE walk[k].at # f
    <3>1. Todo(k)' = Todo(k)
      BY <1>6, <2>0, ReadRowsGoes DEF SameTodo
    <3>2. SeesTo(k, p, f) => SeesTo(k, p, f)'
      BY <1>a, <2>0, <2>1, <3>1 DEF SeesTo, Commits
    <3> QED
      BY <1>b, <1>d, <2>0, <3>2
  <2>2. CASE walk[k].at = f /\ row[p] # 0
    <3>1. walk'[k].pc = "tomb" /\ Head(walk'[k].back) = <<p, row[p]>>
      BY <1>6, <2>0, <2>2, ReadRowsGoes DEF GoesTo
    <3>2. Commits(k, p)'
      BY <3>1 DEF Commits
    <3> QED
      BY <1>b, <3>2 DEF SeesTo
  <2>3. CASE walk[k].at = f /\ row[p] = 0
    <3>1. PICK j \in Active : Commits(j, p)
      BY <2>0, <2>3, NoRowSeen
    <3>2. j # k
      BY <2>0, <3>1 DEF Commits
    <3> QED
      BY <1>c, <3>1, <3>2 DEF SeesTo
  <2> QED
    BY <2>1, <2>2, <2>3
<1>7. CASE TombParent(k)
  <2>1. walk[k].pc = "tomb" /\ walk[k].back # <<>> /\ flag' = flag
    BY <1>7, <1>a DEF TombParent, ShapeOf
  <2>2. walk'[k].pc = "flag" /\ walk'[k].at = Head(walk[k].back)[1] /\ Todo(k)' = Todo(k)
    BY <1>7, <2>1, TombParentGoes DEF GoesTo, SameTodo
  <2>3. SeesTo(k, p, f) => SeesTo(k, p, f)'
    BY <1>a, <2>1, <2>2 DEF SeesTo, Commits
  <2> QED
    BY <1>b, <1>d, <2>1, <2>3
<1>8. CASE GoBack(k)
  <2>1. walk[k].pc = "back" /\ flag' = flag /\ walk[k].todo = <<>>
    BY <1>8, <1>0, <1>a DEF GoBack, ShapeOf
  <2>2. Todo(k) = {}
    BY <2>1, TypeOfWalks DEF WalkTypes
  <2>3. ~SeesTo(k, p, f)
    BY <2>1, <2>2 DEF SeesTo, Commits
  <2> QED
    BY <1>d, <2>1, <2>3
<1> QED
  BY <1>1, <1>2, <1>3, <1>4, <1>5, <1>6, <1>7, <1>8 DEF Moves

LEMMA StopsBelow ==
  ASSUME TypeOK, Shape, NEW p \in Folder, NEW f \in Folder, Parent[f] = p,
         Calm(p)', f \notin unwalked', Seen(p, f), NEW k \in Request, Stops(k)
  PROVE  Seen(p, f)'
<1>1. /\ k \in Active /\ GoesTo(k, "over", None) /\ Active' = Active \ {k} /\ UNCHANGED req
  BY StopsGo
<1>2. PICK j \in Active : SeesTo(j, p, f)
  BY DEF Seen
<1>3. j # k
  <2>1. SUFFICES ASSUME SeesTo(k, p, f) PROVE FALSE
    BY <1>2
  <2>2. CASE EndWalk(k)
    <3>1. /\ walk[k].pc \in {"next", "back"} /\ walk[k].todo = <<>>
      BY <2>2 DEF EndWalk
    <3>2. Todo(k) = {}
      BY <3>1, TypeOfWalks DEF WalkTypes
    <3> QED
      BY <2>1, <3>1, <3>2 DEF SeesTo, Commits
  <2>3. CASE ChildHasRow(k) \/ WalkFails(k)
    <3>1. GiveUp({k}) /\ {k} \subseteq Active /\ p \notin broken'
      BY <1>1, <2>3 DEF ChildHasRow, WalkFails, Calm
    <3> QED
      BY <2>1, <3>1, UnseenMarks
  <2> QED
    BY <2>2, <2>3 DEF Stops
<1>4. j \in Request /\ j \in Active' /\ walk'[j] = walk[j] /\ req'[j].kind = req[j].kind
  BY <1>1, <1>2, <1>3 DEF GoesTo, Active
<1> QED
  BY <1>2, <1>4, SameSees DEF Seen

LEMMA StartBelow ==
  ASSUME TypeOK, Shape, JobsOnce, PurgesTold, NEW p \in Folder, NEW f \in Folder, Parent[f] = p,
         Calm(p)', ~Pending(p)', ~Pending(p) => Seen(p, f), StartWalk
  PROVE  Seen(p, f)'
<1>0. PICK k \in Request : k = Head(queue)
  BY StartsOne
<1>1. /\ UNCHANGED <<req, purged>>
      /\ \A j \in Request : j # k => walk'[j] = walk[j]
      /\ req[k].kind # "purge" => GoesTo(k, "flag", req[k].of)
  BY <1>0, StartGoes DEF GoesTo
<1>2. /\ k \notin Active /\ req[k].pc \in {"tomb", "done"}
      /\ Active' = IF req[k].kind = "purge" THEN Active ELSE Active \cup {k}
  BY <1>0, StartActive
<1>3. CASE req[k].of = p
  <2>1. req[k].kind # "purge"
    BY <1>1, <1>2, <1>3 DEF PurgesTold, Calm
  <2>2. k \in Active' /\ Commits(k, p)'
    BY <1>1, <1>2, <1>3, <2>1 DEF Commits, GoesTo
  <2> QED
    BY <2>2 DEF Seen, SeesTo
<1>4. CASE req[k].of # p
  <2>1. ~Pending(p)
    BY <1>0, <1>4, StartPending
  <2>2. PICK j \in Active : SeesTo(j, p, f)
    BY <2>1 DEF Seen
  <2>3. j \in Request /\ j \in Active' /\ walk'[j] = walk[j] /\ req'[j].kind = req[j].kind
    BY <1>1, <1>2, <2>2 DEF Active
  <2> QED
    BY <2>2, <2>3, SameSees DEF Seen
<1> QED
  BY <1>3, <1>4

\* A job about p that is still to come, or waits, does so after the step of a request.
LEMMA PendingStays ==
  ASSUME TypeOK, JobsOnce, NEW p \in Folder, p \notin broken', Pending(p), NEW k \in Request,
         \/ QueueJob(k)
         \/ \E g \in Folder : \/ SaveTrash(k, g)
                              \/ \E kind \in {"recover", "purge"} : FindTrash(k, kind, g)
         \/ RemoveTrash(k) \/ QueueFails(k) \/ SaveTomb(k) \/ TombFails(k)
  PROVE  Pending(p)'
<1>1. \A i \in 1..Len(queue) : queue[i] \in Request /\ req[queue[i]].pc \in {"tomb", "done"}
  <2>1. \A i \in 1..Len(queue) : queue[i] \in Request /\ queue[i] \in ToSet(queue)
    BY InSeq DEF TypeOK
  <2> QED
    BY <2>1 DEF JobsOnce
<1>2. CASE QueueJob(k)
  <2>1. /\ req[k].pc = "queue" /\ ReqGoes(k, AfterQueue(k)) /\ Len(queue) \in Nat
        /\ Len(queue') = Len(queue) + 1 /\ queue'[Len(queue) + 1] = k
        /\ \A i \in 1..Len(queue) : queue'[i] = queue[i]
    BY <1>2, QueueJobGoes
  <2>2. \A j \in Request : req'[j].of = req[j].of
    BY <2>1 DEF ReqGoes
  <2>3. CASE req[k].of = p
    <3>1. Len(queue) + 1 \in 1..Len(queue')
      BY <2>1
    <3> QED
      BY <2>1, <2>2, <2>3, <3>1 DEF Pending, Waiting
  <2>4. CASE req[k].of # p
    <3>1. Unqueued(p) => Unqueued(p)'
      BY <2>1, <2>4 DEF Unqueued, ReqGoes
    <3>2. \A i \in 1..Len(queue) : i \in 1..Len(queue')
      BY <2>1
    <3>3. Waiting(p) => Waiting(p)'
      BY <1>1, <2>1, <2>2, <3>2 DEF Waiting
    <3> QED
      BY <3>1, <3>3 DEF Pending
  <2> QED
    BY <2>3, <2>4
<1>3. CASE ~QueueJob(k)
  <2>1. /\ queue' = queue /\ \A j \in Request : j # k => req'[j] = req[j]
        /\ req[k].pc # "new" => req'[k].of = req[k].of
    BY <1>3, MadeGoes
  <2>2. Waiting(p) => Waiting(p)'
    BY <1>1, <2>1 DEF Waiting
  <2>3. req[k].pc = "queue" /\ req[k].of = p => FALSE
    <3>1. SUFFICES ASSUME req[k].pc = "queue", req[k].of = p PROVE FALSE
      OBVIOUS
    <3>2. QueueFails(k)
      BY <1>3, <3>1 DEF SaveTrash, FindTrash, RemoveTrash, SaveTomb, TombFails
    <3> QED
      BY <3>1, <3>2 DEF QueueFails
  <2>4. Unqueued(p) => Unqueued(p)'
    BY <2>1, <2>3 DEF Unqueued
  <2> QED
    BY <2>2, <2>4 DEF Pending
<1> QED
  BY <1>2, <1>3

LEMMA BelowStep ==
  ASSUME TombInv, FlagInv, [Next]_vars, NEW p \in Folder, NEW f \in Folder, Parent[f] = p,
         BelowFits(p, f), f \notin unwalked',
         Calm(p)', ~Pending(p)', flag'[p], ~flag'[f]
  PROVE  Seen(p, f)'
<1>0. /\ TypeOK /\ Shape /\ JobsOnce /\ PurgesTold /\ Calm(p) /\ FlagsFit(p) /\ p \notin broken'
      /\ Active \subseteq Request
  BY CalmBefore DEF TombInv, FlagInv, Calm, Active
<1>1. ASSUME NEW k \in Request, Moves(k) PROVE Seen(p, f)'
  <2>1. ~Pending(p)
    BY <1>0, <1>1, MovesGo, SamePending
  <2> QED
    BY <1>0, <1>1, <2>1, MovesBelow DEF BelowFits
<1>2. ASSUME NEW k \in Request, Stops(k) PROVE Seen(p, f)'
  <2>1. ~Pending(p) /\ flag' = flag
    BY <1>0, <1>2, StopsGo, SamePending
  <2> QED
    BY <1>0, <1>2, <2>1, StopsBelow DEF BelowFits
<1>3. CASE StartWalk
  <2>1. flag' = flag
    BY <1>3 DEF StartWalk
  <2> QED
    BY <1>0, <1>3, <2>1, StartBelow DEF BelowFits
<1>4. CASE Crash
  <2>1. GiveUp(Active) /\ UNCHANGED <<flag, req>>
    BY <1>4 DEF Crash
  <2>2. \A k \in Active : ~SeesTo(k, p, f)
    BY <1>0, <2>1, UnseenMarks
  <2>3. Pending(p)
    BY <1>0, <2>1, <2>2 DEF BelowFits, Seen
  <2>4. Unqueued(p) => Unqueued(p)'
    BY <2>1 DEF Unqueued
  <2>5. Waiting(p) => Waiting(p)'
    <3>1. CASE ~serial
      BY <1>0, <1>4, <2>1, <3>1, CrashGoes DEF Waiting
    <3>2. CASE serial
      <4>1. PICK k \in Active : queue' = <<k>> \o queue
        BY <1>0, <1>4, <3>2, CrashGoes
      <4>2. /\ Len(queue) \in Nat /\ Len(queue') = Len(queue) + 1
            /\ \A i \in 1..Len(queue) : queue'[i + 1] = queue[i]
        BY <1>0, <4>1, CrashQueue
      <4>3. \A i \in 1..Len(queue) : i + 1 \in 1..Len(queue')
        BY <4>2
      <4> QED
        BY <2>1, <4>2, <4>3 DEF Waiting
    <3> QED
      BY <3>1, <3>2
  <2> QED
    BY <2>3, <2>4, <2>5 DEF Pending
<1>5. ASSUME NEW k \in Request,
             \/ QueueJob(k)
             \/ \E g \in Folder : \/ SaveTrash(k, g)
                                  \/ \E kind \in {"recover", "purge"} : FindTrash(k, kind, g)
             \/ RemoveTrash(k) \/ QueueFails(k) \/ SaveTomb(k) \/ TombFails(k)
      PROVE  Seen(p, f)'
  <2>1. ~Pending(p)
    BY <1>0, <1>5, PendingStays
  <2>2. UNCHANGED <<walk, flag>>
    BY <1>0, <1>5, MadeGoes DEF QueueJob
  <2>3. PICK j \in Active : SeesTo(j, p, f)
    BY <1>0, <2>1, <2>2 DEF BelowFits, Seen
  <2>4. req'[j].kind = req[j].kind
    <3>1. req[j].pc \in {"tomb", "done"} /\ j \in Request
      BY <1>0 DEF JobsOnce
    <3>2. CASE QueueJob(k)
      BY <1>0, <3>1, <3>2, QueueJobGoes DEF ReqGoes
    <3> QED
      BY <1>0, <1>5, <3>1, <3>2, MadeGoes
  <2>5. Active' = Active
    BY <2>2 DEF Active
  <2> QED
    BY <1>0, <2>2, <2>3, <2>4, <2>5, SameSees DEF Seen
<1>6. CASE UNCHANGED vars
  <2>1. UNCHANGED <<req, queue, walk, flag>> /\ Active' = Active
    BY <1>6 DEF vars, Active
  <2>2. ~Pending(p)
    BY <2>1, SamePending
  <2>3. PICK j \in Active : SeesTo(j, p, f)
    BY <1>0, <2>1, <2>2 DEF BelowFits, Seen
  <2> QED
    BY <1>0, <2>1, <2>3, SameSees DEF Seen
<1> QED
  BY <1>1, <1>2, <1>3, <1>4, <1>5, <1>6 DEF Next, RequestStep, WalkStep, Moves, Stops

LEMMA BelowInvStep ==
  ASSUME TombInv, FlagInv, BelowInv, [Next]_vars
  PROVE  BelowInv'
<1>1. unwalked \subseteq unwalked'
  BY DEF Next, RequestStep, WalkStep, SaveTrash, FindTrash, RemoveTrash, QueueJob, QueueFails,
         SaveTomb, TombFails, StartWalk, SetFlag, SetLinks, ReadChildren, TrashChild, ReadParent,
         ReadRows, TombParent, GoBack, EndWalk, GiveUp, ChildHasRow, WalkFails, Crash, history, vars
<1>2. ASSUME NEW f \in Folder, f \notin unwalked', NEW p \in Folder, p = Parent[f]
      PROVE  BelowFits(p, f)'
  <2>1. BelowFits(p, f)
    BY <1>1, <1>2, ParentAssumption DEF BelowInv
  <2> QED
    BY <1>2, <2>1, BelowStep DEF BelowFits
<1>3. \A f \in Folder : Parent[f] # None => Parent[f] \in Folder
  BY ParentAssumption
<1> QED
  BY <1>2, <1>3 DEF BelowInv

LEMMA BelowInvAlways == Spec => []BelowInv
<1>1. Init => BelowInv
  <2>1. SUFFICES ASSUME Init, NEW f \in Folder, Parent[f] # None
                 PROVE  BelowFits(Parent[f], f)
    BY DEF BelowInv
  <2>2. PICK S \in SUBSET Folder : InOrder(S) /\ flag = [g \in Folder |-> g \in S]
    BY <2>1 DEF Init
  <2>3. Parent[f] \in Folder /\ f \in Children(Parent[f])
    BY <2>1, ParentAssumption DEF Children
  <2>4. flag[Parent[f]] => flag[f]
    BY <2>2, <2>3 DEF InOrder
  <2> QED
    BY <2>4 DEF BelowFits
<1>2. TombInv /\ FlagInv /\ BelowInv /\ [Next]_vars => BelowInv'
  BY BelowInvStep
<1> QED
  BY <1>1, <1>2, TombInvAlways, FlagInvAlways, PTL DEF Spec

\* When all is done, no live folder is below a trashed one, however deep the tree and however
\* many requests and walks interleave: NoneLiveBelow always holds.
THEOREM NeverLiveBelow == Spec => []NoneLiveBelow
<1>1. TombInv /\ FlagInv /\ BelowInv => NoneLiveBelow
  <2>1. SUFFICES ASSUME TombInv, FlagInv, BelowInv, Quiet, NEW f \in Folder \ unwalked,
                        NEW p \in Folder, p = Parent[f], flag[p], ~flag[f],
                        p \notin purged \cup crossed \cup broken, ~Raced(p)
                 PROVE  FALSE
    BY ParentAssumption DEF NoneLiveBelow
  <2>2. Calm(p) /\ ~Pending(p) /\ Active = {}
    BY <2>1, QuietCalm DEF Quiet
  <2>3. BelowFits(p, f)
    BY <2>1, ParentAssumption DEF BelowInv
  <2> QED
    BY <2>1, <2>2, <2>3 DEF BelowFits, Seen
<1> QED
  BY <1>1, TombInvAlways, FlagInvAlways, BelowInvAlways, PTL

=============================================================================
