--------------------------- MODULE ProviderProofs ---------------------------
(***************************************************************************)
(* Proofs about the provider's side, for every number of drivers, runs,    *)
(* calls, days and faults:                                                 *)
(*                                                                         *)
(*   CacheIsTrusted   what a driver installs and boots is whole and        *)
(*                    verified (Provision);                                *)
(*   AgentUsesRelay   the agent is an agent of Relay;                      *)
(*   EffectsOnce      a repeated call has no second effect (Agent);        *)
(*   NoneWasted       no challenge is spent on an attestation that could   *)
(*                    be reused (Agent).                                   *)
(***************************************************************************)
EXTENDS RelayProofs, Agent, Provision, FiniteSetTheorems, WellFoundedInduction

-----------------------------------------------------------------------------
(* Provision: the inductive invariant                                      *)

Slots == 2 * Cardinality(Asset) + Cardinality(Driver)

DriverState ==
  [pc: {"off", "image", "get", "stream", "rename", "extract", "boot"}, a: Asset, ino: 0..Slots,
   got: 0..Chunks, clean: BOOLEAN, sized: BOOLEAN, m: 0..(2 * Members)]

ProvType ==
  /\ drv \in [Driver -> DriverState]
  /\ partOf \in [Asset -> 0..Slots] /\ destOf \in [Asset -> 0..Slots]
  /\ data \in [Inode -> [1..Chunks -> {"none", "good", "bad"}]]
  /\ tree \in [1..Members -> {"none", "part", "whole"}]
  /\ mishaps \in 0..MaxMishaps /\ shared \subseteq Asset /\ unsized \subseteq Asset /\ disturbed \in BOOLEAN

\* A driver has a file open exactly while it downloads.
OpenWhile ==
  \A d \in Driver : /\ drv[d].ino # 0 <=> drv[d].pc \in {"stream", "rename"}
                    /\ drv[d].pc = "off" => drv[d] = Off
                    /\ drv[d].pc = "rename" => Verified(drv[d])

\* The files of one asset: its .part, the installed one, and those being written.
FilesOf(a) == ({partOf[a], destOf[a]} \cup {drv[d].ino : d \in {d \in Driver : drv[d].a = a}}) \ {0}

FilesApart ==
  /\ FilesOf("tarball") \cap FilesOf("image") = {}
  /\ \A a \in Asset : partOf[a] # 0 => partOf[a] # destOf[a]

\* An asset that was never downloaded twice at a time has one writer, on its .part.
OneWriter ==
  \A a \in Asset \ shared :
    /\ \A d, e \in Driver : drv[d].ino # 0 /\ drv[e].ino # 0 /\ drv[d].a = a /\ drv[e].a = a => d = e
    /\ \A d \in Driver : drv[d].ino # 0 /\ drv[d].a = a => drv[d].ino = partOf[a]

\* What it has received is there, and good unless the stream was damaged.
Received ==
  \A d \in Driver : drv[d].ino # 0 /\ drv[d].a \notin shared =>
    \A i \in 1..drv[d].got : LET v == data[drv[d].ino][i] IN v # "none" /\ (drv[d].clean => v = "good")

Filled(v) == \A m \in 1..Members : tree[m] = v

\* How far the extraction is by its m half steps.
TreeAt(k) ==
  \A m \in 1..Members :
    tree[m] = IF m <= k \div 2 THEN "whole" ELSE IF m = k \div 2 + 1 /\ k % 2 = 1 THEN "part" ELSE "none"

Fetches(e, a) == e.pc \in {"get", "stream", "rename"} /\ e.a = a
PastRuntime(e) == e.pc \in {"image", "boot"} \/ Fetches(e, "image")

\* Undisturbed, the tree is untouched until one driver alone extracts it to the end.
TreeAsExtracted ==
  ~ disturbed =>
    /\ Extracting = {} => Filled("none") \/ Filled("whole")
    /\ \A d \in Extracting : TreeAt(drv[d].m)
    /\ \A d \in Driver : Fetches(drv[d], "tarball") => Filled("none")
    /\ \A d \in Driver : PastRuntime(drv[d]) => Filled("whole")

ProvInv ==
  /\ ProvType /\ OpenWhile /\ FilesApart /\ OneWriter /\ Received
  /\ ImageVerified /\ TarballComplete /\ TreeAsExtracted

LEMMA LeastNatural ==
  ASSUME NEW T \in SUBSET Nat, T # {}
  PROVE  \E k \in T : \A j \in T : k <= j
<1> DEFINE R == {ss \in Nat \X Nat : ss[1] < ss[2]}
<1>1. IsWellFoundedOn(R, Nat)
  BY NatLessThanWellFounded DEF OpToRel
<1> HIDE DEF R
<1>2. PICK k \in T : \A j \in T : ~ (<<j, k>> \in R)
  BY <1>1, WFMin
<1>3. ASSUME NEW j \in T PROVE k <= j
  <2>1. j \in Nat /\ k \in Nat
    OBVIOUS
  <2>2. j < k => <<j, k>> \in R
    BY <2>1 DEF R
  <2> QED BY <1>2, <2>1, <2>2
<1> QED BY <1>3

LEMMA SlotsType == Slots \in Nat /\ Slots = Cardinality(Driver) + 4 /\ Cardinality(Driver) \in Nat
<1>1. IsFiniteSet(Asset) /\ Cardinality(Asset) = 2
  <2>1. Asset = {"image"} \cup {"tarball"} /\ "tarball" \notin {"image"}
    BY DEF Asset
  <2>2. IsFiniteSet({"image"}) /\ Cardinality({"image"}) = 1
    BY FS_Singleton
  <2>3. IsFiniteSet({"image"} \cup {"tarball"}) /\ Cardinality({"image"} \cup {"tarball"}) = 1 + 1
    BY <2>1, <2>2, FS_AddElement
  <2> QED BY <2>1, <2>3
<1>2. Cardinality(Driver) \in Nat
  BY ProvisionAssumption, FS_CardinalityType
<1> QED BY <1>1, <1>2 DEF Slots

\* A driver that opens a file finds an inode that nobody uses.
LEMMA FreeInodeExists ==
  ASSUME ProvType, NEW d \in Driver, drv[d].ino = 0
  PROVE  FreeInode \in Inode /\ FreeInode \notin InUse
<1> DEFINE Others == Driver \ {d}
<1> DEFINE A == {partOf["tarball"]} \cup {partOf["image"]}
<1> DEFINE B == (A \cup {destOf["tarball"]}) \cup {destOf["image"]}
<1> DEFINE W == {drv[e].ino : e \in Others}
<1>1. InUse \subseteq (B \cup W) \cup {0}
  BY DEF InUse, Asset
<1>2. IsFiniteSet(A) /\ Cardinality(A) \in Nat /\ Cardinality(A) <= 2
  <2>1. IsFiniteSet({partOf["tarball"]}) /\ Cardinality({partOf["tarball"]}) = 1
    BY FS_Singleton
  <2>2. IsFiniteSet(A) /\ Cardinality(A) <= 2
    BY <2>1, FS_AddElement
  <2> QED BY <2>2, FS_CardinalityType
<1>3. IsFiniteSet(B) /\ Cardinality(B) \in Nat /\ Cardinality(B) <= 4
  <2> DEFINE C == A \cup {destOf["tarball"]}
  <2> HIDE DEF A
  <2>1. IsFiniteSet(C) /\ Cardinality(C) \in Nat /\ Cardinality(C) <= 3
    BY <1>2, FS_AddElement, FS_CardinalityType
  <2> HIDE DEF C
  <2>2. IsFiniteSet(C \cup {destOf["image"]}) /\ Cardinality(C \cup {destOf["image"]}) <= 4
    BY <2>1, FS_AddElement
  <2> QED BY <2>2, FS_CardinalityType DEF C
<1>4. IsFiniteSet(W) /\ Cardinality(W) \in Nat /\ Cardinality(W) < Cardinality(Driver)
  <2>1. IsFiniteSet(Others) /\ Cardinality(Others) = Cardinality(Driver) - 1
    BY ProvisionAssumption, FS_RemoveElement
  <2>2. [e \in Others |-> drv[e].ino] \in Surjection(Others, W)
    BY DEF Surjection
  <2> HIDE DEF Others, W
  <2>3. IsFiniteSet(W) /\ Cardinality(W) <= Cardinality(Others)
    BY <2>1, <2>2, FS_Surjection
  <2> QED BY <2>1, <2>3, SlotsType, FS_CardinalityType
<1> HIDE DEF A, B, W
<1>5. IsFiniteSet(B \cup W) /\ Cardinality(B \cup W) < Slots
  <2>1. Cardinality(B \cap W) \in Nat
    BY <1>3, FS_Intersection, FS_CardinalityType
  <2>2. IsFiniteSet(B \cup W) /\ Cardinality(B \cup W) = Cardinality(B) + Cardinality(W) - Cardinality(B \cap W)
    BY <1>3, <1>4, FS_Union
  <2> QED BY <1>3, <1>4, <2>1, <2>2, SlotsType
<1>6. Inode = 1..Slots /\ IsFiniteSet(Inode) /\ Cardinality(Inode) = Slots
  <2>1. Inode = 1..Slots
    BY DEF Inode, Slots
  <2>2. Slots \in Int /\ 1 \in Int /\ ~ (1 > Slots)
    BY SlotsType
  <2>3. IsFiniteSet(1..Slots) /\ Cardinality(1..Slots) = Slots - 1 + 1
    BY <2>2, FS_Interval
  <2> QED BY <2>1, <2>2, <2>3
<1>7. \E i \in Inode : i \notin InUse
  <2> SUFFICES ASSUME Inode \subseteq InUse PROVE FALSE
    OBVIOUS
  <2>1. Inode \subseteq B \cup W
    BY <1>1, <1>6
  <2>2. Cardinality(Inode) <= Cardinality(B \cup W)
    BY <1>5, <2>1, FS_Subset
  <2> QED BY <1>5, <1>6, <2>2, SlotsType, FS_CardinalityType
<1>8. \E i \in Inode : i \notin InUse /\ \A j \in 1..(i - 1) : j \in InUse
  <2> DEFINE T == {i \in Inode : i \notin InUse}
  <2>0. T \in SUBSET Nat /\ T # {}
    BY <1>6, <1>7, SlotsType
  <2>1. PICK i \in T : \A j \in T : i <= j
    BY <2>0, LeastNatural
  <2>2. \A j \in 1..(i - 1) : j \in Inode /\ ~ (i <= j)
    BY <1>6, <2>1, SlotsType
  <2> QED BY <2>1, <2>2
<1> QED BY <1>8 DEF FreeInode

\* A step that opens no file and writes none leaves the files as trusted as they were.
LEMMA FilesQuiet ==
  ASSUME ProvInv, NEW d \in Driver, NEW x \in DriverState, drv' = [drv EXCEPT ![d] = x],
         UNCHANGED <<partOf, destOf, data, shared, unsized>>,
         x.ino = 0, x.pc \notin {"stream", "rename"}, x.pc = "off" => x = Off
  PROVE  OpenWhile' /\ FilesApart' /\ OneWriter' /\ Received' /\ ImageVerified' /\ TarballComplete'
<1> USE DEF ProvInv
<1>1. drv'[d] = x /\ \A e \in Driver : e # d => drv'[e] = drv[e]
  BY DEF ProvType
<1>2. OpenWhile'
  BY <1>1 DEF OpenWhile, Verified
<1>3. \A a \in Asset : FilesOf(a)' \subseteq FilesOf(a)
  BY <1>1 DEF FilesOf
<1>4. FilesApart'
  BY <1>3 DEF FilesApart, Asset
<1>5. OneWriter' /\ Received'
  BY <1>1 DEF OneWriter, Received
<1> QED BY <1>2, <1>4, <1>5 DEF ImageVerified, TarballComplete

\* A step that extracts nothing, by a driver whose new state fits the tree.
LEMMA TreeQuiet ==
  ASSUME ProvInv, NEW d \in Driver, NEW x \in DriverState, drv' = [drv EXCEPT ![d] = x],
         tree' = tree, disturbed => disturbed',
         ~ disturbed' => /\ x.pc = "extract" => TreeAt(x.m)
                         /\ Fetches(x, "tarball") => Filled("none")
                         /\ PastRuntime(x) => Filled("whole")
                         /\ drv[d].pc = "extract" /\ x.pc # "extract" => Filled("whole")
  PROVE  TreeAsExtracted'
<1> USE DEF ProvInv
<1>1. drv'[d] = x /\ \A e \in Driver : e # d => drv'[e] = drv[e]
  BY DEF ProvType
<1> SUFFICES ASSUME ~ disturbed'
             PROVE  /\ Extracting' = {} => Filled("none")' \/ Filled("whole")'
                    /\ (\A e \in Extracting : TreeAt(drv[e].m))'
                    /\ \A e \in Driver : Fetches(drv'[e], "tarball") => Filled("none")'
                    /\ \A e \in Driver : PastRuntime(drv'[e]) => Filled("whole")'
  BY DEF TreeAsExtracted, Fetches, PastRuntime, TreeAt
<1>2. \A v : Filled(v)' <=> Filled(v)
  BY DEF Filled
<1>4. Extracting' = {} => Filled("none")' \/ Filled("whole")'
  BY <1>1, <1>2 DEF TreeAsExtracted, Extracting, At
<1>5. (\A e \in Extracting : TreeAt(drv[e].m))'
  <2> SUFFICES ASSUME NEW e \in Driver, drv'[e].pc = "extract" PROVE TreeAt(drv[e].m)'
    BY DEF Extracting, At
  <2>1. TreeAt(drv'[e].m)
    BY <1>1 DEF TreeAsExtracted, Extracting, At
  <2> QED BY <2>1 DEF TreeAt
<1>6. \A e \in Driver : Fetches(drv'[e], "tarball") => Filled("none")'
  BY <1>1, <1>2 DEF TreeAsExtracted
<1>7. \A e \in Driver : PastRuntime(drv'[e]) => Filled("whole")'
  BY <1>1, <1>2 DEF TreeAsExtracted
<1> QED BY <1>4, <1>5, <1>6, <1>7

LEMMA OffType == Off \in DriverState /\ Off.ino = 0 /\ Off.pc = "off" /\ Off.m = 0 /\ Off.got = 0
BY ProvisionAssumption, SlotsType DEF Off, DriverState, Asset

\* Starting, ending and extracting.
LEMMA ProvQuietStep ==
  ASSUME ProvInv, NEW d \in Driver,
         Launch(d) \/ EnsureImage(d) \/ ExtractEnds(d) \/ ExtractFails(d) \/ Ends(d) \/ Aborts(d)
  PROVE  ProvInv'
<1> USE DEF ProvInv
<1>0. drv[d] \in DriverState /\ drv \in [Driver -> DriverState]
  BY DEF ProvType
<1>1. CASE Launch(d)
  <2>1. drv[d] = Off /\ Off \in DriverState /\ Off.ino = 0
    BY <1>1, OffType DEF Launch, OpenWhile, At
  <2>2. PICK x \in DriverState :
          /\ drv' = [drv EXCEPT ![d] = x] /\ x.ino = 0 /\ x.m = 0
          /\ \/ x.pc = "image" /\ BinFound
             \/ x.pc = "extract" /\ ~ BinFound
             \/ x.pc = "get" /\ x.a = "tarball" /\ ~ BinFound
    <3>1. CASE BinFound
      <4> DEFINE x == [Off EXCEPT !.pc = "image"]
      <4>1. x \in DriverState /\ drv' = [drv EXCEPT ![d] = x] /\ x.ino = 0 /\ x.m = 0 /\ x.pc = "image"
        BY <1>0, <1>1, <2>1, <3>1, OffType DEF Launch, Goto, DriverState
      <4> QED BY <3>1, <4>1
    <3>2. CASE ~ BinFound /\ destOf["tarball"] # 0
      <4> DEFINE x == [Off EXCEPT !.pc = "extract"]
      <4>1. x \in DriverState /\ drv' = [drv EXCEPT ![d] = x] /\ x.ino = 0 /\ x.m = 0 /\ x.pc = "extract"
        BY <1>0, <1>1, <2>1, <3>2, OffType DEF Launch, Goto, DriverState
      <4> QED BY <3>2, <4>1
    <3>3. CASE ~ BinFound /\ destOf["tarball"] = 0
      <4> DEFINE x == [Off EXCEPT !.pc = "get", !.a = "tarball"]
      <4>1. /\ x \in DriverState /\ drv' = [drv EXCEPT ![d] = x] /\ x.ino = 0 /\ x.m = 0
            /\ x.pc = "get" /\ x.a = "tarball"
        BY <1>0, <1>1, <2>1, <3>3, OffType DEF Launch, DriverState, Asset
      <4> QED BY <3>3, <4>1
    <3> QED BY <3>1, <3>2, <3>3
  <2>3. /\ UNCHANGED <<partOf, destOf, data, tree, mishaps, shared, unsized>>
        /\ disturbed' = (disturbed \/ Extracting # {})
    BY <1>1 DEF Launch
  <2>4. ~ disturbed' => IF BinFound THEN Filled("whole") ELSE Filled("none") /\ TreeAt(0)
    <3> SUFFICES ASSUME ~ disturbed, Extracting = {}
                 PROVE  IF BinFound THEN Filled("whole") ELSE Filled("none") /\ TreeAt(0)
      BY <2>3
    <3>1. Filled("none") \/ Filled("whole")
      BY DEF TreeAsExtracted
    <3>2. BinAt \in 1..Members
      BY ProvisionAssumption
    <3>3. Filled("none") => TreeAt(0)
      BY ProvisionAssumption DEF Filled, TreeAt
    <3> QED BY <3>1, <3>2, <3>3 DEF Filled, BinFound
  <2>5. TreeAsExtracted'
    BY <2>1, <2>2, <2>3, <2>4, TreeQuiet, OffType DEF Fetches, PastRuntime
  <2>6. ProvType'
    BY <2>2, <2>3 DEF ProvType
  <2> QED BY <2>2, <2>3, <2>5, <2>6, FilesQuiet
<1>2. CASE EnsureImage(d)
  <2>1. drv[d].pc = "image" /\ drv[d].ino = 0
    BY <1>2 DEF EnsureImage, At, OpenWhile
  <2>2. PICK x \in DriverState :
          /\ drv' = [drv EXCEPT ![d] = x] /\ x.ino = 0
          /\ x.pc = "boot" \/ (x.pc = "get" /\ x.a = "image")
    <3>1. CASE destOf["image"] # 0
      <4> DEFINE x == [drv[d] EXCEPT !.pc = "boot"]
      <4>1. x \in DriverState /\ drv' = [drv EXCEPT ![d] = x] /\ x.ino = 0 /\ x.pc = "boot"
        BY <1>0, <1>2, <2>1, <3>1 DEF EnsureImage, Goto, DriverState
      <4> QED BY <4>1
    <3>2. CASE destOf["image"] = 0
      <4> DEFINE x == [drv[d] EXCEPT !.pc = "get", !.a = "image"]
      <4>1. x \in DriverState /\ drv' = [drv EXCEPT ![d] = x] /\ x.ino = 0 /\ x.pc = "get" /\ x.a = "image"
        BY <1>0, <1>2, <2>1, <3>2 DEF EnsureImage, DriverState, Asset
      <4> QED BY <4>1
    <3> QED BY <3>1, <3>2
  <2>3. UNCHANGED <<partOf, destOf, data, tree, mishaps, shared, unsized, disturbed>>
    BY <1>2 DEF EnsureImage
  <2>4. ~ disturbed => Filled("whole")
    BY <2>1 DEF TreeAsExtracted, PastRuntime
  <2>5. TreeAsExtracted'
    BY <2>1, <2>2, <2>3, <2>4, TreeQuiet DEF Fetches, PastRuntime
  <2>6. ProvType'
    BY <2>2, <2>3 DEF ProvType
  <2> QED BY <2>2, <2>3, <2>5, <2>6, FilesQuiet
<1>3. CASE ExtractEnds(d)
  <2> DEFINE x == [Off EXCEPT !.pc = "image"]
  <2>1. x \in DriverState /\ x.ino = 0 /\ x.pc = "image" /\ drv' = [drv EXCEPT ![d] = x]
    BY <1>3, OffType DEF ExtractEnds, DriverState
  <2>2. /\ drv[d].pc = "extract" /\ drv[d].m = 2 * Members
        /\ UNCHANGED <<partOf, destOf, data, tree, mishaps, shared, unsized, disturbed>>
    BY <1>3 DEF ExtractEnds, At
  <2> HIDE DEF x
  <2>3. ~ disturbed => Filled("whole")
    <3> SUFFICES ASSUME ~ disturbed PROVE Filled("whole")
      OBVIOUS
    <3>1. TreeAt(2 * Members)
      BY <2>2 DEF TreeAsExtracted, Extracting, At
    <3>2. Members \in Nat /\ (2 * Members) \div 2 = Members
      BY ProvisionAssumption
    <3> QED BY <3>1, <3>2 DEF TreeAt, Filled
  <2>4. TreeAsExtracted'
    BY <2>1, <2>2, <2>3, TreeQuiet DEF Fetches, PastRuntime
  <2>5. ProvType'
    BY <2>1, <2>2 DEF ProvType
  <2> QED BY <2>1, <2>2, <2>4, <2>5, FilesQuiet
<1>4. CASE ExtractFails(d) \/ Ends(d) \/ Aborts(d)
  <2>1. /\ drv' = [drv EXCEPT ![d] = Off] /\ UNCHANGED <<partOf, destOf, data, tree, shared, unsized>>
        /\ mishaps' \in 0..MaxMishaps /\ disturbed' \in BOOLEAN
        /\ disturbed => disturbed'
        /\ drv[d].pc = "extract" => disturbed'
    <3>1. mishaps' \in 0..MaxMishaps
      BY <1>4, ProvisionAssumption DEF ExtractFails, Ends, Aborts, Mishap, ProvType
    <3>2. /\ drv' = [drv EXCEPT ![d] = Off]
          /\ UNCHANGED <<partOf, destOf, data, tree, shared, unsized>>
      BY <1>4 DEF ExtractFails, Ends, Aborts
    <3>3. CASE ExtractFails(d)
      BY <3>1, <3>2, <3>3 DEF ExtractFails
    <3>4. CASE Ends(d)
      BY <3>1, <3>2, <3>4 DEF Ends, At, ProvType
    <3>5. CASE Aborts(d)
      <4>1. disturbed' = (disturbed \/ At(d, "extract"))
        BY <3>5 DEF Aborts
      <4> QED BY <3>1, <3>2, <4>1 DEF At, ProvType
    <3> QED BY <1>4, <3>3, <3>4, <3>5
  <2>2. TreeAsExtracted'
    BY <2>1, OffType, TreeQuiet DEF Fetches, PastRuntime
  <2>3. ProvType'
    BY <2>1, OffType DEF ProvType
  <2> QED BY <2>1, <2>2, <2>3, OffType, FilesQuiet
<1> QED BY <1>1, <1>2, <1>3, <1>4

LEMMA Halves ==
  ASSUME NEW k \in Nat
  PROVE  k = 2 * (k \div 2) + (k % 2) /\ (k % 2 = 0 \/ k % 2 = 1) /\ k \div 2 \in Nat
<1>1. k = 2 * (k \div 2) + (k % 2)
  OBVIOUS
<1>2. k % 2 = 0 \/ k % 2 = 1
  OBVIOUS
<1>3. k \div 2 \in Nat
  OBVIOUS
<1> QED BY <1>1, <1>2, <1>3

\* tar writes the next half of a member; it is undisturbed only if it is alone.
LEMMA ProvExtractStep ==
  ASSUME ProvInv, NEW d \in Driver, ExtractStep(d)
  PROVE  ProvInv'
<1> USE DEF ProvInv
<1> DEFINE k == drv[d].m
<1> DEFINE i == k \div 2 + 1
<1> DEFINE x == [drv[d] EXCEPT !.m = k + 1]
<1>0. drv[d] \in DriverState /\ k \in 0..(2 * Members) /\ Members \in Nat
  BY ProvisionAssumption DEF ProvType, DriverState
<1>1. /\ drv[d].pc = "extract" /\ i <= Members
      /\ tree' = [tree EXCEPT ![i] = IF k % 2 = 0 THEN "part" ELSE "whole"]
      /\ disturbed' = (disturbed \/ \E e \in Driver \ {d} : drv[e].pc # "off")
      /\ UNCHANGED <<partOf, destOf, data, mishaps, shared, unsized>>
  BY DEF ExtractStep, At
<1>2. k + 1 \in 0..(2 * Members) /\ i \in 1..Members
  BY <1>0, <1>1
<1>3. x \in DriverState /\ drv' = [drv EXCEPT ![d] = x] /\ x.pc = "extract" /\ x.ino = 0 /\ x.m = k + 1
  BY <1>0, <1>1, <1>2 DEF ExtractStep, DriverState, ProvType, OpenWhile
<1> HIDE DEF x
<1>4. ProvType'
  BY <1>1, <1>2, <1>3 DEF ProvType
<1>5. OpenWhile' /\ FilesApart' /\ OneWriter' /\ Received' /\ ImageVerified' /\ TarballComplete'
  BY <1>1, <1>3, FilesQuiet
<1>6. TreeAsExtracted'
  <2> SUFFICES ASSUME ~ disturbed' PROVE TreeAsExtracted'
    BY DEF TreeAsExtracted
  <2>1. TreeAt(k) /\ \A e \in Driver : e # d => drv[e].pc = "off" /\ drv'[e] = drv[e]
    BY <1>1, <1>3 DEF TreeAsExtracted, Extracting, At, ProvType
  <2>2. drv'[d] = x
    BY <1>3 DEF ProvType
  <2>3. ASSUME NEW m \in 1..Members
        PROVE  tree'[m] = IF m <= (k + 1) \div 2 THEN "whole"
                          ELSE IF m = (k + 1) \div 2 + 1 /\ (k + 1) % 2 = 1 THEN "part" ELSE "none"
    <3>1. tree[m] = IF m <= k \div 2 THEN "whole" ELSE IF m = k \div 2 + 1 /\ k % 2 = 1 THEN "part" ELSE "none"
      BY <2>1 DEF TreeAt
    <3>2. tree'[m] = IF m = i THEN (IF k % 2 = 0 THEN "part" ELSE "whole") ELSE tree[m]
      BY <1>1, <1>2 DEF ProvType
    <3>5. /\ k \in Nat /\ k \div 2 \in Nat /\ (k + 1) \div 2 \in Nat
          /\ k = 2 * (k \div 2) + (k % 2) /\ k + 1 = 2 * ((k + 1) \div 2) + ((k + 1) % 2)
          /\ k % 2 = 0 \/ k % 2 = 1
          /\ (k + 1) % 2 = 0 \/ (k + 1) % 2 = 1
      BY <1>0, Halves, k + 1 \in Nat
    <3>3. CASE k % 2 = 0
      <4>2. k = 2 * (k \div 2)
        BY <3>3, <3>5
      <4>3. \A a, b \in Nat : 2 * a + 1 # 2 * b + 0 /\ (2 * a + 1 = 2 * b + 1 => a = b)
        OBVIOUS
      <4>4. 2 * (k \div 2) + 1 = 2 * ((k + 1) \div 2) + ((k + 1) % 2)
        BY <3>5, <4>2
      <4>5. (k + 1) % 2 # 0
        BY <3>5, <4>3, <4>4
      <4>6. (k + 1) % 2 = 1
        BY <3>5, <4>5
      <4>7. (k + 1) \div 2 = k \div 2
        BY <3>5, <4>3, <4>4, <4>6
      <4>1. (k + 1) \div 2 = k \div 2 /\ (k + 1) % 2 = 1
        BY <4>6, <4>7
      <4> QED BY <1>0, <3>1, <3>2, <3>3, <4>1
    <3>4. CASE k % 2 = 1
      <4>1. (k + 1) \div 2 = k \div 2 + 1 /\ (k + 1) % 2 = 0
        BY <3>4, <3>5
      <4> QED BY <1>0, <3>1, <3>2, <3>4, <4>1
    <3> QED BY <3>3, <3>4, <3>5
  <2>4. TreeAt(drv[d].m)'
    BY <1>3, <2>2, <2>3 DEF TreeAt
  <2> QED BY <1>3, <2>1, <2>2, <2>4 DEF TreeAsExtracted, Extracting, At, Fetches, PastRuntime
<1> QED BY <1>4, <1>5, <1>6

LEMMA InodesAre == Inode = 1..Slots
BY DEF Inode, Slots

\* No step of a download but its last one matters to the tree.
LEMMA TreeWhileFetching ==
  ASSUME ProvInv, NEW d \in Driver, NEW x \in DriverState, drv' = [drv EXCEPT ![d] = x],
         UNCHANGED <<tree, disturbed>>, drv[d].pc \in {"get", "stream"},
         x = Off \/ (x.pc \in {"stream", "rename"} /\ x.a = drv[d].a)
  PROVE  TreeAsExtracted'
<1>1. drv[d].a \in Asset /\ drv \in [Driver -> DriverState]
  BY DEF ProvInv, ProvType, DriverState
<1>2. ~ disturbed => /\ Fetches(x, "tarball") => Filled("none")
                     /\ PastRuntime(x) => Filled("whole")
  BY OffType DEF ProvInv, TreeAsExtracted, Fetches, PastRuntime
<1> QED BY <1>1, <1>2, OffType, TreeQuiet

LEMMA ProvOpen ==
  ASSUME ProvInv, NEW d \in Driver, Open(d)
  PROVE  ProvInv'
<1> USE DEF ProvInv
<1> DEFINE a == drv[d].a
<1> DEFINE i == IF partOf[a] # 0 THEN partOf[a] ELSE FreeInode
<1>0. drv[d] \in DriverState /\ a \in Asset /\ drv \in [Driver -> DriverState]
  BY DEF ProvType, DriverState
<1>1. drv[d].pc = "get" /\ drv[d].ino = 0
  BY DEF Open, At, OpenWhile
<1>2. /\ partOf' = [partOf EXCEPT ![a] = i] /\ data' = [data EXCEPT ![i] = Empty]
      /\ shared' = IF \E e \in Driver \ {d} : drv[e].ino # 0 /\ drv[e].a = a THEN shared \cup {a} ELSE shared
      /\ UNCHANGED <<destOf, tree, mishaps, unsized, disturbed>>
  BY DEF Open
<1>3. i \in Inode /\ i # 0 /\ i \in 0..Slots
  BY <1>0, <1>1, FreeInodeExists, InodesAre, SlotsType DEF ProvType
<1>4. PICK sized \in BOOLEAN :
        drv' = [drv EXCEPT ![d] = [drv[d] EXCEPT !.pc = "stream", !.ino = i, !.got = 0,
                                                 !.clean = TRUE, !.sized = sized]]
  BY <1>0 DEF Open
<1> DEFINE x == [drv[d] EXCEPT !.pc = "stream", !.ino = i, !.got = 0, !.clean = TRUE, !.sized = sized]
<1>5. i # destOf["tarball"] /\ i # destOf["image"]
      /\ \A b \in Asset : b # a => i \notin FilesOf(b)
  <2>1. CASE partOf[a] # 0
    <3>1. i = partOf[a] /\ i \in FilesOf(a) /\ i # destOf[a]
      BY <1>0, <2>1 DEF FilesOf, FilesApart
    <3>2. \A b \in Asset : b # a => i \notin FilesOf(b)
      BY <1>0, <3>1 DEF FilesApart, Asset
    <3>3. \A b \in Asset : destOf[b] # 0 => destOf[b] \in FilesOf(b)
      BY DEF FilesOf
    <3> QED BY <1>0, <1>3, <3>1, <3>2, <3>3 DEF Asset
  <2>2. CASE partOf[a] = 0
    <3>1. i \notin InUse
      BY <1>1, <2>2, FreeInodeExists
    <3> QED BY <3>1 DEF InUse, FilesOf, Asset
  <2> QED BY <2>1, <2>2
<1> HIDE DEF i
<1>6. /\ x \in DriverState /\ drv' = [drv EXCEPT ![d] = x] /\ x.pc = "stream"
      /\ x.ino = i /\ x.got = 0 /\ x.a = a
  <2>1. 0 \in 0..Chunks /\ TRUE \in BOOLEAN
    BY ProvisionAssumption
  <2>2. x \in DriverState
    BY <1>0, <1>3, <2>1 DEF DriverState
  <2>3. x.pc = "stream" /\ x.ino = i /\ x.got = 0 /\ x.a = a
    BY <1>0 DEF DriverState
  <2> QED BY <1>4, <2>2, <2>3
<1> HIDE DEF x
<1>7. drv'[d] = x /\ \A e \in Driver : e # d => drv'[e] = drv[e]
  BY <1>0, <1>6
<1>8. /\ partOf'[a] = i /\ \A b \in Asset : b # a => partOf'[b] = partOf[b]
      /\ \A j \in Inode : j # i => data'[j] = data[j]
  BY <1>0, <1>2, <1>3 DEF ProvType
<1>9. ProvType'
  <2>1. Empty \in [1..Chunks -> {"none", "good", "bad"}]
    BY DEF Empty
  <2> QED BY <1>0, <1>2, <1>3, <1>6, <2>1 DEF ProvType
<1>10. OpenWhile'
  BY <1>3, <1>6, <1>7 DEF OpenWhile, Verified
<1>11. FilesApart'
  <2>1. \A b \in Asset : b = a => FilesOf(b)' \subseteq FilesOf(b) \cup {i}
    BY <1>0, <1>2, <1>6, <1>7, <1>8 DEF FilesOf
  <2>2. \A b \in Asset : b # a => FilesOf(b)' \subseteq FilesOf(b)
    BY <1>2, <1>6, <1>7, <1>8 DEF FilesOf
  <2>3. FilesOf("tarball")' \cap FilesOf("image")' = {}
    <3>1. CASE a = "tarball"
      BY <1>0, <1>5, <2>1, <2>2, <3>1 DEF FilesApart, Asset
    <3>2. CASE a = "image"
      BY <1>0, <1>5, <2>1, <2>2, <3>2 DEF FilesApart, Asset
    <3> QED BY <1>0, <3>1, <3>2 DEF Asset
  <2>4. \A b \in Asset : partOf'[b] # 0 => partOf'[b] # destOf'[b]
    BY <1>0, <1>2, <1>5, <1>8 DEF FilesApart, Asset
  <2> QED BY <2>3, <2>4 DEF FilesApart
<1>12. ASSUME a \notin shared', NEW e \in Driver, e # d, drv[e].ino # 0 PROVE drv[e].a # a
  BY <1>2, <1>12
<1>13. shared \subseteq shared'
  BY <1>2
<1>14. OneWriter'
  BY <1>6, <1>7, <1>8, <1>12, <1>13 DEF OneWriter
<1>15. Received'
  <2> SUFFICES ASSUME NEW e \in Driver, drv'[e].ino # 0, drv'[e].a \notin shared', NEW j \in 1..drv'[e].got
               PROVE  LET v == data'[drv'[e].ino][j] IN v # "none" /\ (drv'[e].clean => v = "good")
    BY DEF Received
  <2>1. e # d
    BY <1>6, <1>7
  <2>2. drv[e].a \in Asset /\ drv[e].a # a /\ drv[e].ino \in Inode
    BY <1>7, <1>12, <2>1, InodesAre, SlotsType DEF ProvType, DriverState
  <2>3. drv[e].ino \in FilesOf(drv[e].a)
    BY <1>7, <2>1 DEF FilesOf
  <2>4. data'[drv[e].ino] = data[drv[e].ino]
    BY <1>5, <1>8, <2>2, <2>3
  <2> QED BY <1>7, <1>13, <2>1, <2>4 DEF Received
<1>16. ImageVerified' /\ TarballComplete'
  <2>1. \A b \in Asset : destOf[b] # 0 => data'[destOf[b]] = data[destOf[b]]
    BY <1>5, <1>8, InodesAre, SlotsType DEF ProvType, Asset
  <2> QED BY <1>2, <1>13, <2>1 DEF ImageVerified, TarballComplete, Asset
<1>17. TreeAsExtracted'
  BY <1>1, <1>2, <1>6, TreeWhileFetching
<1> QED BY <1>9, <1>10, <1>11, <1>14, <1>15, <1>16, <1>17

LEMMA ProvRead ==
  ASSUME ProvInv, NEW d \in Driver, ReadChunk(d)
  PROVE  ProvInv'
<1> USE DEF ProvInv
<1> DEFINE i == drv[d].ino
<1> DEFINE k == drv[d].got + 1
<1>0. drv[d] \in DriverState /\ drv[d].a \in Asset /\ drv \in [Driver -> DriverState]
  BY DEF ProvType, DriverState
<1>1. drv[d].pc = "stream" /\ drv[d].got < Chunks /\ i # 0
      /\ UNCHANGED <<partOf, destOf, tree, shared, unsized, disturbed>>
  BY DEF ReadChunk, At, OpenWhile
<1>2. PICK v \in {"good", "bad"} :
        /\ data' = [data EXCEPT ![i][k] = v]
        /\ drv' = [drv EXCEPT ![d].got = @ + 1, ![d].clean = @ /\ v = "good"]
        /\ IF v = "bad" THEN Mishap ELSE UNCHANGED mishaps
  BY DEF ReadChunk
<1> DEFINE x == [drv[d] EXCEPT !.got = k, !.clean = (drv[d].clean /\ v = "good")]
<1>3. k \in 1..Chunks /\ i \in Inode
  BY <1>0, <1>1, ProvisionAssumption, InodesAre, SlotsType DEF DriverState
<1>4. drv' = [drv EXCEPT ![d] = x]
  BY <1>0, <1>2 DEF DriverState
<1>5. /\ x \in DriverState /\ x.pc = "stream" /\ x.ino = i /\ x.got = k /\ x.a = drv[d].a
      /\ x.clean = (drv[d].clean /\ v = "good")
  <2> DEFINE c == drv[d].clean /\ v = "good"
  <2>1. c \in BOOLEAN
    OBVIOUS
  <2>2. k \in 0..Chunks
    BY <1>3, ProvisionAssumption
  <2> HIDE DEF c
  <2>3. x = [drv[d] EXCEPT !.got = k, !.clean = c]
    BY DEF c
  <2>4. x \in DriverState
    BY <1>0, <2>1, <2>2, <2>3 DEF DriverState
  <2>5. x.pc = drv[d].pc /\ x.ino = i /\ x.got = k /\ x.a = drv[d].a /\ x.clean = c
    BY <1>0, <2>3 DEF DriverState
  <2> QED BY <1>1, <2>4, <2>5 DEF c
<1> HIDE DEF x
<1>6. drv'[d] = x /\ \A e \in Driver : e # d => drv'[e] = drv[e]
  BY <1>0, <1>4
<1>7. /\ data'[i] = [data[i] EXCEPT ![k] = v]
      /\ \A j \in Inode : j # i => data'[j] = data[j]
  BY <1>2, <1>3 DEF ProvType
<1>8. data'[i][k] = v /\ \A j \in 1..Chunks : j # k => data'[i][j] = data[i][j]
  BY <1>3, <1>7 DEF ProvType
<1>9. ProvType'
  <2>1. mishaps' \in 0..MaxMishaps
    BY <1>2, ProvisionAssumption DEF Mishap, ProvType
  <2>2. data' \in [Inode -> [1..Chunks -> {"none", "good", "bad"}]]
    BY <1>2, <1>3 DEF ProvType
  <2> QED BY <1>0, <1>1, <1>4, <1>5, <2>1, <2>2 DEF ProvType
<1>10. OpenWhile'
  BY <1>1, <1>5, <1>6 DEF OpenWhile, Verified
<1>11. FilesApart'
  <2>1. \A b \in Asset : FilesOf(b)' \subseteq FilesOf(b)
    BY <1>1, <1>5, <1>6 DEF FilesOf
  <2> QED BY <1>1, <2>1 DEF FilesApart, Asset
<1>12. OneWriter'
  <2>1. \A e \in Driver : drv'[e].ino = drv[e].ino /\ drv'[e].a = drv[e].a
    BY <1>5, <1>6
  <2> QED BY <1>1, <2>1 DEF OneWriter
<1>13. Received'
  <2> SUFFICES ASSUME NEW e \in Driver, drv'[e].ino # 0, drv'[e].a \notin shared', NEW j \in 1..drv'[e].got
               PROVE  LET w == data'[drv'[e].ino][j] IN w # "none" /\ (drv'[e].clean => w = "good")
    BY DEF Received
  <2>1. CASE e = d
    <3>1. j \in 1..k /\ drv[d].a \notin shared /\ drv[d].got \in Nat
      BY <1>0, <1>1, <1>5, <1>6, <2>1 DEF DriverState
    <3>2. CASE j = k
      BY <1>5, <1>6, <1>8, <2>1, <3>2
    <3>3. CASE j # k
      <4>1. j \in 1..drv[d].got /\ j \in 1..Chunks
        BY <1>3, <3>1, <3>3, ProvisionAssumption
      <4>2. data[i][j] # "none" /\ (drv[d].clean => data[i][j] = "good")
        BY <1>1, <3>1, <4>1 DEF Received
      <4> QED BY <1>5, <1>6, <1>8, <2>1, <3>3, <4>1, <4>2
    <3> QED BY <3>2, <3>3
  <2>2. CASE e # d
    <3>1. drv'[e] = drv[e] /\ drv[e].a \in Asset /\ drv[e].ino \in Inode
      BY <1>6, <2>2, InodesAre, SlotsType DEF ProvType, DriverState
    <3>2. drv[e].ino # i
      <4>1. drv[e].ino \in FilesOf(drv[e].a) /\ i \in FilesOf(drv[d].a)
        BY <1>1, <3>1 DEF FilesOf
      <4>2. drv[e].a # drv[d].a
        BY <1>0, <1>1, <2>2, <3>1 DEF OneWriter
      <4> QED BY <1>0, <3>1, <4>1, <4>2 DEF FilesApart, Asset
    <3> QED BY <1>1, <1>7, <3>1, <3>2 DEF Received
  <2> QED BY <2>1, <2>2
<1>14. ImageVerified' /\ TarballComplete'
  <2>1. ASSUME NEW b \in Asset, b \notin shared, destOf[b] # 0 PROVE data'[destOf[b]] = data[destOf[b]]
    <3>1. CASE b = drv[d].a
      <4>1. i = partOf[b]
        BY <1>1, <2>1, <3>1 DEF OneWriter
      <4> QED BY <1>1, <1>7, <2>1, <4>1, InodesAre, SlotsType DEF FilesApart, ProvType
    <3>2. CASE b # drv[d].a
      <4>1. destOf[b] \in FilesOf(b) /\ i \in FilesOf(drv[d].a)
        BY <1>1, <2>1 DEF FilesOf
      <4>2. destOf[b] # i
        BY <1>0, <2>1, <3>2, <4>1 DEF FilesApart, Asset
      <4> QED BY <1>7, <2>1, <4>2, InodesAre, SlotsType DEF ProvType
    <3> QED BY <3>1, <3>2
  <2> QED BY <1>1, <2>1 DEF ImageVerified, TarballComplete, Asset
<1>15. TreeAsExtracted'
  BY <1>1, <1>4, <1>5, TreeWhileFetching
<1> QED BY <1>9, <1>10, <1>11, <1>12, <1>13, <1>14, <1>15

LEMMA ProvStreamEnds ==
  ASSUME ProvInv, NEW d \in Driver, StreamEnds(d)
  PROVE  ProvInv'
<1> USE DEF ProvInv
<1>0. drv[d] \in DriverState /\ drv[d].a \in Asset /\ drv \in [Driver -> DriverState]
  BY DEF ProvType, DriverState
<1>1. /\ drv[d].pc = "stream" /\ drv[d].ino # 0
      /\ UNCHANGED <<destOf, data, tree, shared, unsized, disturbed>>
  BY DEF StreamEnds, At, OpenWhile
<1>2. mishaps' \in 0..MaxMishaps
  BY ProvisionAssumption DEF StreamEnds, Mishap, ProvType
<1>3. CASE Verified(drv[d])
  <2> DEFINE x == [drv[d] EXCEPT !.pc = "rename"]
  <2>1. drv' = [drv EXCEPT ![d] = x] /\ partOf' = partOf
    BY <1>3 DEF StreamEnds, Goto
  <2>2. x \in DriverState
    BY <1>0 DEF DriverState
  <2>3. /\ x.pc = "rename" /\ x.ino = drv[d].ino /\ x.a = drv[d].a /\ x.got = drv[d].got
        /\ x.clean = drv[d].clean /\ x.sized = drv[d].sized
    BY <1>0 DEF DriverState
  <2> HIDE DEF x
  <2>4. drv'[d] = x /\ \A e \in Driver : e # d => drv'[e] = drv[e]
    BY <1>0, <2>1
  <2>5. \A e \in Driver : /\ drv'[e].ino = drv[e].ino /\ drv'[e].a = drv[e].a /\ drv'[e].got = drv[e].got
                          /\ drv'[e].clean = drv[e].clean
    BY <2>3, <2>4
  <2>6. ProvType'
    BY <1>0, <1>1, <1>2, <2>1, <2>2 DEF ProvType
  <2>7. OpenWhile'
    <3>1. Verified(x)
      BY <1>3, <2>3 DEF Verified
    <3>2. \A e \in Driver : drv'[e].pc = "rename" => Verified(drv'[e])
      BY <2>4, <3>1 DEF OpenWhile
    <3> QED BY <1>1, <2>3, <2>4, <3>2 DEF OpenWhile, Verified
  <2>8. FilesApart'
    <3>1. \A b \in Asset : FilesOf(b)' \subseteq FilesOf(b)
      BY <1>1, <2>1, <2>5 DEF FilesOf
    <3> QED BY <1>1, <2>1, <3>1 DEF FilesApart, Asset
  <2>9. OneWriter' /\ Received' /\ ImageVerified' /\ TarballComplete'
    BY <1>1, <2>1, <2>5 DEF OneWriter, Received, ImageVerified, TarballComplete
  <2>10. TreeAsExtracted'
    BY <1>1, <2>1, <2>2, <2>3, TreeWhileFetching
  <2> QED BY <2>6, <2>7, <2>8, <2>9, <2>10
<1>4. CASE ~ Verified(drv[d])
  <2>1. drv' = [drv EXCEPT ![d] = Off] /\ partOf' = [partOf EXCEPT ![drv[d].a] = 0]
    BY <1>4 DEF StreamEnds
  <2>2. drv'[d] = Off /\ \A e \in Driver : e # d => drv'[e] = drv[e]
    BY <1>0, <2>1
  <2>3. partOf'[drv[d].a] = 0 /\ \A b \in Asset : b # drv[d].a => partOf'[b] = partOf[b]
    BY <1>0, <2>1 DEF ProvType
  <2>4. ProvType'
    BY <1>0, <1>1, <1>2, <2>1, OffType, SlotsType DEF ProvType
  <2>5. OpenWhile'
    BY <2>2, OffType DEF OpenWhile, Verified
  <2>6. FilesApart'
    <3>1. \A b \in Asset : FilesOf(b)' \subseteq FilesOf(b)
      BY <1>0, <1>1, <2>2, <2>3, OffType DEF FilesOf
    <3> QED BY <1>0, <1>1, <2>3, <3>1 DEF FilesApart, Asset
  <2>7. OneWriter'
    <3>1. ASSUME NEW e \in Driver, drv'[e].ino # 0, drv'[e].a \in Asset \ shared
          PROVE  e # d /\ drv'[e] = drv[e] /\ drv[e].a # drv[d].a
      BY <1>0, <1>1, <2>2, <3>1, OffType DEF OneWriter
    <3> QED BY <1>1, <2>3, <3>1 DEF OneWriter
  <2>8. Received' /\ ImageVerified' /\ TarballComplete'
    BY <1>1, <2>2, OffType DEF Received, ImageVerified, TarballComplete
  <2>9. TreeAsExtracted'
    BY <1>1, <2>1, OffType, TreeWhileFetching
  <2> QED BY <2>4, <2>5, <2>6, <2>7, <2>8, <2>9
<1> QED BY <1>3, <1>4

LEMMA ProvRename ==
  ASSUME ProvInv, NEW d \in Driver, Rename(d)
  PROVE  ProvInv'
<1> USE DEF ProvInv
<1>0. drv[d] \in DriverState /\ drv \in [Driver -> DriverState]
  BY DEF ProvType
<1>1. PICK a \in Asset : a = drv[d].a
  BY <1>0 DEF DriverState
<1>2. /\ drv[d].pc = "rename" /\ drv[d].ino # 0 /\ Verified(drv[d])
      /\ UNCHANGED <<data, tree, mishaps, shared, disturbed>>
  BY DEF Rename, At, OpenWhile
<1>3. CASE partOf[a] = 0
  <2>1. drv' = [drv EXCEPT ![d] = Off] /\ UNCHANGED <<partOf, destOf, unsized>>
    BY <1>1, <1>3 DEF Rename
  <2>2. TreeAsExtracted'
    BY <1>2, <2>1, OffType, TreeQuiet DEF Fetches, PastRuntime
  <2>3. ProvType'
    BY <1>0, <1>2, <2>1, OffType DEF ProvType
  <2> QED BY <1>2, <2>1, <2>2, <2>3, OffType, FilesQuiet
<1>4. CASE partOf[a] # 0
  <2> DEFINE x == [Off EXCEPT !.pc = IF a = "image" THEN "boot" ELSE "extract"]
  <2>1. /\ destOf' = [destOf EXCEPT ![a] = partOf[a]] /\ partOf' = [partOf EXCEPT ![a] = 0]
        /\ unsized' = IF drv[d].sized THEN unsized ELSE unsized \cup {a}
        /\ drv' = [drv EXCEPT ![d] = x]
    BY <1>1, <1>4 DEF Rename
  <2>2. x \in DriverState /\ x.ino = 0 /\ x.m = 0 /\ x.pc = IF a = "image" THEN "boot" ELSE "extract"
    BY OffType DEF DriverState, Off
  <2> HIDE DEF x
  <2>3. drv'[d] = x /\ \A e \in Driver : e # d => drv'[e] = drv[e]
    BY <1>0, <2>1
  <2>4. /\ partOf'[a] = 0 /\ destOf'[a] = partOf[a]
        /\ \A b \in Asset : b # a => partOf'[b] = partOf[b] /\ destOf'[b] = destOf[b]
    BY <1>1, <2>1 DEF ProvType
  <2>5. ProvType'
    <3>1. partOf' \in [Asset -> 0..Slots] /\ destOf' \in [Asset -> 0..Slots] /\ unsized' \subseteq Asset
      BY <1>1, <2>1, SlotsType DEF ProvType
    <3> QED BY <1>0, <1>2, <2>1, <2>2, <3>1 DEF ProvType
  <2>6. OpenWhile'
    BY <2>2, <2>3 DEF OpenWhile, Verified
  <2>7. FilesApart'
    <3>1. \A b \in Asset : FilesOf(b)' \subseteq FilesOf(b)
      BY <2>2, <2>3, <2>4 DEF FilesOf
    <3> QED BY <2>4, <3>1 DEF FilesApart, Asset
  <2>8. OneWriter'
    <3>1. ASSUME NEW e \in Driver, drv'[e].ino # 0, drv'[e].a \in Asset \ shared
          PROVE  e # d /\ drv'[e] = drv[e] /\ drv[e].a # a
      BY <1>1, <1>2, <2>2, <2>3, <3>1 DEF OneWriter
    <3> QED BY <1>2, <2>4, <3>1 DEF OneWriter
  <2>9. Received'
    BY <1>2, <2>2, <2>3 DEF Received
  <2>10. ASSUME a \notin shared
         PROVE  /\ a = "image" => data[partOf[a]] = Whole
                /\ drv[d].sized => \A j \in 1..Chunks : data[partOf[a]][j] # "none"
    <3>1. partOf[a] = drv[d].ino /\ partOf[a] \in Inode
      BY <1>1, <1>2, <1>4, <2>10, InodesAre, SlotsType DEF OneWriter, ProvType
    <3>2. \A j \in 1..drv[d].got : data[partOf[a]][j] # "none" /\ (drv[d].clean => data[partOf[a]][j] = "good")
      BY <1>1, <1>2, <2>10, <3>1 DEF Received
    <3>3. ASSUME a = "image" PROVE data[partOf[a]] = Whole
      <4>1. \A j \in 1..Chunks : data[partOf[a]][j] = "good"
        BY <1>1, <1>2, <3>2, <3>3 DEF Verified
      <4>2. data[partOf[a]] \in [1..Chunks -> {"none", "good", "bad"}]
        BY <3>1 DEF ProvType
      <4> QED BY <4>1, <4>2 DEF Whole
    <3>4. drv[d].sized => \A j \in 1..Chunks : data[partOf[a]][j] # "none"
      BY <1>2, <3>2 DEF Verified
    <3> QED BY <3>3, <3>4
  <2>11. ImageVerified' /\ TarballComplete'
    <3>1. ImageVerified'
      BY <1>2, <2>4, <2>10 DEF ImageVerified, Asset
    <3>2. TarballComplete'
      BY <1>2, <2>1, <2>4, <2>10 DEF TarballComplete, Asset
    <3> QED BY <3>1, <3>2
  <2>12. TreeAsExtracted'
    <3>1. Filled("none") => TreeAt(0)
      BY ProvisionAssumption DEF Filled, TreeAt
    <3>2. ~ disturbed => IF a = "image" THEN Filled("whole") ELSE Filled("none") /\ TreeAt(0)
      BY <1>1, <1>2, <3>1 DEF TreeAsExtracted, Fetches, PastRuntime, Asset
    <3> QED BY <1>2, <2>1, <2>2, <3>2, TreeQuiet DEF Fetches, PastRuntime
  <2> QED BY <2>5, <2>6, <2>7, <2>8, <2>9, <2>11, <2>12
<1> QED BY <1>3, <1>4

LEMMA ProvInvInit == ProvInit => ProvInv
<1> SUFFICES ASSUME ProvInit PROVE ProvInv
  OBVIOUS
<1> USE DEF ProvInit
<1>1. ProvType
  <2>1. drv \in [Driver -> DriverState]
    BY OffType
  <2>2. 0 \in 0..Slots /\ 0 \in 0..MaxMishaps
    BY SlotsType, ProvisionAssumption
  <2>3. data \in [Inode -> [1..Chunks -> {"none", "good", "bad"}]]
    BY DEF Empty
  <2> QED BY <2>1, <2>2, <2>3 DEF ProvType
<1>2. OpenWhile /\ FilesApart /\ OneWriter /\ Received
  BY OffType DEF OpenWhile, FilesApart, FilesOf, OneWriter, Received, Asset
<1>3. ImageVerified /\ TarballComplete
  BY DEF ImageVerified, TarballComplete, Asset
<1>4. TreeAsExtracted
  BY OffType DEF TreeAsExtracted, Extracting, At, Fetches, PastRuntime, Filled
<1> QED BY <1>1, <1>2, <1>3, <1>4 DEF ProvInv

LEMMA ProvInvNext == ProvInv /\ [ProvNext]_provVars => ProvInv'
<1> SUFFICES ASSUME ProvInv, [ProvNext]_provVars PROVE ProvInv'
  OBVIOUS
<1>1. CASE UNCHANGED provVars
  <2> USE <1>1 DEF provVars, ProvInv
  <2>1. ProvType'
    BY DEF ProvType
  <2>4. OpenWhile' /\ FilesApart'
    BY DEF OpenWhile, Verified, FilesApart, FilesOf
  <2>2. OneWriter' /\ Received' /\ ImageVerified' /\ TarballComplete'
    BY DEF OneWriter, Received, ImageVerified, TarballComplete
  <2>3. TreeAsExtracted'
    BY DEF TreeAsExtracted, Extracting, At, Filled, TreeAt
  <2> QED BY <2>1, <2>2, <2>3, <2>4
<1> QED BY <1>1, ProvQuietStep, ProvExtractStep, ProvOpen, ProvRead, ProvStreamEnds, ProvRename DEF ProvNext

\* What a driver finds in its cache it may trust (provision.rs), for every number of
\* drivers, chunks, archive members and mishaps: an installed image is the one its
\* hash promises and a runtime archive of declared length is complete unless two
\* drivers downloaded it at a time, and a VM boots from a complete runtime unless an
\* extraction was cut short, failed or ran beside another driver.
THEOREM CacheIsTrusted == ProvSpec => []CacheTrusted
<1>1. ProvInv => CacheTrusted
  BY DEF ProvInv, CacheTrusted, RuntimeComplete, TreeAsExtracted, PastRuntime, At, Filled
<1> QED BY <1>1, ProvInvInit, ProvInvNext, PTL DEF ProvSpec

-----------------------------------------------------------------------------
(* Agent: the inductive invariants                                         *)

\* What was not sent has left no trace, and what was sent is a call of the program.
CallsFit ==
  \A c \in Call :
    /\ outcome[c] = "unsent" => body[c].k = "none" /\ effects[c] = 0 /\ execs[c] = 0
    /\ outcome[c] # "unsent" => body[c].k # "none"
    /\ reply[c].st # "none" => execs[c] > 0

Benching(k) == k \in {"start", "submit"}

\* A lane belongs to a challenge that was opened, a heartbeat to an offer that was made.
BodiesFit ==
  \A c \in Call :
    /\ Benching(body[c].k) => body[c].c \in 1..reg.issued /\ body[c].l \in 1..Lanes
    /\ body[c].k = "terms" => body[c].o \in Call
    /\ body[c].k = "challenge" /\ reply[c].st = "ok" => reply[c].c \in 1..reg.issued

ProgFits ==
  /\ Benching(prog.pc) => prog.c \in 1..reg.issued /\ prog.l \in 1..Lanes
  /\ prog.pc = "terms" => prog.o \in Call
  /\ agent = "wait" => prog.pc # "end" /\ body[This] = Ask

QuotaKept == reg.used <= Quota /\ reg.issued <= Quota * day + reg.used

\* The trace an effective call leaves in the registry, and that refuses its repetition.
Trace(c, g) ==
  LET b == body[c]
  IN  /\ b.k \notin {"none", "state"}
      /\ b.k = "profile" => g.profile >= Stamp(c)
      /\ b.k = "start" => g.lane[b.c] >= 2 * (b.l - 1) + 1
      /\ b.k = "submit" => g.lane[b.c] >= 2 * b.l
      /\ b.k = "offer" => \E o \in g.offers : o.id = c
      /\ b.k = "terms" => g.seq[b.o] >= Stamp(c)

EffectsTraced == \A c \in Call : effects[c] > 0 => Trace(c, reg)

AgentInv ==
  /\ RelayInv /\ AgentTypeOK /\ CallsFit /\ BodiesFit /\ ProgFits /\ QuotaKept
  /\ EffectsTraced /\ AtMostOneEffect

\* Executions keep the order of the runs: once a call of a run was executed, no
\* call of an earlier run is on its way any more.
Begun(r) == \E c \in Call : c[1] = r /\ execs[c] > 0

OnItsWay(c) == (\E q \in reqs : q.call = c) \/ (relay \in Holding /\ cur.req.call = c)

RunsInOrder ==
  /\ \A c, d \in Call : execs[d] > 0 /\ OnItsWay(c) => d[1] <= c[1]
  /\ \A x \in todo : x[1] <= run
  /\ relay \in {"take"} \cup Holding =>
       \A q \in reqs : q.name \in todo \/ (\A x \in todo : x[1] <= q.call[1]) \/ (relay \in Holding /\ q = cur.req)
  /\ relay \in Holding => \A q \in reqs : cur.req.call[1] <= q.call[1]

\* Until it benchmarks, a run has not submitted; it asks for one challenge, and
\* benchmarks when that was opened.
Asking == {"state", "profile", "challenge"}
Seeing(r) == r \notin forced \cup blind

StepsInOrder ==
  /\ prog.force => run \in forced
  /\ run \in Run /\ prog.pc # "state" /\ run \notin blind => Begun(run)
  /\ \A c \in Call : body[c].k = "challenge" /\ c[1] \notin blind => Begun(c[1])
  /\ prog.pc \in Asking =>
       \A c \in Call : c[1] = run => /\ body[c].k # "submit"
                                     /\ body[c].k = "challenge" => agent # "ready" /\ c = This
  /\ Benching(prog.pc) => \A c \in Call : c[1] = run /\ body[c].k = "challenge" => execs[c] > 0
  /\ \A c, s \in Call : c[1] = s[1] /\ body[c].k = "challenge" /\ body[s].k = "submit" => execs[c] > 0

\* What a run was told of its attestation stays true until it asks for a challenge,
\* and until the challenge is executed.
ToldRight ==
  /\ prog.pc = "state" /\ agent = "wait" /\ reply[This].st = "ok" =>
       reply[This].att = reg.att \/ (reply[This].att = NoAtt /\ reg.att.exp <= day)
  /\ (prog.pc = "profile" /\ prog.att = NoAtt) \/ prog.pc = "challenge" =>
       (Seeing(run) => ~ Reusable(reg.att))
  /\ \A c \in Call : body[c].k = "challenge" /\ execs[c] = 0 /\ OnItsWay(c) /\ Seeing(c[1]) => ~ Reusable(reg.att)

NotWastedInv == AgentInv /\ RunsInOrder /\ StepsInOrder /\ ToldRight /\ ChallengesNotWasted

Kinds == {"state", "profile", "challenge", "start", "submit", "offer", "terms"}
ProgState ==
  [pc: {"state", "profile", "challenge", "fallback", "start", "submit", "offer", "terms", "end"},
   once: BOOLEAN, force: BOOLEAN, registered: BOOLEAN, att: Att,
   c: Nat, l: 0..Lanes, o: Call \cup {Nobody}]
Reply == [st: {"none", "ok", "stale", "limited", "dead", "error"}, att: Att, c: Nat]
Registry ==
  [profile: Nat, used: Nat, issued: Nat, lane: [Challenge -> Nat],
   att: Att, atts: SUBSET Att, offers: SUBSET [id: Call, exp: Nat], seq: [Call -> Nat]]

\* Registry h is g or comes after it: nothing that refuses a repetition is lost.
Later(g, h) ==
  /\ g.profile <= h.profile /\ g.issued <= h.issued
  /\ \A x \in Challenge : g.lane[x] <= h.lane[x]
  /\ g.offers \subseteq h.offers
  /\ \A x \in Call : g.seq[x] <= h.seq[x]

-----------------------------------------------------------------------------
(* Agent: the registry's answers                                           *)

LEMMA AgentIsRelay == [AgentNext]_allVars => [RelayNext]_relayVars
BY DEF AgentNext, AgentIssue, AgentReceive, AgentTimeout, AgentEnds, AgentStart, Executed, NextDay,
       HostOnly, allVars, RelayNext, AgentStep, HostStep

LEMMA StampType == \A c \in Call : Stamp(c) \in Nat
<1> SUFFICES ASSUME NEW c \in Call PROVE Stamp(c) \in Nat
  OBVIOUS
<1>1. c[1] - 1 \in Nat /\ c[2] \in Nat /\ MaxCalls \in Nat
  BY NameOfCall, RelayAssumption DEF Run
<1>2. (c[1] - 1) * MaxCalls \in Nat
  BY <1>1
<1> QED BY <1>1, <1>2 DEF Stamp

LEMMA ReplyType ==
  /\ \A st \in {"none", "ok", "stale", "limited", "dead", "error"} : Says(st) \in Reply /\ Says(st).st = st
  /\ NoReply \in Reply /\ NoAtt \in Att
BY DEF Says, NoReply, NoAtt, Reply, Att

\* No challenge is opened beyond the quota of the days so far.
LEMMA OpenedFits ==
  ASSUME AgentTypeOK, QuotaKept
  PROVE  \A x \in 1..reg.issued : x \in Challenge
<1>1. Quota \in Nat /\ MaxDays \in Nat /\ day \in Nat /\ day <= MaxDays /\ reg.issued \in Nat /\ reg.used \in Nat
  BY AgentAssumption DEF AgentTypeOK
<1>2. Quota * day <= Quota * MaxDays
  BY <1>1
<1>3. Quota * day \in Nat /\ Quota * MaxDays \in Nat /\ Quota * (MaxDays + 1) = Quota * MaxDays + Quota
  BY <1>1
<1>4. reg.issued <= Quota * (MaxDays + 1)
  BY <1>1, <1>2, <1>3 DEF QuotaKept
<1> QED BY <1>1, <1>4 DEF Challenge

\* What the handler of call c makes of the registry, and answers.
ServeFacts(c, v) ==
  /\ v.reply \in Reply /\ v.reg \in Registry /\ Later(reg, v.reg)
  /\ v.reg.used <= Quota /\ v.reg.issued <= Quota * day + v.reg.used
  /\ body[c].k = "challenge" /\ v.reply.st = "ok" => v.reply.c \in 1..v.reg.issued
  /\ v.reg # reg => Trace(c, v.reg) /\ (body[c].k # "challenge" => ~ Trace(c, reg))
  /\ v.reg.att = reg.att \/ body[c].k = "submit"
  /\ body[c].k = "state" /\ v.reply.st = "ok" =>
       v.reply.att = reg.att \/ (v.reply.att = NoAtt /\ reg.att.exp <= day)

LEMMA RefuseFacts ==
  ASSUME AgentTypeOK, QuotaKept, NEW c \in Call, NEW st \in {"ok", "stale", "limited", "dead", "error"},
         body[c].k \in {"state", "challenge"} => st # "ok"
  PROVE  ServeFacts(c, Refuse(st))
<1>1. Refuse(st).reg = reg /\ Refuse(st).reply = Says(st)
  BY DEF Refuse
<1>2. reg \in Registry /\ Later(reg, reg)
  BY DEF AgentTypeOK, Registry, Later
<1> QED BY <1>1, <1>2, ReplyType DEF ServeFacts, QuotaKept

LEMMA ServeStateFacts ==
  ASSUME AgentTypeOK, QuotaKept, NEW c \in Call, body[c].k = "state"
  PROVE  ServeFacts(c, ServeState)
<1>1. CASE reg.profile = 0
  BY <1>1, RefuseFacts DEF ServeState
<1>2. CASE reg.profile # 0
  <2> DEFINE a == IF reg.att.exp > day THEN reg.att ELSE NoAtt
             r == [Says("ok") EXCEPT !.att = a]
  <2>1. reg \in Registry /\ Later(reg, reg) /\ reg.att \in Att /\ day \in Nat /\ reg.att.exp \in Nat
    BY AgentAssumption DEF AgentTypeOK, Registry, Later, Att
  <2>2. a \in Att /\ (a = reg.att \/ (a = NoAtt /\ reg.att.exp <= day))
    BY <2>1, ReplyType
  <2> HIDE DEF a
  <2>3. r \in Reply /\ r.att = a
    BY <2>2, ReplyType DEF Reply
  <2>4. ServeState = [reply |-> r, reg |-> reg]
    BY <1>2 DEF ServeState, a
  <2> HIDE DEF r
  <2> QED BY <2>1, <2>2, <2>3, <2>4 DEF ServeFacts, QuotaKept
<1> QED BY <1>1, <1>2

LEMMA ServeProfileFacts ==
  ASSUME AgentTypeOK, QuotaKept, NEW c \in Call, body[c].k = "profile"
  PROVE  ServeFacts(c, ServeProfile(c))
<1>1. CASE ~ (Stamp(c) > reg.profile)
  BY <1>1, RefuseFacts DEF ServeProfile
<1>2. CASE Stamp(c) > reg.profile
  <2> DEFINE g == [reg EXCEPT !.profile = Stamp(c)]
  <2>1. g \in Registry /\ g.profile = Stamp(c) /\ g.used = reg.used /\ g.issued = reg.issued /\ g.att = reg.att
    BY StampType DEF AgentTypeOK, Registry
  <2>2. Later(reg, g)
    BY <1>2, StampType DEF AgentTypeOK, Later
  <2>3. ServeProfile(c) = [reply |-> Says("ok"), reg |-> g]
    BY <1>2 DEF ServeProfile
  <2>4. Trace(c, g) /\ ~ Trace(c, reg)
    BY <1>2, <2>1, StampType DEF Trace, AgentTypeOK
  <2> HIDE DEF g
  <2> QED BY <2>1, <2>2, <2>3, <2>4, ReplyType DEF ServeFacts, QuotaKept
<1> QED BY <1>1, <1>2

LEMMA ServeChallengeFacts ==
  ASSUME AgentTypeOK, QuotaKept, NEW c \in Call, body[c].k = "challenge"
  PROVE  ServeFacts(c, ServeChallenge)
<1>1. CASE reg.profile = 0 \/ reg.used >= Quota
  BY <1>1, RefuseFacts DEF ServeChallenge
<1>2. CASE ~ (reg.profile = 0 \/ reg.used >= Quota)
  <2> DEFINE g == [reg EXCEPT !.used = @ + 1, !.issued = @ + 1]
             r == [Says("ok") EXCEPT !.c = reg.issued + 1]
  <2>0. reg.issued \in Nat /\ reg.used \in Nat /\ Quota \in Nat /\ day \in Nat
    BY AgentAssumption DEF AgentTypeOK
  <2>1. g \in Registry /\ g.used = reg.used + 1 /\ g.issued = reg.issued + 1 /\ g.att = reg.att
    <3> DEFINE u == reg.used + 1
               i == reg.issued + 1
    <3>1. u \in Nat /\ i \in Nat
      BY <2>0
    <3> HIDE DEF u, i
    <3>2. [reg EXCEPT !.used = u, !.issued = i] \in Registry
      BY <3>1 DEF AgentTypeOK, Registry
    <3> QED BY <3>2 DEF AgentTypeOK, u, i
  <2>2. Later(reg, g)
    BY DEF AgentTypeOK, Later
  <2>3. ServeChallenge = [reply |-> r, reg |-> g]
    BY <1>2 DEF ServeChallenge
  <2>4. r \in Reply /\ r.c = reg.issued + 1
    BY <2>0, ReplyType DEF Reply
  <2>5. Trace(c, g)
    BY DEF Trace
  <2> HIDE DEF g, r
  <2>6. Quota * day \in Nat
    BY <2>0
  <2>7. g.used <= Quota /\ g.issued <= Quota * day + g.used
    BY <1>2, <2>0, <2>1, <2>6 DEF QuotaKept
  <2> QED BY <2>0, <2>1, <2>2, <2>3, <2>4, <2>5, <2>7 DEF ServeFacts
<1> QED BY <1>1, <1>2

\* The next half step of a challenge's lanes.
LEMMA LaneMoves ==
  ASSUME AgentTypeOK, NEW x \in Challenge, NEW g, g = [reg EXCEPT !.lane[x] = @ + 1]
  PROVE  /\ g \in Registry /\ Later(reg, g) /\ g.lane[x] = reg.lane[x] + 1 /\ reg.lane[x] \in Nat
         /\ g.used = reg.used /\ g.issued = reg.issued /\ g.att = reg.att
<1>1. reg.lane \in [Challenge -> Nat] /\ reg.lane[x] \in Nat
  BY DEF AgentTypeOK
<1> DEFINE f == [reg.lane EXCEPT ![x] = @ + 1]
<1>2. f \in [Challenge -> Nat] /\ f[x] = reg.lane[x] + 1 /\ \A y \in Challenge : reg.lane[y] <= f[y]
  BY <1>1
<1>3. g = [reg EXCEPT !.lane = f]
  BY DEF AgentTypeOK
<1> HIDE DEF f
<1>4. /\ g \in Registry /\ g.lane = f /\ g.used = reg.used /\ g.issued = reg.issued /\ g.att = reg.att
      /\ g.profile = reg.profile /\ g.offers = reg.offers /\ g.seq = reg.seq
  BY <1>2, <1>3 DEF AgentTypeOK, Registry
<1> QED BY <1>1, <1>2, <1>4 DEF Later, AgentTypeOK

LEMMA ServeStartFacts ==
  ASSUME AgentTypeOK, QuotaKept, BodiesFit, NEW c \in Call, body[c].k = "start"
  PROVE  ServeFacts(c, ServeStart(body[c]))
<1> DEFINE b == body[c]
<1>1. b.c \in Challenge /\ b.l \in Nat
  BY OpenedFits DEF BodiesFit, Benching, AgentTypeOK, Body
<1>2. CASE reg.lane[b.c] # 2 * (b.l - 1)
  BY <1>2, RefuseFacts DEF ServeStart
<1>3. CASE reg.lane[b.c] = 2 * (b.l - 1)
  <2> DEFINE g == [reg EXCEPT !.lane[b.c] = @ + 1]
  <2>1. /\ g \in Registry /\ Later(reg, g) /\ g.lane[b.c] = reg.lane[b.c] + 1 /\ reg.lane[b.c] \in Nat
        /\ g.used = reg.used /\ g.issued = reg.issued /\ g.att = reg.att
    BY <1>1, LaneMoves
  <2>2. ServeStart(b) = [reply |-> Says("ok"), reg |-> g]
    BY <1>3 DEF ServeStart
  <2> HIDE DEF g
  <2>3. Trace(c, g) /\ ~ Trace(c, reg)
    BY <1>1, <1>3, <2>1 DEF Trace
  <2> QED BY <2>1, <2>2, <2>3, ReplyType DEF ServeFacts, QuotaKept
<1> QED BY <1>2, <1>3

LEMMA ServeSubmitFacts ==
  ASSUME AgentTypeOK, QuotaKept, BodiesFit, NEW c \in Call, body[c].k = "submit"
  PROVE  ServeFacts(c, ServeSubmit(body[c]))
<1> DEFINE b == body[c]
           last == [c |-> b.c, exp |-> day + AttLife]
           done == [reg EXCEPT !.lane[b.c] = @ + 1]
<1>1. b.c \in Challenge /\ b.l \in Nat /\ b.c \in Nat
  BY OpenedFits DEF BodiesFit, Benching, AgentTypeOK, Body
<1>2. /\ done \in Registry /\ Later(reg, done) /\ done.lane[b.c] = reg.lane[b.c] + 1 /\ reg.lane[b.c] \in Nat
      /\ done.used = reg.used /\ done.issued = reg.issued /\ done.att = reg.att
  BY <1>1, LaneMoves
<1>3. last \in Att
  BY <1>1, AgentAssumption DEF Att, AgentTypeOK
<1>4. CASE reg.lane[b.c] # 2 * b.l - 1
  BY <1>4, RefuseFacts DEF ServeSubmit
<1>5. CASE reg.lane[b.c] = 2 * b.l - 1 /\ b.l < Lanes
  <2>1. ServeSubmit(b) = [reply |-> Says("ok"), reg |-> done]
    BY <1>5 DEF ServeSubmit
  <2> HIDE DEF done
  <2>2. Trace(c, done) /\ ~ Trace(c, reg)
    BY <1>1, <1>2, <1>5 DEF Trace
  <2> QED BY <1>2, <2>1, <2>2, ReplyType DEF ServeFacts, QuotaKept
<1>6. CASE reg.lane[b.c] = 2 * b.l - 1 /\ ~ (b.l < Lanes)
  <2> DEFINE g == [done EXCEPT !.att = last, !.atts = @ \cup {last}]
             r == [Says("ok") EXCEPT !.att = last]
  <2>1. ServeSubmit(b) = [reply |-> r, reg |-> g]
    BY <1>6 DEF ServeSubmit
  <2> HIDE DEF done, last
  <2>2. r \in Reply
    BY <1>3, ReplyType DEF Reply
  <2>3. /\ g \in Registry /\ g.lane = done.lane /\ g.used = done.used /\ g.issued = done.issued
        /\ g.profile = done.profile /\ g.offers = done.offers /\ g.seq = done.seq
    BY <1>2, <1>3 DEF Registry
  <2> HIDE DEF g, r
  <2>4. Later(reg, g)
    BY <1>2, <2>3 DEF Later
  <2>5. Trace(c, g) /\ ~ Trace(c, reg)
    BY <1>1, <1>2, <1>6, <2>3 DEF Trace
  <2> QED BY <1>2, <2>1, <2>2, <2>3, <2>4, <2>5 DEF ServeFacts, QuotaKept
<1> QED BY <1>4, <1>5, <1>6

LEMMA ServeOfferFacts ==
  ASSUME AgentTypeOK, QuotaKept, NEW c \in Call, body[c].k = "offer"
  PROVE  ServeFacts(c, ServeOffer(c, body[c]))
<1> DEFINE a == CHOOSE x \in Rests(body[c]) : TRUE
           e == Sooner(day + OfferDays, a.exp)
           O == reg.offers \cup {[id |-> c, exp |-> e]}
           g == [reg EXCEPT !.offers = O]
           v == ServeOffer(c, body[c])
<1>1. \/ v \in {Refuse("error"), Refuse("ok")}
      \/ v = [reply |-> Says("ok"), reg |-> g] /\ Rests(body[c]) # {} /\ ~ \E o \in reg.offers : o.id = c
  BY DEF ServeOffer, AgentTypeOK
<1>2. CASE v \in {Refuse("error"), Refuse("ok")}
  BY <1>2, RefuseFacts
<1>3. CASE v = [reply |-> Says("ok"), reg |-> g] /\ Rests(body[c]) # {} /\ ~ \E o \in reg.offers : o.id = c
  <2>1. e \in Nat
    <3>1. a \in Rests(body[c])
      BY <1>3
    <3> HIDE DEF a
    <3>2. a.exp \in Nat /\ day + OfferDays \in Nat
      BY <3>1, AgentAssumption DEF Rests, AgentTypeOK, Att
    <3> QED BY <3>2 DEF Sooner
  <2> HIDE DEF e, a
  <2>2. O \in SUBSET [id: Call, exp: Nat] /\ reg.offers \subseteq O /\ \E o \in O : o.id = c
    <3>1. [id |-> c, exp |-> e] \in [id: Call, exp: Nat] /\ [id |-> c, exp |-> e].id = c
      BY <2>1
    <3>2. reg.offers \in SUBSET [id: Call, exp: Nat]
      BY DEF AgentTypeOK
    <3> QED BY <3>1, <3>2
  <2> HIDE DEF O, v
  <2>3. /\ g \in Registry /\ g.lane = reg.lane /\ g.used = reg.used /\ g.issued = reg.issued
        /\ g.profile = reg.profile /\ g.offers = O /\ g.seq = reg.seq /\ g.att = reg.att
    BY <2>2 DEF AgentTypeOK, Registry
  <2> HIDE DEF g
  <2>4. Later(reg, g)
    BY <2>2, <2>3 DEF Later, AgentTypeOK
  <2>5. Trace(c, g) /\ ~ Trace(c, reg)
    BY <1>3, <2>2, <2>3 DEF Trace
  <2> QED BY <1>3, <2>3, <2>4, <2>5, ReplyType DEF ServeFacts, QuotaKept, v
<1> QED BY <1>1, <1>2, <1>3

LEMMA ServeTermsFacts ==
  ASSUME AgentTypeOK, QuotaKept, BodiesFit, NEW c \in Call, body[c].k = "terms"
  PROVE  ServeFacts(c, ServeTerms(c, body[c]))
<1> DEFINE b == body[c]
           f == [reg.seq EXCEPT ![b.o] = Stamp(c)]
           g == [reg EXCEPT !.seq = f]
           v == ServeTerms(c, body[c])
<1>1. v \in {Refuse("error"), Refuse("dead")} \/ (v = [reply |-> Says("ok"), reg |-> g] /\ ~ (Stamp(c) <= reg.seq[b.o]))
  BY DEF ServeTerms, AgentTypeOK
<1>2. CASE v \in {Refuse("error"), Refuse("dead")}
  BY <1>2, RefuseFacts
<1>3. CASE v = [reply |-> Says("ok"), reg |-> g] /\ ~ (Stamp(c) <= reg.seq[b.o])
  <2>0. b.o \in Call /\ Stamp(c) \in Nat /\ reg.seq \in [Call -> Nat]
    BY StampType DEF BodiesFit, AgentTypeOK
  <2>1. f \in [Call -> Nat] /\ f[b.o] = Stamp(c) /\ \A x \in Call : reg.seq[x] <= f[x]
    BY <1>3, <2>0
  <2> HIDE DEF f, v
  <2>3. /\ g \in Registry /\ g.lane = reg.lane /\ g.used = reg.used /\ g.issued = reg.issued
        /\ g.profile = reg.profile /\ g.offers = reg.offers /\ g.seq = f /\ g.att = reg.att
    BY <2>1 DEF AgentTypeOK, Registry
  <2> HIDE DEF g
  <2>4. Later(reg, g)
    BY <2>1, <2>3 DEF Later, AgentTypeOK
  <2>5. Trace(c, g) /\ ~ Trace(c, reg)
    BY <1>3, <2>0, <2>1, <2>3 DEF Trace
  <2> QED BY <1>3, <2>3, <2>4, <2>5, ReplyType DEF ServeFacts, QuotaKept, v
<1> QED BY <1>1, <1>2, <1>3

LEMMA ServedWell ==
  ASSUME AgentTypeOK, QuotaKept, BodiesFit, NEW c \in Call, body[c].k # "none"
  PROVE  ServeFacts(c, Serve(c))
<1>1. body[c].k \in Kinds
  BY DEF AgentTypeOK, Body, Kinds
<1>2. CASE body[c].k = "state"
  BY <1>2, ServeStateFacts DEF Serve
<1>3. CASE body[c].k = "profile"
  BY <1>3, ServeProfileFacts DEF Serve
<1>4. CASE body[c].k = "challenge"
  BY <1>4, ServeChallengeFacts DEF Serve
<1>5. CASE body[c].k = "start"
  BY <1>5, ServeStartFacts DEF Serve
<1>6. CASE body[c].k = "submit"
  BY <1>6, ServeSubmitFacts DEF Serve
<1>7. CASE body[c].k = "offer"
  BY <1>7, ServeOfferFacts DEF Serve
<1>8. CASE body[c].k = "terms"
  BY <1>8, ServeTermsFacts DEF Serve
<1> QED BY <1>1, <1>2, <1>3, <1>4, <1>5, <1>6, <1>7, <1>8 DEF Kinds

-----------------------------------------------------------------------------
(* Agent: the program's steps                                              *)

LEMMA GiveUpFacts ==
  ASSUME NEW p \in ProgState, NEW q, q = GiveUp(p)
  PROVE  /\ q \in ProgState /\ q.force = p.force /\ q.pc \in {"profile", "terms", "end"}
         /\ q.pc = "profile" => p.pc = "state"
         /\ q.pc = "terms" => p.pc = "terms" /\ q.o = p.o
<1>1. CASE p.pc = "state"
  BY <1>1, ReplyType DEF GiveUp, ProgState
<1>2. CASE p.pc # "state"
  BY <1>2 DEF GiveUp, Repeat, End, ProgState
<1> QED BY <1>1, <1>2

\* Lanes follow each other, heartbeats follow their offer, and a challenge is
\* asked for only when the first answer left the run without an attestation.
ProceedFacts(p, r, q) ==
  /\ q \in ProgState /\ q.force = p.force /\ q.pc # "state"
  /\ Benching(q.pc) =>
       \/ p.pc = "challenge" /\ r.st = "ok" /\ q.c = r.c /\ q.l = 1
       \/ Benching(p.pc) /\ q.c = p.c /\ (q.l = p.l \/ (q.l = p.l + 1 /\ p.l < Lanes))
  /\ q.pc = "terms" => q.o = This \/ (p.pc = "terms" /\ q.o = p.o)
  /\ q.pc = "profile" => p.pc = "state"
  /\ p.pc = "state" /\ q.att = NoAtt /\ r.st = "ok" /\ ~ p.force => ~ Reusable(r.att)
  /\ q.pc = "challenge" => p.pc = "profile" /\ p.att = NoAtt

LEMMA BenchProceeds ==
  ASSUME NEW p \in ProgState, NEW r \in Reply, p.pc \in {"challenge", "fallback", "start", "submit"},
         NEW q, q = RunBenchmark(p, r)
  PROVE  ProceedFacts(p, r, q)
<1> USE DEF ProceedFacts, Benching
<1>0. Lanes \in Nat \ {0} /\ r.att \in Att /\ r.c \in Nat /\ 1 \in 0..Lanes
  BY AgentAssumption DEF Reply
<1>1. CASE p.pc = "challenge"
  BY <1>0, <1>1 DEF RunBenchmark, End, ProgState
<1>2. CASE p.pc = "fallback"
  BY <1>0, <1>2 DEF RunBenchmark, End, ProgState
<1>3. CASE p.pc = "start"
  BY <1>0, <1>3 DEF RunBenchmark, End, ProgState
<1>4. CASE p.pc = "submit"
  <2>1. p.l < Lanes => p.l + 1 \in 0..Lanes
    BY <1>0 DEF ProgState
  <2> QED BY <1>0, <1>4, <2>1 DEF RunBenchmark, End, ProgState
<1> QED BY <1>1, <1>2, <1>3, <1>4

LEMMA Proceeds ==
  ASSUME NEW p \in ProgState, NEW r \in Reply, p.pc # "end", This \in Call,
         NEW q, q = Proceed(p, r)
  PROVE  ProceedFacts(p, r, q)
<1> USE DEF Benching
<1>1. CASE p.pc = "state"
  <2> DEFINE a == IF r.st = "ok" /\ ~ p.force /\ Reusable(r.att) THEN r.att ELSE NoAtt
             ok == r.st = "ok"
  <2>1. a \in Att /\ ok \in BOOLEAN /\ (a = NoAtt /\ r.st = "ok" /\ ~ p.force => ~ Reusable(r.att))
    BY ReplyType DEF Reply, Reusable
  <2>2. q = [p EXCEPT !.pc = "profile", !.registered = ok, !.att = a]
    BY <1>1 DEF Proceed
  <2> HIDE DEF a, ok
  <2>3. q \in ProgState /\ q.pc = "profile" /\ q.force = p.force /\ q.att = a
    BY <2>1, <2>2 DEF ProgState
  <2> QED BY <1>1, <2>1, <2>3 DEF ProceedFacts
<1>2. CASE p.pc = "profile"
  BY <1>2 DEF Proceed, End, ProgState, ProceedFacts
<1>3. CASE p.pc = "offer"
  BY <1>3 DEF Proceed, End, ProgState, ProceedFacts
<1>4. CASE p.pc = "terms"
  BY <1>4 DEF Proceed, Repeat, End, ProgState, ProceedFacts
<1>5. CASE p.pc \in {"challenge", "fallback", "start", "submit"}
  BY <1>5, BenchProceeds DEF Proceed
<1> QED BY <1>1, <1>2, <1>3, <1>4, <1>5 DEF ProgState

LEMMA AskType ==
  ASSUME prog \in ProgState, prog.pc # "end"
  PROVE  Ask \in Body /\ Ask.k \in Kinds /\ (Ask.k = prog.pc \/ (prog.pc = "fallback" /\ Ask.k = "state"))
         /\ Ask.l = prog.l /\ Ask.o = prog.o /\ (prog.pc # "offer" => Ask.c = prog.c)
<1>1. prog.att.c \in Nat
  BY DEF ProgState, Att
<1> QED BY <1>1 DEF Ask, Body, Kinds, ProgState

LEMMA HostOnlyFacts ==
  ASSUME RelayInv, HostOnly
  PROVE  /\ run' = run /\ n' = n /\ execs' = execs /\ agent' \in {agent, "off"} /\ reqs' \subseteq reqs
         /\ \A c \in Call : outcome'[c] = "unsent" <=> outcome[c] = "unsent"
<1>1. /\ run' = run /\ n' = n /\ execs' = execs /\ agent' \in {agent, "off"} /\ reqs' \subseteq reqs
      /\ outcome' \in {outcome, Abandon}
  BY DEF HostOnly, Scan, Take, Hang, ForwardFails, WriteResp, WriteFails, Unlink, Sweep,
         RemoveContainer, StartRelay, Report, Lookup, DriverExit, ManagerExit, Interrupt, HostCrash,
         files, Stopped
<1> QED BY <1>1 DEF Abandon

-----------------------------------------------------------------------------
(* Agent: every step keeps the invariant                                   *)

\* The registry of a later state still refuses what it has done.
LEMMA TraceStays ==
  ASSUME AgentTypeOK, BodiesFit, QuotaKept, NEW c \in Call, NEW h \in Registry, Later(reg, h), Trace(c, reg)
  PROVE  Trace(c, h)
<1>1. Benching(body[c].k) => body[c].c \in Challenge /\ body[c].l \in Nat
  BY OpenedFits DEF BodiesFit, AgentTypeOK, Body
<1>2. reg.lane \in [Challenge -> Nat] /\ reg.seq \in [Call -> Nat] /\ reg.profile \in Nat
  BY DEF AgentTypeOK
<1>3. h.lane \in [Challenge -> Nat] /\ h.seq \in [Call -> Nat] /\ h.profile \in Nat
  BY DEF Registry
<1>4. Stamp(c) \in Nat /\ (body[c].k = "terms" => body[c].o \in Call)
  BY StampType DEF BodiesFit
<1> HIDE DEF Stamp
<1> QED BY <1>1, <1>2, <1>3, <1>4 DEF Trace, Later, Benching

LEMMA AgentInvInit == AgentInit => AgentInv
<1> SUFFICES ASSUME AgentInit PROVE AgentInv
  OBVIOUS
<1> USE DEF AgentInit
<1>1. RelayInv
  BY RelayInvInit
<1>2. NoBody \in Body /\ Fresh \in ProgState /\ NoReply \in Reply
  BY ReplyType, AgentAssumption DEF NoBody, Body, Fresh, ProgState
<1>3. reg \in Registry
  BY ReplyType DEF Registry
<1>4. AgentTypeOK
  BY <1>1, <1>2, <1>3, AgentAssumption DEF AgentTypeOK, RelayInv, Registry, ProgState, Reply
<1>5. CallsFit /\ BodiesFit /\ EffectsTraced /\ AtMostOneEffect
  BY DEF CallsFit, BodiesFit, EffectsTraced, AtMostOneEffect, RelayInit, NoBody, NoReply, Benching
<1>6. ProgFits
  BY DEF ProgFits, Fresh, Benching, RelayInit
<1>7. QuotaKept
  <2>1. reg.used = 0 /\ reg.issued = 0 /\ Quota * day = 0
    BY AgentAssumption
  <2> QED BY <2>1, AgentAssumption DEF QuotaKept
<1> QED BY <1>1, <1>4, <1>5, <1>6, <1>7 DEF AgentInv

\* Steps that leave the program, the calls and the registry alone.
LEMMA QuietAgent ==
  ASSUME AgentInv, RelayInv', UNCHANGED agentVars, run' = run, n' = n, execs' = execs,
         agent' = "wait" => agent = "wait",
         \A c \in Call : outcome'[c] = "unsent" <=> outcome[c] = "unsent"
  PROVE  AgentInv'
<1> USE DEF AgentInv, agentVars
<1>1. AgentTypeOK'
  BY DEF AgentTypeOK, RelayInv
<1>2. CallsFit' /\ BodiesFit' /\ EffectsTraced' /\ AtMostOneEffect' /\ QuotaKept'
  BY DEF CallsFit, BodiesFit, EffectsTraced, AtMostOneEffect, QuotaKept, Trace, Stamp
<1>3. ProgFits'
  BY DEF ProgFits, Ask, This
<1> QED BY <1>1, <1>2, <1>3

LEMMA IssueKeeps ==
  ASSUME AgentInv, RelayInv', AgentIssue
  PROVE  AgentInv'
<1> USE DEF AgentInv
<1> DEFINE c == <<run, n + 1>>
<1>1. c \in Call /\ outcome[c] = "unsent"
  BY IssueFresh DEF AgentIssue
<1>2. This' = c /\ agent' \in {"wait", "ready"} /\ execs' = execs /\ agent = "ready"
  BY DEF AgentIssue, Issue, This
<1>3. outcome'[c] # "unsent" /\ \A d \in Call : d # c => outcome'[d] = outcome[d]
  BY <1>1 DEF AgentIssue, Issue, RelayInv, RelayTypeOK
<1>4. prog \in ProgState /\ prog.pc # "end"
  BY DEF AgentTypeOK, ProgState, AgentIssue
<1>5. Ask \in Body /\ Ask.k \in Kinds /\ (Ask.k = prog.pc \/ (prog.pc = "fallback" /\ Ask.k = "state"))
      /\ Ask.l = prog.l /\ Ask.o = prog.o /\ (prog.pc # "offer" => Ask.c = prog.c)
  BY <1>4, AskType
<1>6. body' \in [Call -> Body] /\ body'[c] = Ask /\ \A d \in Call : d # c => body'[d] = body[d]
  BY <1>1, <1>5 DEF AgentIssue, AgentTypeOK
<1>7. UNCHANGED <<day, reply, reg, effects, forced, wasted>>
  BY DEF AgentIssue
<1>8. \/ agent' = "wait" /\ prog' = prog /\ blind' = blind
      \/ agent' = "ready" /\ prog' = GiveUp(prog) /\ blind' \subseteq blind \cup {run}
  BY <1>2 DEF AgentIssue, Blinded
<1>9. /\ prog' \in ProgState /\ (Benching(prog'.pc) => prog' = prog)
      /\ prog'.pc = "terms" => prog.pc = "terms" /\ prog'.o = prog.o
  BY <1>4, <1>8, GiveUpFacts DEF Benching
<1>10. AgentTypeOK'
  <2>1. run \in Run
    BY <1>2 DEF RelayInv, Started
  <2> QED BY <1>6, <1>7, <1>8, <1>9, <2>1 DEF AgentTypeOK, RelayInv, ProgState
<1>11. execs[c] = 0 /\ reply[c].st = "none" /\ effects[c] = 0
  BY <1>1 DEF CallsFit, RelayInv, RelayTypeOK
<1>12. CallsFit'
  BY <1>2, <1>3, <1>5, <1>6, <1>7, <1>11 DEF CallsFit, Kinds
<1>13. BodiesFit'
  BY <1>5, <1>6, <1>7, <1>11 DEF BodiesFit, ProgFits, Benching
<1>14. ProgFits'
  <2>1. agent' = "wait" => Ask' = Ask
    BY <1>8 DEF Ask
  <2> QED BY <1>2, <1>4, <1>6, <1>7, <1>8, <1>9, <2>1 DEF ProgFits
<1>15. QuotaKept'
  BY <1>7 DEF QuotaKept
<1>16. EffectsTraced'
  BY <1>6, <1>7, <1>11 DEF EffectsTraced, Trace, Stamp
<1>17. AtMostOneEffect'
  BY <1>6, <1>7, <1>11 DEF AtMostOneEffect
<1> QED BY <1>10, <1>12, <1>13, <1>14, <1>15, <1>16, <1>17

\* The agent hears of its call, or stops waiting for it.
LEMMA ReturnKeeps ==
  ASSUME AgentInv, RelayInv', AgentReceive \/ AgentTimeout
  PROVE  AgentInv'
<1> USE DEF AgentInv
<1>1. This \in Call /\ agent = "wait" /\ agent' = "ready" /\ execs' = execs /\ This' = This /\ run \in Run
  BY DEF AgentReceive, AgentTimeout, Receive, Timeout, RelayInv, AwaitedPending, Started, This
<1>2. \A d \in Call : outcome'[d] = "unsent" <=> outcome[d] = "unsent"
  BY <1>1 DEF AgentReceive, AgentTimeout, Receive, Timeout, RelayInv, AwaitedPending, RelayTypeOK, Response
<1>3. UNCHANGED <<day, body, reply, reg, effects, forced, wasted>>
  BY DEF AgentReceive, AgentTimeout
<1>4. prog \in ProgState /\ prog.pc # "end" /\ reply[This] \in Reply /\ body[This] = Ask
  BY <1>1 DEF AgentTypeOK, ProgState, Reply, ProgFits
<1>5. (prog' = GiveUp(prog) \/ prog' = Proceed(prog, reply[This])) /\ blind' \subseteq blind \cup {run}
  BY DEF AgentReceive, AgentTimeout, Blinded
<1>6. \/ /\ prog' \in ProgState /\ ~ Benching(prog'.pc)
         /\ prog'.pc = "terms" => prog.pc = "terms" /\ prog'.o = prog.o
      \/ ProceedFacts(prog, reply[This], prog')
  BY <1>1, <1>4, <1>5, GiveUpFacts, Proceeds DEF Benching
<1>7. AgentTypeOK'
  BY <1>1, <1>3, <1>5, <1>6 DEF AgentTypeOK, RelayInv, ProgState, ProceedFacts
<1>8. CallsFit' /\ BodiesFit' /\ QuotaKept' /\ EffectsTraced' /\ AtMostOneEffect'
  BY <1>1, <1>2, <1>3 DEF CallsFit, BodiesFit, QuotaKept, EffectsTraced, Trace, Stamp, AtMostOneEffect
<1>9. prog.pc = "challenge" /\ reply[This].st = "ok" => reply[This].c \in 1..reg.issued
  BY <1>1, <1>4, AskType DEF BodiesFit
<1>10. ProgFits'
  BY <1>1, <1>3, <1>6, <1>9, AgentAssumption DEF ProgFits, ProceedFacts, ProgState
<1> QED BY <1>7, <1>8, <1>10

LEMMA StartKeeps ==
  ASSUME AgentInv, RelayInv', AgentStart
  PROVE  AgentInv'
<1> USE DEF AgentInv
<1>1. UNCHANGED <<day, body, reply, reg, effects, blind, wasted, execs, outcome>> /\ agent' = "ready"
  BY DEF AgentStart, StartAgent
<1>2. prog' \in ProgState /\ prog'.pc = "state"
  <2>1. Fresh \in ProgState
    BY ReplyType, AgentAssumption DEF Fresh, ProgState
  <2>2. PICK once \in BOOLEAN, force \in BOOLEAN :
           prog' = [Fresh EXCEPT !.pc = "state", !.once = once, !.force = force]
    BY DEF AgentStart
  <2> QED BY <2>1, <2>2 DEF ProgState
<1>3. forced' \subseteq Run
  BY RelayAssumption DEF AgentStart, StartAgent, AgentTypeOK, RelayInv, RelayTypeOK, Run
<1>4. AgentTypeOK'
  BY <1>1, <1>2, <1>3 DEF AgentTypeOK, RelayInv, ProgState
<1>5. CallsFit' /\ BodiesFit' /\ QuotaKept' /\ EffectsTraced' /\ AtMostOneEffect'
  BY <1>1 DEF CallsFit, BodiesFit, QuotaKept, EffectsTraced, Trace, Stamp, AtMostOneEffect
<1>6. ProgFits'
  BY <1>1, <1>2 DEF ProgFits, Benching
<1> QED BY <1>4, <1>5, <1>6

LEMMA NextDayKeeps ==
  ASSUME AgentInv, RelayInv', NextDay
  PROVE  AgentInv'
<1> USE DEF AgentInv
<1>1. UNCHANGED <<relayVars, prog, body, reply, effects, forced, blind, wasted>> /\ day' = day + 1 /\ day < MaxDays
  BY DEF NextDay
<1>2. UNCHANGED <<run, n, agent, execs, outcome>>
  BY <1>1 DEF relayVars
<1>3. /\ reg' \in Registry /\ reg'.used = 0 /\ reg'.lane = reg.lane /\ reg'.issued = reg.issued
      /\ reg'.profile = reg.profile /\ reg'.offers = reg.offers /\ reg'.seq = reg.seq /\ reg'.att = reg.att
  BY DEF NextDay, AgentTypeOK, Registry
<1>4. AgentTypeOK'
  BY <1>1, <1>3, AgentAssumption DEF AgentTypeOK, RelayInv, Registry
<1>5. CallsFit' /\ BodiesFit' /\ EffectsTraced' /\ AtMostOneEffect'
  BY <1>1, <1>2, <1>3 DEF CallsFit, BodiesFit, EffectsTraced, Trace, Stamp, AtMostOneEffect
<1>6. ProgFits'
  BY <1>1, <1>2, <1>3 DEF ProgFits, This, Ask
<1>7. QuotaKept'
  <2>1. Quota \in Nat /\ day \in Nat /\ reg.used \in Nat /\ reg.issued \in Nat
    BY AgentAssumption DEF AgentTypeOK
  <2>2. Quota * (day + 1) = Quota * day + Quota /\ Quota * day \in Nat
    BY <2>1
  <2> QED BY <1>1, <1>3, <2>1, <2>2 DEF QuotaKept
<1> QED BY <1>4, <1>5, <1>6, <1>7

\* The call at hand was made, and what its execution makes of the registry.
LEMMA ExecutedFacts ==
  ASSUME AgentInv, Executed, NEW c, c = cur.req.call
  PROVE  /\ c \in Call /\ outcome[c] # "unsent" /\ body[c].k # "none" /\ relay \in Holding
         /\ execs' \in [Call -> Nat] /\ execs'[c] > 0
         /\ \A d \in Call : execs'[d] >= execs[d] /\ (d # c => execs'[d] = execs[d])
         /\ ServeFacts(c, [reply |-> reply'[c], reg |-> reg'])
         /\ reply' \in [Call -> Reply] /\ \A d \in Call : d # c => reply'[d] = reply[d]
<1> USE DEF AgentInv
<1>1. relay \in Holding /\ c \in Call /\ outcome[c] # "unsent"
  BY DEF Executed, Forward, RelayInv, CurBacked, Holding, Asked, Request
<1>2. body[c].k # "none"
  BY <1>1 DEF CallsFit
<1>3. execs' \in [Call -> Nat] /\ execs'[c] > 0
      /\ \A d \in Call : execs'[d] >= execs[d] /\ (d # c => execs'[d] = execs[d])
  BY <1>1 DEF Executed, Forward, RelayInv, RelayTypeOK
<1>4. reply \in [Call -> Reply]
  BY DEF AgentTypeOK, Reply
<1>5. CASE reply' = [reply EXCEPT ![c] = Serve(c).reply] /\ reg' = Serve(c).reg
  <2>1. ServeFacts(c, Serve(c))
    BY <1>1, <1>2, ServedWell
  <2>2. reply'[c] = Serve(c).reply
    BY <1>1, <1>4, <1>5
  <2>3. ServeFacts(c, [reply |-> reply'[c], reg |-> reg'])
    BY <1>5, <2>1, <2>2 DEF ServeFacts
  <2> QED BY <1>1, <1>2, <1>3, <1>4, <1>5, <2>1, <2>3 DEF ServeFacts
<1>6. CASE body[c].k = "profile" /\ reply' = [reply EXCEPT ![c] = Says("limited")] /\ reg' = reg
  <2>1. ServeFacts(c, Refuse("limited"))
    BY <1>1, <1>6, RefuseFacts
  <2>2. reply'[c] = Says("limited") /\ reply' \in [Call -> Reply] /\ \A d \in Call : d # c => reply'[d] = reply[d]
    BY <1>1, <1>4, <1>6, ReplyType
  <2>3. Refuse("limited") = [reply |-> reply'[c], reg |-> reg']
    BY <1>6, <2>2 DEF Refuse
  <2> QED BY <1>1, <1>2, <1>3, <2>1, <2>2, <2>3
<1> QED BY <1>5, <1>6 DEF Executed

LEMMA ExecutedKeeps ==
  ASSUME AgentInv, RelayInv', Executed
  PROVE  AgentInv'
<1> USE DEF AgentInv
<1>1. PICK c : c = cur.req.call
  OBVIOUS
<1> DEFINE v == [reply |-> reply'[c], reg |-> reg']
<1>2. /\ c \in Call /\ outcome[c] # "unsent" /\ body[c].k # "none"
      /\ execs' \in [Call -> Nat] /\ execs'[c] > 0
      /\ \A d \in Call : execs'[d] >= execs[d] /\ (d # c => execs'[d] = execs[d])
      /\ ServeFacts(c, v)
      /\ reply' \in [Call -> Reply] /\ \A d \in Call : d # c => reply'[d] = reply[d]
  BY <1>1, ExecutedFacts
<1>3. UNCHANGED <<day, prog, body, forced, blind, run, n, agent, outcome>>
  BY DEF Executed, Forward
<1>4. /\ reg' \in Registry /\ Later(reg, reg') /\ reg'.used <= Quota /\ reg'.issued <= Quota * day + reg'.used
      /\ body[c].k = "challenge" /\ reply'[c].st = "ok" => reply'[c].c \in 1..reg'.issued
      /\ reg' # reg => Trace(c, reg') /\ (body[c].k # "challenge" => ~ Trace(c, reg))
  BY <1>2 DEF ServeFacts
<1>5. /\ effects' \in [Call -> Nat] /\ \A d \in Call : d # c => effects'[d] = effects[d]
      /\ reg' = reg => effects' = effects
      /\ reg' # reg => effects'[c] = effects[c] + 1
  BY <1>1, <1>2 DEF Executed, AgentTypeOK
<1>6. wasted' \subseteq Call
  BY <1>1, <1>2 DEF Executed, AgentTypeOK
<1>7. AgentTypeOK'
  BY <1>2, <1>3, <1>4, <1>5, <1>6 DEF AgentTypeOK, RelayInv, Registry, Reply
<1>8. reg.issued \in Nat /\ reg'.issued \in Nat /\ reg.issued <= reg'.issued
  BY <1>4 DEF AgentTypeOK, Registry, Later
<1>9. CallsFit'
  <2> SUFFICES ASSUME NEW d \in Call
               PROVE  /\ outcome'[d] = "unsent" => body'[d].k = "none" /\ effects'[d] = 0 /\ execs'[d] = 0
                      /\ outcome'[d] # "unsent" => body'[d].k # "none"
                      /\ reply'[d].st # "none" => execs'[d] > 0
    BY DEF CallsFit
  <2> QED BY <1>2, <1>3, <1>5 DEF CallsFit
<1>10. BodiesFit'
  BY <1>2, <1>3, <1>4, <1>8 DEF BodiesFit
<1>11. ProgFits'
  BY <1>3, <1>8 DEF ProgFits, This, Ask
<1>12. QuotaKept'
  BY <1>3, <1>4 DEF QuotaKept
<1>13. \A d \in Call : Trace(d, reg)' <=> Trace(d, reg')
  BY <1>3 DEF Trace, Stamp
<1>14. EffectsTraced'
  <2> SUFFICES ASSUME NEW d \in Call, effects'[d] > 0 PROVE Trace(d, reg')
    BY <1>13 DEF EffectsTraced
  <2>1. CASE d = c /\ reg' # reg
    BY <1>4, <2>1
  <2>2. CASE d # c \/ reg' = reg
    <3>1. Trace(d, reg)
      BY <1>5, <2>2 DEF EffectsTraced
    <3> QED BY <1>4, <3>1, TraceStays
  <2> QED BY <2>1, <2>2
<1>15. AtMostOneEffect'
  <2> SUFFICES ASSUME NEW d \in Call, body[d].k # "challenge" PROVE effects'[d] <= 1
    BY <1>3 DEF AtMostOneEffect
  <2>1. CASE d = c /\ reg' # reg
    <3>1. effects[c] = 0
      BY <1>2, <1>4, <2>1 DEF EffectsTraced, AgentTypeOK
    <3> QED BY <1>5, <2>1, <3>1
  <2>2. CASE d # c \/ reg' = reg
    BY <1>5, <2>2 DEF AtMostOneEffect
  <2> QED BY <2>1, <2>2
<1> QED BY <1>7, <1>9, <1>10, <1>11, <1>12, <1>14, <1>15

LEMMA AgentInvNext == AgentInv /\ [AgentNext]_allVars => AgentInv'
<1> SUFFICES ASSUME AgentInv, [AgentNext]_allVars PROVE AgentInv'
  OBVIOUS
<1>1. RelayInv'
  BY AgentIsRelay, RelayInvNext DEF AgentInv
<1>2. CASE HostOnly /\ UNCHANGED agentVars
  BY <1>1, <1>2, HostOnlyFacts, QuietAgent DEF AgentInv
<1>3. CASE AgentEnds
  BY <1>1, <1>3, QuietAgent DEF AgentEnds, AgentExit
<1>4. CASE UNCHANGED allVars
  BY <1>1, <1>4, QuietAgent DEF allVars, relayVars
<1> QED BY <1>1, <1>2, <1>3, <1>4, IssueKeeps, ReturnKeeps, StartKeeps, NextDayKeeps, ExecutedKeeps DEF AgentNext

\* The agent drives the relay as Relay lets any agent do, so what is proved of the
\* relay holds of the agent's calls: run and run_benchmark of agent/src/main.rs use
\* it through FileTransport::request alone.
THEOREM AgentUsesRelay == AgentSpec => RelaySpec
<1>1. AgentInit => RelayInit
  BY DEF AgentInit
<1> QED BY <1>1, AgentIsRelay, PTL DEF AgentSpec, RelaySpec

\* Whatever the relay repeats, delays or leaves unanswered, a call of the agent other
\* than a challenge changes the registry at most once (the handlers' idempotence,
\* as the flow of agent/src/main.rs meets it).
THEOREM EffectsOnce == AgentSpec => []AtMostOneEffect
<1>1. AgentInv => AtMostOneEffect
  BY DEF AgentInv
<1> QED BY <1>1, AgentInvInit, AgentInvNext, PTL DEF AgentSpec

-----------------------------------------------------------------------------
(* Agent: executions keep the order of the runs                            *)

LEMMA SentPast ==
  ASSUME RelayInv, NEW c \in Call, outcome[c] # "unsent"
  PROVE  c[1] <= run /\ run \in Run
<1>1. c[1] \in Run /\ run \in 0..MaxRuns
  BY NameOfCall DEF RelayInv, RelayTypeOK
<1>2. ~ (c[1] > run)
  BY DEF RelayInv, AheadUnsent, Ahead
<1> QED BY <1>1, <1>2, RelayAssumption DEF Run

\* Whatever is on its way was sent, under the name of its call.
LEMMA OnItsWaySent ==
  ASSUME RelayInv
  PROVE  /\ \A q \in reqs : q.call \in Call /\ q.name = q.call /\ outcome[q.call] # "unsent" /\ q \in Request
         /\ relay \in Holding => /\ cur.req.call \in Call /\ cur.req.name = cur.req.call
                                 /\ outcome[cur.req.call] # "unsent" /\ cur.req \in Request
<1> USE DEF RelayInv
<1>1. \A q \in reqs : q.call \in Call /\ q.name = q.call /\ outcome[q.call] # "unsent" /\ q \in Request
  BY NameOfCall DEF RequestsAsked, Asked, RelayTypeOK, Request
<1>2. relay \in Holding => /\ cur.req.call \in Call /\ cur.req.name = cur.req.call
                           /\ outcome[cur.req.call] # "unsent" /\ cur.req \in Request
  BY NameOfCall DEF CurBacked, Asked, Request
<1> QED BY <1>1, <1>2

LEMMA RequestByCall ==
  ASSUME NEW p \in Request, NEW q \in Request, p.name = q.name, p.call = q.call
  PROVE  p = q
BY DEF Request

\* The same or fewer files, and the relay where it was, further with the same
\* request, or out of its round.
LEMMA FewerInOrder ==
  ASSUME RelayInv, RunsInOrder, execs' = execs, reqs' \subseteq reqs, run' \in Nat, run <= run',
         todo' \subseteq todo,
         \/ relay' \notin {"take"} \cup Holding
         \/ relay \in Holding /\ relay' \in Holding /\ cur'.req = cur.req /\ todo' = todo
         \/ relay' = relay /\ cur' = cur /\ todo' = todo
  PROVE  RunsInOrder'
<1>0. run \in Nat /\ \A x \in todo : x[1] \in Nat
  BY RelayAssumption DEF RelayInv, RelayTypeOK, Name
<1>1. \A c \in Call : OnItsWay(c)' => OnItsWay(c)
  BY DEF OnItsWay, Holding
<1>2. \A x \in todo' : x[1] <= run'
  BY <1>0 DEF RunsInOrder
<1>3. relay' \in {"take"} \cup Holding =>
        /\ todo' = todo /\ relay \in {"take"} \cup Holding
        /\ relay' \in Holding <=> relay \in Holding
        /\ relay' \in Holding => cur'.req = cur.req
  BY DEF Holding
<1>4. relay' \in {"take"} \cup Holding =>
        \A q \in reqs' : q.name \in todo' \/ (\A x \in todo' : x[1] <= q.call[1]) \/ (relay' \in Holding /\ q = cur'.req)
  BY <1>3 DEF RunsInOrder
<1>5. relay' \in Holding => \A q \in reqs' : cur'.req.call[1] <= q.call[1]
  BY <1>3 DEF RunsInOrder
<1> QED BY <1>1, <1>2, <1>4, <1>5 DEF RunsInOrder

LEMMA IssueInOrder ==
  ASSUME AgentInv, RunsInOrder, Issue
  PROVE  RunsInOrder' /\ \A d \in Call : d # <<run, n + 1>> /\ OnItsWay(d)' => OnItsWay(d)
<1> USE DEF AgentInv
<1> DEFINE c == <<run, n + 1>>
<1>1. UNCHANGED <<run, relay, todo, cur, execs>> /\ c \in Call /\ run \in Nat /\ run \in Run
  BY IssueFresh, RelayAssumption DEF Issue, RelayInv, RelayTypeOK, Started
<1>2. \A q \in reqs' : q \in reqs \/ (q.call = c /\ q.call[1] = run)
  BY DEF Issue
<1>3. \A d \in Call : execs[d] > 0 => d[1] <= run
  BY SentPast DEF CallsFit
<1>4. \A d \in Call : d # c /\ OnItsWay(d)' => OnItsWay(d)
  BY <1>1, <1>2 DEF OnItsWay
<1>5. \A d, e \in Call : execs'[d] > 0 /\ OnItsWay(e)' => d[1] <= e[1]
  BY <1>1, <1>3, <1>4 DEF RunsInOrder
<1>6. \A q \in reqs' \ reqs : \A x \in todo : x[1] <= q.call[1]
  BY <1>2 DEF RunsInOrder
<1>7. relay \in Holding => cur.req.call[1] <= run
  BY OnItsWaySent, SentPast
<1> QED BY <1>1, <1>2, <1>4, <1>5, <1>6, <1>7 DEF RunsInOrder

LEMMA ScanInOrder ==
  ASSUME AgentInv, RunsInOrder, Scan
  PROVE  RunsInOrder'
<1> USE DEF AgentInv
<1>1. UNCHANGED <<run, reqs, execs>> /\ relay' = "take" /\ todo' = {q.name : q \in reqs}
  BY DEF Scan, files
<1>2. \A c \in Call : OnItsWay(c)' => OnItsWay(c)
  BY <1>1 DEF OnItsWay, Holding
<1>3. \A x \in todo' : x[1] <= run
  BY <1>1, OnItsWaySent, SentPast
<1> QED BY <1>1, <1>2, <1>3 DEF RunsInOrder, Holding

\* The lowest name of the listing is taken.
LEMMA TakeInOrder ==
  ASSUME AgentInv, RunsInOrder, Take
  PROVE  RunsInOrder'
<1> USE DEF AgentInv
<1>1. UNCHANGED <<run, reqs, execs>> /\ relay = "take"
  BY DEF Take, files
<1>2. CASE todo = {}
  <2>1. relay' = "scan" /\ todo' = todo
    BY <1>2 DEF Take
  <2> QED BY <1>1, <1>2, <2>1 DEF RunsInOrder, OnItsWay, Holding
<1>3. CASE todo # {}
  <2>1. PICK x \in Chosen(todo) :
          /\ todo' = todo \ {x}
          /\ \/ \E q \in reqs : q.name = x /\ cur' = [req |-> q, status |-> "none"] /\ relay' = "forward"
             \/ (\A q \in reqs : q.name # x) /\ UNCHANGED <<cur, relay>>
    BY <1>3 DEF Take
  <2>2. x \in todo /\ \A y \in todo : ~ Lower(y, x)
    BY DEF Chosen
  <2>3. \A y \in todo' : y[1] <= run'
    BY <1>1, <2>1 DEF RunsInOrder
  <2>4. CASE (\A q \in reqs : q.name # x) /\ UNCHANGED <<cur, relay>>
    <3>1. \A q \in reqs : q.name \in todo' \/ (\A y \in todo' : y[1] <= q.call[1])
      BY <1>1, <2>1, <2>4 DEF RunsInOrder, Holding
    <3>2. \A d \in Call : OnItsWay(d)' => OnItsWay(d)
      BY <1>1, <2>4 DEF OnItsWay
    <3> QED BY <1>1, <2>3, <2>4, <3>1, <3>2 DEF RunsInOrder, Holding
  <2>5. CASE \E q \in reqs : q.name = x /\ cur' = [req |-> q, status |-> "none"] /\ relay' = "forward"
    <3>1. PICK p \in reqs : p.name = x /\ cur' = [req |-> p, status |-> "none"] /\ relay' = "forward"
      BY <2>5
    <3>2. cur'.req = p /\ p.call = x /\ p \in Request /\ p.call \in Call
      BY <3>1, OnItsWaySent
    <3>3. \A d \in Call : OnItsWay(d)' => OnItsWay(d)
      BY <1>1, <3>1, <3>2 DEF OnItsWay
    <3>4. \A q \in reqs : q = p \/ q.name # x
      BY <3>1, <3>2, OnItsWaySent, RequestByCall
    <3>5. \A q \in reqs : q.name \in todo' \/ (\A y \in todo' : y[1] <= q.call[1]) \/ q = p
      BY <1>1, <2>1, <3>4 DEF RunsInOrder, Holding
    <3>6. \A q \in reqs : p.call[1] <= q.call[1]
      <4> SUFFICES ASSUME NEW q \in reqs, ~ (p.call[1] <= q.call[1]) PROVE FALSE
        OBVIOUS
      <4>1. q.name = q.call /\ q.call \in Call /\ q.call[1] \in Nat /\ p.call[1] \in Nat
        BY <3>2, OnItsWaySent, NameOfCall DEF Run
      <4>2. q.name \in todo
        BY <1>1, <2>2, <3>2 DEF RunsInOrder, Holding
      <4> QED BY <2>2, <3>2, <4>1, <4>2 DEF Lower
    <3> QED BY <1>1, <2>3, <3>1, <3>2, <3>3, <3>5, <3>6 DEF RunsInOrder, Holding
  <2> QED BY <2>1, <2>4, <2>5
<1> QED BY <1>2, <1>3

LEMMA ForwardInOrder ==
  ASSUME AgentInv, RunsInOrder, Forward
  PROVE  RunsInOrder'
<1> USE DEF AgentInv
<1>1. UNCHANGED <<run, reqs, todo>> /\ relay \in Holding /\ relay' \in Holding
  BY DEF Forward, files, Holding
<1>2. cur'.req = cur.req /\ cur.req.call \in Call
  BY <1>1, OnItsWaySent DEF Forward, RelayInv, CurBacked
<1>3. \A d \in Call : OnItsWay(d)' <=> OnItsWay(d)
  BY <1>1, <1>2 DEF OnItsWay
<1>4. \A d \in Call : execs'[d] > 0 => execs[d] > 0 \/ d = cur.req.call
  BY <1>2 DEF Forward, RelayInv, RelayTypeOK
<1>5. \A d \in Call : OnItsWay(d) => cur.req.call[1] <= d[1]
  BY <1>1, <1>2, NameOfCall DEF OnItsWay, RunsInOrder, Run
<1>6. \A d, e \in Call : execs'[d] > 0 /\ OnItsWay(e)' => d[1] <= e[1]
  BY <1>3, <1>4, <1>5 DEF RunsInOrder
<1> QED BY <1>1, <1>2, <1>6 DEF RunsInOrder

LEMMA UnlinkInOrder ==
  ASSUME AgentInv, RunsInOrder, Unlink
  PROVE  RunsInOrder'
<1>1. UNCHANGED <<run, todo, execs>> /\ relay \in Holding /\ relay' = "take"
  BY DEF Unlink, Holding
<1>2. reqs' = {q \in reqs : q.name # cur.req.name}
  BY DEF Unlink
<1>3. \A d \in Call : OnItsWay(d)' => OnItsWay(d)
  BY <1>1, <1>2 DEF OnItsWay, Holding
<1> QED BY <1>1, <1>2, <1>3 DEF RunsInOrder, Holding

LEMMA HostOnlyInOrder ==
  ASSUME AgentInv, RunsInOrder, HostOnly
  PROVE  RunsInOrder' /\ \A d \in Call : OnItsWay(d)' => OnItsWay(d)
<1> USE DEF AgentInv
<1>1. run \in Nat /\ run' = run /\ execs' = execs /\ reqs' \subseteq reqs
  BY HostOnlyFacts, RelayAssumption DEF RelayInv, RelayTypeOK
<1>2. CASE Scan
  BY <1>1, <1>2, ScanInOrder DEF OnItsWay, Scan, Holding
<1>3. CASE Take
  BY <1>1, <1>3, TakeInOrder DEF OnItsWay, Take, Holding
<1>4. CASE Unlink
  BY <1>1, <1>4, UnlinkInOrder DEF OnItsWay, Unlink, Holding
<1>5. CASE HostOnly /\ ~ Scan /\ ~ Take /\ ~ Unlink
  <2>1. \/ relay' \notin {"take"} \cup Holding
        \/ relay \in Holding /\ relay' \in Holding /\ cur'.req = cur.req /\ todo' = todo
        \/ relay' = relay /\ cur' = cur /\ todo' = todo
    BY <1>5 DEF HostOnly, Hang, ForwardFails, WriteResp, WriteFails, Sweep, RelayInv, CurBacked,
                RemoveContainer, StartRelay, Report, Lookup, DriverExit, ManagerExit, Interrupt, HostCrash,
                Stopped, Holding
  <2>2. todo' \subseteq todo
    BY <1>5 DEF HostOnly, Hang, ForwardFails, WriteResp, WriteFails, Sweep,
                RemoveContainer, StartRelay, Report, Lookup, DriverExit, ManagerExit, Interrupt, HostCrash,
                Stopped
  <2>3. RunsInOrder'
    BY <1>1, <2>1, <2>2, FewerInOrder
  <2> QED BY <1>1, <2>1, <2>3 DEF OnItsWay, Holding
<1> QED BY <1>2, <1>3, <1>4, <1>5

-----------------------------------------------------------------------------
(* Agent: no challenge is wasted                                           *)

LEMMA BegunStays ==
  ASSUME \A c \in Call : execs[c] > 0 => execs'[c] > 0
  PROVE  \A r : Begun(r) => Begun(r)'
BY DEF Begun

\* Time only takes an attestation's margin away.
LEMMA ReusableFades ==
  ASSUME AgentTypeOK, day' \in Nat, day <= day', reg'.att = reg.att, ~ Reusable(reg.att)
  PROVE  ~ Reusable(reg.att)'
<1>1. reg.att.exp \in Nat /\ day \in Nat /\ Margin \in Nat
  BY AgentAssumption DEF AgentTypeOK, Att
<1> QED BY <1>1 DEF Reusable

\* An attestation that has expired is not reused: the margin is positive.
LEMMA ExpiredNotReusable ==
  ASSUME AgentTypeOK, reg.att.exp <= day
  PROVE  ~ Reusable(reg.att)
<1>1. reg.att.exp \in Nat /\ day \in Nat /\ Margin \in Nat \ {0}
  BY AgentAssumption DEF AgentTypeOK, Att
<1> QED BY <1>1 DEF Reusable

LEMMA QuietOrder ==
  ASSUME NotWastedInv, UNCHANGED agentVars, run' = run, n' = n, execs' = execs, agent' \in {agent, "off", "exited"},
         \A d \in Call : OnItsWay(d)' => OnItsWay(d)
  PROVE  StepsInOrder' /\ ToldRight' /\ ChallengesNotWasted'
<1> USE DEF NotWastedInv, agentVars
<1>1. StepsInOrder'
  BY DEF StepsInOrder, Begun, This
<1>2. ToldRight'
  BY DEF ToldRight, Seeing, Reusable, This
<1> QED BY <1>1, <1>2 DEF ChallengesNotWasted

LEMMA IssueOrder ==
  ASSUME NotWastedInv, AgentIssue
  PROVE  StepsInOrder' /\ ToldRight' /\ ChallengesNotWasted'
<1> USE DEF NotWastedInv, AgentInv
<1> DEFINE c == <<run, n + 1>>
<1>1. c \in Call /\ outcome[c] = "unsent" /\ c[1] = run
  BY IssueFresh DEF AgentIssue
<1>2. This' = c /\ agent' \in {"wait", "ready"} /\ execs' = execs /\ agent = "ready" /\ run' = run /\ run \in Run
  BY DEF AgentIssue, Issue, This, RelayInv, Started
<1>3. prog \in ProgState /\ prog.pc # "end"
  BY DEF AgentTypeOK, ProgState, AgentIssue
<1>4. Ask.k \in Kinds /\ (Ask.k = prog.pc \/ (prog.pc = "fallback" /\ Ask.k = "state"))
  BY <1>3, AskType
<1>5. body'[c] = Ask /\ \A d \in Call : d # c => body'[d] = body[d]
  BY <1>1 DEF AgentIssue, AgentTypeOK
<1>6. UNCHANGED <<day, reply, reg, effects, forced, wasted>>
  BY DEF AgentIssue
<1>7. \/ agent' = "wait" /\ prog' = prog /\ blind' = blind
      \/ agent' = "ready" /\ prog' = GiveUp(prog) /\ blind' = IF prog.pc = "state" THEN blind \cup {run} ELSE blind
  BY <1>2 DEF AgentIssue, Blinded
<1>8. /\ prog'.force = prog.force
      /\ \/ agent' = "wait" /\ prog' = prog /\ blind' = blind
         \/ agent' = "ready" /\ prog'.pc = "profile" /\ prog.pc = "state" /\ blind' = blind \cup {run}
         \/ prog'.pc \in {"terms", "end"} /\ prog.pc = "state" /\ blind' = blind \cup {run}
         \/ prog'.pc \in {"terms", "end"} /\ prog.pc # "state" /\ blind' = blind
  BY <1>3, <1>7, GiveUpFacts
<1>9. blind \subseteq blind' /\ (prog.pc = "state" /\ prog'.pc # "state" => run \in blind')
  BY <1>8
<1>10. \A r : Begun(r) => Begun(r)'
  BY <1>2 DEF Begun
<1>11. execs[c] = 0 /\ reply[c].st = "none"
  BY <1>1 DEF CallsFit, RelayInv, RelayTypeOK
<1>12. \A d \in Call : d # c /\ OnItsWay(d)' => OnItsWay(d)
  BY IssueInOrder DEF AgentIssue
<1>13. prog.pc # "state" /\ run \notin blind => Begun(run)
  BY <1>2 DEF StepsInOrder
<1>14. (prog'.force => run' \in forced') /\ (run' \in Run /\ prog'.pc # "state" /\ run' \notin blind' => Begun(run)')
  BY <1>2, <1>6, <1>8, <1>9, <1>10, <1>13 DEF StepsInOrder
<1>15. \A d \in Call : body'[d].k = "challenge" /\ d[1] \notin blind' => Begun(d[1])'
  <2> SUFFICES ASSUME NEW d \in Call, body'[d].k = "challenge", d[1] \notin blind' PROVE Begun(d[1])
    BY <1>10
  <2>1. CASE d = c
    BY <1>1, <1>4, <1>5, <1>9, <1>13, <2>1
  <2>2. CASE d # c
    BY <1>5, <1>9, <2>2 DEF StepsInOrder
  <2> QED BY <2>1, <2>2
<1>16. prog.pc \in Asking => \A d \in Call : d[1] = run => body[d].k # "submit" /\ body[d].k # "challenge"
  BY <1>2 DEF StepsInOrder
<1>17. prog'.pc \in Asking =>
         \A d \in Call : d[1] = run' => /\ body'[d].k # "submit"
                                        /\ body'[d].k = "challenge" => agent' # "ready" /\ d = This'
  <2> SUFFICES ASSUME prog'.pc \in Asking, NEW d \in Call, d[1] = run
               PROVE  /\ body'[d].k # "submit"
                      /\ body'[d].k = "challenge" => agent' # "ready" /\ d = This'
    BY <1>2
  <2>1. /\ prog.pc \in Asking
        /\ (agent' = "wait" /\ prog' = prog) \/ prog.pc = "state"
    BY <1>8 DEF Asking
  <2>2. CASE d = c
    BY <1>2, <1>4, <1>5, <2>1, <2>2 DEF Asking
  <2>3. CASE d # c
    BY <1>5, <1>16, <2>1, <2>3
  <2> QED BY <2>2, <2>3
<1>18. Benching(prog'.pc) => \A d \in Call : d[1] = run' /\ body'[d].k = "challenge" => execs'[d] > 0
  <2>1. Benching(prog'.pc) => prog' = prog
    BY <1>8 DEF Benching
  <2> QED BY <1>2, <1>4, <1>5, <2>1 DEF StepsInOrder, Benching
<1>19. \A d, s \in Call : d[1] = s[1] /\ body'[d].k = "challenge" /\ body'[s].k = "submit" => execs'[d] > 0
  <2> SUFFICES ASSUME NEW d \in Call, NEW s \in Call, d[1] = s[1], body'[d].k = "challenge", body'[s].k = "submit"
               PROVE  execs[d] > 0
    BY <1>2
  <2>1. CASE d = c
    BY <1>1, <1>4, <1>5, <1>16, <2>1 DEF Asking
  <2>2. CASE d # c /\ s = c
    BY <1>1, <1>4, <1>5, <2>2 DEF StepsInOrder, Benching
  <2>3. CASE d # c /\ s # c
    BY <1>5, <2>3 DEF StepsInOrder
  <2> QED BY <2>1, <2>2, <2>3
<1>20. StepsInOrder'
  BY <1>14, <1>15, <1>17, <1>18, <1>19 DEF StepsInOrder
<1>21. \A a : Reusable(a)' <=> Reusable(a)
  BY <1>6 DEF Reusable
<1>22. \A r : Seeing(r)' => Seeing(r)
  BY <1>6, <1>9 DEF Seeing
<1>23. (prog'.pc = "profile" /\ prog'.att = NoAtt) \/ prog'.pc = "challenge" => (Seeing(run)' => ~ Reusable(reg.att))
  <2>1. CASE prog' = prog
    BY <1>2, <1>22, <2>1 DEF ToldRight
  <2>2. CASE prog' # prog
    BY <1>2, <1>8, <2>2 DEF Seeing
  <2> QED BY <2>1, <2>2
<1>24. \A d \in Call : body'[d].k = "challenge" /\ execs'[d] = 0 /\ OnItsWay(d)' /\ Seeing(d[1])' => ~ Reusable(reg.att)
  <2> SUFFICES ASSUME NEW d \in Call, body'[d].k = "challenge", execs'[d] = 0, OnItsWay(d)', Seeing(d[1])
               PROVE  ~ Reusable(reg.att)
    BY <1>22
  <2>1. CASE d = c
    BY <1>1, <1>4, <1>5, <2>1 DEF ToldRight
  <2>2. CASE d # c
    BY <1>2, <1>5, <1>12, <2>2 DEF ToldRight
  <2> QED BY <2>1, <2>2
<1>25. ToldRight'
  BY <1>2, <1>6, <1>11, <1>21, <1>23, <1>24 DEF ToldRight
<1> QED BY <1>6, <1>20, <1>25 DEF ChallengesNotWasted

LEMMA ReturnOrder ==
  ASSUME NotWastedInv, AgentReceive \/ AgentTimeout
  PROVE  RunsInOrder' /\ StepsInOrder' /\ ToldRight' /\ ChallengesNotWasted'
<1> USE DEF NotWastedInv, AgentInv
<1> DEFINE r == reply[This]
<1>1. /\ This \in Call /\ agent = "wait" /\ agent' = "ready" /\ This' = This /\ run \in Run /\ This[1] = run
      /\ UNCHANGED <<run, relay, cur, todo, execs>> /\ reqs' \subseteq reqs
  BY DEF AgentReceive, AgentTimeout, Receive, Timeout, RelayInv, AwaitedPending, Started, This, RelayTypeOK
<1>2. UNCHANGED <<day, body, reply, reg, effects, forced, wasted>>
  BY DEF AgentReceive, AgentTimeout
<1>3. RunsInOrder'
  <2>1. run \in Nat
    BY RelayAssumption DEF RelayInv, RelayTypeOK
  <2> QED BY <1>1, <2>1, FewerInOrder
<1>4. \A d \in Call : OnItsWay(d)' => OnItsWay(d)
  BY <1>1 DEF OnItsWay
<1>5. prog \in ProgState /\ prog.pc # "end" /\ r \in Reply /\ body[This] = Ask
  BY <1>1 DEF AgentTypeOK, ProgState, Reply, ProgFits
<1>6. Ask.k = prog.pc \/ (prog.pc = "fallback" /\ Ask.k = "state")
  BY <1>5, AskType
<1>7. \/ prog' = GiveUp(prog) /\ Blinded
      \/ prog' = Proceed(prog, r) /\ execs[This] > 0 /\ ((r.st = "ok" /\ blind' = blind) \/ Blinded)
  <2>1. CASE AgentTimeout
    BY <2>1 DEF AgentTimeout
  <2>2. CASE AgentReceive
    <3>1. PICK a \in resps : a.name = FileName(This) /\ outcome' = [outcome EXCEPT ![This] = a.status]
      BY <2>2 DEF AgentReceive, Receive
    <3>2. a.call = This
      BY <1>1, <3>1, NameOfCall DEF RelayInv, RelayTypeOK, Response, ResponsesBacked, Asked
    <3>3. outcome'[This] = "ok" => execs[This] > 0
      BY <1>1, <3>1, <3>2 DEF RelayInv, RelayTypeOK, ResponsesBacked
    <3> QED BY <2>2, <3>3 DEF AgentReceive
  <2> QED BY <2>1, <2>2
<1>8. blind \subseteq blind'
  BY <1>7 DEF Blinded
<1>9. prog' = GiveUp(prog) =>
        /\ prog'.force = prog.force /\ prog'.pc \in {"profile", "terms", "end"}
        /\ prog'.pc = "profile" => prog.pc = "state"
  BY <1>5, GiveUpFacts
<1>10. prog' = Proceed(prog, r) => ProceedFacts(prog, r, prog')
  BY <1>1, <1>5, Proceeds
<1>11. /\ prog'.force = prog.force /\ prog'.pc # "state"
       /\ prog'.pc = "profile" => prog.pc = "state"
       /\ prog'.pc = "challenge" => prog.pc = "profile" /\ prog.att = NoAtt
       /\ Benching(prog'.pc) => Benching(prog.pc) \/ (prog.pc = "challenge" /\ execs[This] > 0)
  BY <1>7, <1>9, <1>10 DEF ProceedFacts, Benching
<1>12. \A x : Begun(x)' <=> Begun(x)
  BY <1>1 DEF Begun
<1>13. run \in Run /\ prog'.pc # "state" /\ run \notin blind' => Begun(run)
  <2>1. CASE execs[This] > 0
    BY <1>1, <2>1 DEF Begun
  <2>2. CASE Blinded
    BY <1>8, <2>2 DEF Blinded, StepsInOrder
  <2> QED BY <1>7, <2>1, <2>2
<1>14. prog'.pc \in Asking => \A d \in Call : d[1] = run => body[d].k # "submit" /\ body[d].k # "challenge"
  <2> SUFFICES ASSUME prog'.pc \in Asking, NEW d \in Call, d[1] = run
               PROVE  body[d].k # "submit" /\ body[d].k # "challenge"
    OBVIOUS
  <2>1. prog.pc \in {"state", "profile"}
    BY <1>11 DEF Asking
  <2>2. body[d].k # "submit" /\ (body[d].k = "challenge" => d = This)
    BY <2>1 DEF StepsInOrder, Asking
  <2> QED BY <1>5, <1>6, <2>1, <2>2
<1>15. Benching(prog'.pc) => \A d \in Call : d[1] = run /\ body[d].k = "challenge" => execs[d] > 0
  BY <1>11 DEF StepsInOrder, Asking
<1>16. StepsInOrder'
  <2>1. \A d \in Call : body'[d].k = "challenge" /\ d[1] \notin blind' => Begun(d[1])'
    BY <1>2, <1>8, <1>12 DEF StepsInOrder
  <2>2. \A d, s \in Call : d[1] = s[1] /\ body'[d].k = "challenge" /\ body'[s].k = "submit" => execs'[d] > 0
    BY <1>1, <1>2 DEF StepsInOrder
  <2>3. prog'.force => run' \in forced'
    BY <1>1, <1>2, <1>11 DEF StepsInOrder
  <2> QED BY <1>1, <1>2, <1>12, <1>13, <1>14, <1>15, <2>1, <2>2, <2>3 DEF StepsInOrder
<1>17. \A x : Seeing(x)' => Seeing(x)
  BY <1>2, <1>8 DEF Seeing
<1>18. (prog'.pc = "profile" /\ prog'.att = NoAtt) \/ prog'.pc = "challenge" => (Seeing(run)' => ~ Reusable(reg.att))
  <2>1. CASE prog'.pc = "challenge"
    BY <1>1, <1>11, <1>17, <2>1 DEF ToldRight
  <2>2. CASE prog'.pc = "profile" /\ prog'.att = NoAtt
    <3> SUFFICES ASSUME Seeing(run)' PROVE ~ Reusable(reg.att)
      OBVIOUS
    <3>1. prog.pc = "state" /\ run \notin blind' /\ run \notin forced
      BY <1>1, <1>2, <1>11, <2>2 DEF Seeing
    <3>2. ~ Blinded
      BY <3>1 DEF Blinded
    <3>3. prog' = Proceed(prog, r) /\ r.st = "ok"
      BY <1>7, <3>2
    <3>4. ~ prog.force
      BY <3>1 DEF StepsInOrder
    <3>5. ~ Reusable(r.att)
      BY <1>10, <2>2, <3>1, <3>3, <3>4 DEF ProceedFacts
    <3>6. r.att = reg.att \/ reg.att.exp <= day
      BY <1>1, <3>1, <3>3 DEF ToldRight
    <3> QED BY <3>5, <3>6, ExpiredNotReusable
  <2> QED BY <2>1, <2>2
<1>19. ToldRight'
  <2>1. \A a : Reusable(a)' <=> Reusable(a)
    BY <1>2 DEF Reusable
  <2>2. \A d \in Call : body'[d].k = "challenge" /\ execs'[d] = 0 /\ OnItsWay(d)' /\ Seeing(d[1])' => ~ Reusable(reg.att)
    BY <1>1, <1>2, <1>4, <1>17 DEF ToldRight
  <2> QED BY <1>1, <1>2, <1>18, <2>1, <2>2 DEF ToldRight
<1> QED BY <1>2, <1>3, <1>16, <1>19 DEF ChallengesNotWasted

LEMMA StartOrder ==
  ASSUME NotWastedInv, AgentStart
  PROVE  RunsInOrder' /\ StepsInOrder' /\ ToldRight' /\ ChallengesNotWasted'
<1> USE DEF NotWastedInv, AgentInv
<1>1. /\ UNCHANGED <<day, body, reply, reg, effects, blind, wasted, execs, outcome, cur, todo, reqs>>
      /\ agent' = "ready" /\ run' = run + 1 /\ run \in Nat /\ run' \in Nat
      /\ relay' = relay \/ relay' = "scan"
  BY RelayAssumption DEF AgentStart, StartAgent, files, RelayInv, RelayTypeOK
<1>2. prog'.pc = "state" /\ forced \subseteq forced' /\ (prog'.force => run' \in forced')
  <2>1. PICK once \in BOOLEAN, force \in BOOLEAN :
           /\ prog' = [Fresh EXCEPT !.pc = "state", !.once = once, !.force = force]
           /\ forced' = IF force THEN forced \cup {run + 1} ELSE forced
    BY DEF AgentStart
  <2>2. prog'.pc = "state" /\ prog'.force = force
    BY <2>1 DEF Fresh
  <2> QED BY <1>1, <2>1, <2>2
<1>3. RunsInOrder' /\ \A d \in Call : OnItsWay(d)' => OnItsWay(d)
  <2>1. RunsInOrder'
    BY <1>1, FewerInOrder DEF Holding
  <2> QED BY <1>1, <2>1 DEF OnItsWay, Holding
<1>4. \A d \in Call : d[1] = run' => body'[d].k = "none"
  BY <1>1 DEF RelayInv, AheadUnsent, Ahead, CallsFit
<1>5. StepsInOrder'
  BY <1>1, <1>2, <1>4 DEF StepsInOrder, Begun, Asking, Benching
<1>6. ToldRight'
  <2>1. \A x : Seeing(x)' => Seeing(x)
    BY <1>1, <1>2 DEF Seeing
  <2>2. \A a : Reusable(a)' <=> Reusable(a)
    BY <1>1 DEF Reusable
  <2> QED BY <1>1, <1>2, <1>3, <2>1, <2>2 DEF ToldRight
<1> QED BY <1>1, <1>3, <1>5, <1>6 DEF ChallengesNotWasted

LEMMA NextDayOrder ==
  ASSUME NotWastedInv, NextDay
  PROVE  RunsInOrder' /\ StepsInOrder' /\ ToldRight' /\ ChallengesNotWasted'
<1> USE DEF NotWastedInv, AgentInv
<1>1. UNCHANGED <<relayVars, prog, body, reply, effects, forced, blind, wasted>> /\ day' = day + 1 /\ day < MaxDays
  BY DEF NextDay
<1>2. UNCHANGED <<run, n, agent, relay, cur, todo, reqs, execs, outcome>>
  BY <1>1 DEF relayVars, files
<1>3. reg'.att = reg.att /\ day \in Nat /\ day' \in Nat /\ reg.att.exp \in Nat
  BY <1>1, AgentAssumption DEF NextDay, AgentTypeOK, Att
<1>4. RunsInOrder' /\ StepsInOrder' /\ ChallengesNotWasted'
  BY <1>1, <1>2 DEF RunsInOrder, StepsInOrder, OnItsWay, Begun, This, ChallengesNotWasted
<1>5. ~ Reusable(reg.att) => ~ Reusable(reg.att)'
  BY <1>1, <1>3, ReusableFades
<1>6. ToldRight'
  BY <1>1, <1>2, <1>3, <1>5 DEF ToldRight, Seeing, OnItsWay, This
<1> QED BY <1>4, <1>6

\* A submission that renews the attestation is the call at hand.  No call of a later
\* run was executed yet, so no later run has been told of an attestation; and the
\* submission's own run is past its challenge.
LEMMA ExecutedOrder ==
  ASSUME NotWastedInv, Executed
  PROVE  RunsInOrder' /\ StepsInOrder' /\ ToldRight' /\ ChallengesNotWasted'
<1> USE DEF NotWastedInv
<1>1. PICK c : c = cur.req.call
  OBVIOUS
<1>2. /\ c \in Call /\ outcome[c] # "unsent" /\ relay \in Holding
      /\ execs'[c] > 0 /\ \A d \in Call : execs'[d] >= execs[d] /\ (d # c => execs'[d] = execs[d])
      /\ ServeFacts(c, [reply |-> reply'[c], reg |-> reg'])
      /\ \A d \in Call : d # c => reply'[d] = reply[d]
  BY <1>1, ExecutedFacts
<1>3. /\ reg'.att = reg.att \/ body[c].k = "submit"
      /\ body[c].k = "state" /\ reply'[c].st = "ok" =>
           reply'[c].att = reg.att \/ (reply'[c].att = NoAtt /\ reg.att.exp <= day)
  BY <1>2 DEF ServeFacts
<1>4. UNCHANGED <<day, prog, body, forced, blind, run, n, agent, outcome, reqs>> /\ relay' \in Holding
  BY DEF Executed, Forward, files, Holding
<1>5. RunsInOrder'
  BY ForwardInOrder DEF Executed
<1>6. execs \in [Call -> Nat] /\ RelayInv /\ c[1] <= run /\ run \in Run /\ c[1] \in Nat /\ run \in Nat
  BY <1>2, SentPast, NameOfCall, RelayAssumption DEF AgentInv, RelayInv, RelayTypeOK, Run
<1>7. \A d \in Call : execs[d] > 0 => execs'[d] > 0
  BY <1>2, <1>6
<1>8. \A x : Begun(x) => Begun(x)'
  BY <1>7, BegunStays
<1>9. StepsInOrder'
  BY <1>4, <1>7, <1>8 DEF StepsInOrder, This
<1>10. OnItsWay(c)
  BY <1>1, <1>2 DEF OnItsWay
<1>11. \A x \in Run : Begun(x) => x <= c[1]
  BY <1>2, <1>10 DEF Begun, RunsInOrder
<1>12. Begun(run) /\ prog.pc \in Asking => reg'.att = reg.att
  <2> SUFFICES ASSUME Begun(run), prog.pc \in Asking PROVE body[c].k # "submit"
    BY <1>3
  <2>1. c[1] = run
    BY <1>6, <1>11
  <2> QED BY <1>2, <2>1 DEF StepsInOrder
<1>13. prog.pc = "state" /\ agent = "wait" /\ reply'[This].st = "ok" =>
         reply'[This].att = reg'.att \/ (reply'[This].att = NoAtt /\ reg'.att.exp <= day)
  <2> SUFFICES ASSUME prog.pc = "state", agent = "wait", reply'[This].st = "ok"
               PROVE  reply'[This].att = reg'.att \/ (reply'[This].att = NoAtt /\ reg'.att.exp <= day)
    OBVIOUS
  <2>1. This \in Call /\ This[1] = run /\ body[This].k = "state"
    BY <1>6 DEF RelayInv, AwaitedPending, This, AgentInv, ProgFits, Ask
  <2>2. CASE c = This
    BY <1>3, <2>1, <2>2
  <2>3. CASE c # This
    <3>1. reply'[This] = reply[This]
      BY <1>2, <2>1, <2>3
    <3>2. Begun(run)
      BY <2>1, <3>1 DEF AgentInv, CallsFit, Begun
    <3>3. reg'.att = reg.att
      BY <1>12, <3>2 DEF Asking
    <3> QED BY <3>1, <3>3 DEF ToldRight
  <2> QED BY <2>2, <2>3
<1>14. (prog.pc = "profile" /\ prog.att = NoAtt) \/ prog.pc = "challenge" => (Seeing(run) => ~ Reusable(reg'.att))
  <2> SUFFICES ASSUME (prog.pc = "profile" /\ prog.att = NoAtt) \/ prog.pc = "challenge", Seeing(run)
               PROVE  ~ Reusable(reg'.att)
    OBVIOUS
  <2>1. Begun(run)
    BY <1>6 DEF StepsInOrder, Seeing
  <2>2. reg'.att = reg.att
    BY <1>12, <2>1 DEF Asking
  <2> QED BY <2>2 DEF ToldRight
<1>15. \A d \in Call : body[d].k = "challenge" /\ execs'[d] = 0 /\ OnItsWay(d)' /\ Seeing(d[1]) => ~ Reusable(reg'.att)
  <2> SUFFICES ASSUME NEW d \in Call, body[d].k = "challenge", execs'[d] = 0, OnItsWay(d)', Seeing(d[1])
               PROVE  ~ Reusable(reg'.att)
    OBVIOUS
  <2>1. d # c /\ execs[d] = 0
    BY <1>2, <1>6
  <2>2. cur'.req = cur.req
    BY <1>2, <1>6 DEF Executed, Forward, RelayInv, CurBacked
  <2>3. \E q \in reqs : q.call = d
    BY <1>1, <1>4, <2>1, <2>2 DEF OnItsWay
  <2>4. c[1] <= d[1] /\ d[1] \in Run
    BY <1>1, <1>2, <2>3, NameOfCall DEF RunsInOrder
  <2>5. ~ Reusable(reg.att)
    BY <2>1, <2>3 DEF ToldRight, OnItsWay
  <2>6. Begun(d[1])
    BY DEF StepsInOrder, Seeing
  <2>7. d[1] = c[1]
    BY <1>6, <1>11, <2>4, <2>6 DEF Run
  <2>8. body[c].k # "submit"
    BY <1>2, <2>1, <2>7 DEF StepsInOrder
  <2> QED BY <1>3, <2>5, <2>8
<1>16. ToldRight'
  <2>1. (\A x : Seeing(x)' <=> Seeing(x)) /\ (\A a : a = reg'.att => (Reusable(reg.att)' <=> Reusable(a)))
    BY <1>4 DEF Seeing, Reusable
  <2>2. Reusable(reg.att)' <=> Reusable(reg'.att)
    BY <2>1
  <2>3. This' = This
    BY <1>4 DEF This
  <2> QED BY <1>4, <1>13, <1>14, <1>15, <2>1, <2>2, <2>3 DEF ToldRight
<1>17. ChallengesNotWasted'
  <2>1. ~ (body[c].k = "challenge" /\ Reusable(reg.att) /\ execs[c] = 0 /\ c[1] \notin forced \cup blind)
    BY <1>2, <1>10 DEF ToldRight, Seeing
  <2>2. wasted' = wasted
    BY <1>1, <2>1 DEF Executed
  <2> QED BY <2>2 DEF ChallengesNotWasted
<1> QED BY <1>5, <1>9, <1>16, <1>17

LEMMA NotWastedInit == AgentInit => NotWastedInv
<1> SUFFICES ASSUME AgentInit PROVE NotWastedInv
  OBVIOUS
<1>1. AgentInv
  BY AgentInvInit
<1>2. RunsInOrder
  BY DEF AgentInit, RelayInit, RunsInOrder, Holding
<1>3. prog.pc = "end" /\ prog.force = FALSE /\ run = 0 /\ 0 \notin Run /\ \A c \in Call : body[c].k = "none"
  BY DEF AgentInit, RelayInit, Fresh, NoBody, Run
<1>4. StepsInOrder /\ ToldRight
  BY <1>3 DEF StepsInOrder, ToldRight, Asking, Benching
<1> QED BY <1>1, <1>2, <1>4 DEF NotWastedInv, ChallengesNotWasted, AgentInit

LEMMA NotWastedNext == NotWastedInv /\ [AgentNext]_allVars => NotWastedInv'
<1> SUFFICES ASSUME NotWastedInv, [AgentNext]_allVars PROVE NotWastedInv'
  OBVIOUS
<1>1. AgentInv'
  BY AgentInvNext DEF NotWastedInv
<1> SUFFICES RunsInOrder' /\ StepsInOrder' /\ ToldRight' /\ ChallengesNotWasted'
  BY <1>1 DEF NotWastedInv
<1>2. CASE AgentIssue
  BY <1>2, IssueInOrder, IssueOrder DEF NotWastedInv, AgentIssue
<1>3. CASE HostOnly /\ UNCHANGED agentVars
  BY <1>3, HostOnlyFacts, HostOnlyInOrder, QuietOrder DEF NotWastedInv, AgentInv
<1>4. CASE AgentEnds \/ UNCHANGED allVars
  <2>1. UNCHANGED <<agentVars, run, n, execs, relay, todo, cur, reqs>> /\ agent' \in {agent, "exited"}
    BY <1>4 DEF AgentEnds, AgentExit, allVars, relayVars, files
  <2>2. RunsInOrder' /\ \A d \in Call : OnItsWay(d)' => OnItsWay(d)
    BY <2>1 DEF NotWastedInv, RunsInOrder, OnItsWay
  <2> QED BY <2>1, <2>2, QuietOrder
<1> QED BY <1>2, <1>3, <1>4, ReturnOrder, StartOrder, NextDayOrder, ExecutedOrder DEF AgentNext

\* "a crash-looping container must not burn through" the quota (provider_state of
\* agent/src/main.rs): in whatever order runs start, crash and leave requests behind,
\* a run that was not forced and whose first GET succeeded never has a challenge
\* executed against an attestation that could still be reused.
THEOREM NoneWasted == AgentSpec => []ChallengesNotWasted
<1>1. NotWastedInv => ChallengesNotWasted
  BY DEF NotWastedInv
<1> QED BY <1>1, NotWastedInit, NotWastedNext, PTL DEF AgentSpec
=============================================================================
