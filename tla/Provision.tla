----------------------------- MODULE Provision -----------------------------
(***************************************************************************)
(* vm-driver provisions itself (provision.rs, provision in main.rs): the   *)
(* runtime is a tarball that is downloaded and extracted, the image a file *)
(* named by its SHA3-224.  Downloads go to a .part file that is renamed    *)
(* into place.  The cache directory outlives the driver and may be shared  *)
(* with another one; an open file stays the inode it was opened on.        *)
(***************************************************************************)
EXTENDS Naturals, FiniteSets

CONSTANTS
  Driver,
  Chunks,      \* chunks of an asset
  Members,     \* members of the runtime's archive, in its order
  BinAt,       \* the member that is the binary ya-runtime-vm
  MaxMishaps   \* bound: damaged streams, failures and crashes

Asset == {"tarball", "image"}
Inode == 1..(2 * Cardinality(Asset) + Cardinality(Driver))

ASSUME ProvisionAssumption ==
  /\ IsFiniteSet(Driver) /\ Chunks \in Nat \ {0} /\ Members \in Nat \ {0}
  /\ BinAt \in 1..Members /\ MaxMishaps \in Nat

VARIABLES
  drv,       \* each driver: where it is, what it downloads or extracts
  partOf,    \* the inode of each asset's .part file, 0 if there is none
  destOf,    \* the inode of each installed asset, 0 if there is none
  data,      \* the chunks of each inode
  tree,      \* the extracted members
  mishaps,
  shared,    \* history: assets two drivers downloaded at the same time
  unsized,   \* history: assets installed from an answer without Content-Length
  disturbed  \* history: an extraction was cut short, or another driver was up during one

provVars == <<drv, partOf, destOf, data, tree, mishaps, shared, unsized, disturbed>>

Empty == [i \in 1..Chunks |-> "none"]
Whole == [i \in 1..Chunks |-> "good"]
Off == [pc |-> "off", a |-> "image", ino |-> 0, got |-> 0, clean |-> TRUE, sized |-> FALSE, m |-> 0]

ProvInit ==
  /\ drv = [d \in Driver |-> Off]
  /\ partOf = [a \in Asset |-> 0] /\ destOf = [a \in Asset |-> 0]
  /\ data = [i \in Inode |-> Empty] /\ tree = [m \in 1..Members |-> "none"]
  /\ mishaps = 0 /\ shared = {} /\ unsized = {} /\ disturbed = FALSE

Mishap == mishaps < MaxMishaps /\ mishaps' = mishaps + 1
At(d, pc) == drv[d].pc = pc
Goto(d, pc) == drv' = [drv EXCEPT ![d].pc = pc]
Extracting == {d \in Driver : At(d, "extract")}

-----------------------------------------------------------------------------
(* ensure_runtime and ensure_image                                         *)

\* find_binary: a file of that name, however much of it is there.
BinFound == tree[BinAt] # "none"

Launch(d) ==
  /\ At(d, "off")
  /\ IF BinFound THEN Goto(d, "image")
     ELSE IF destOf["tarball"] # 0 THEN Goto(d, "extract")
     ELSE drv' = [drv EXCEPT ![d].pc = "get", ![d].a = "tarball"]
  /\ disturbed' = (disturbed \/ Extracting # {})
  /\ UNCHANGED <<partOf, destOf, data, tree, mishaps, shared, unsized>>

\* Present is taken for verified.
EnsureImage(d) ==
  /\ At(d, "image")
  /\ IF destOf["image"] # 0 THEN Goto(d, "boot")
     ELSE drv' = [drv EXCEPT ![d].pc = "get", ![d].a = "image"]
  /\ UNCHANGED <<partOf, destOf, data, tree, mishaps, shared, unsized, disturbed>>

-----------------------------------------------------------------------------
(* download                                                                *)

InUse == {partOf[a] : a \in Asset} \cup {destOf[a] : a \in Asset} \cup {drv[d].ino : d \in Driver}
FreeInode == CHOOSE i \in Inode : i \notin InUse /\ \A j \in 1..(i - 1) : j \in InUse

\* The answer arrives; File::create truncates a .part that is there.
Open(d) ==
  LET a == drv[d].a
      i == IF partOf[a] # 0 THEN partOf[a] ELSE FreeInode
  IN  /\ At(d, "get")
      /\ \E sized \in BOOLEAN :
           drv' = [drv EXCEPT ![d] = [@ EXCEPT !.pc = "stream", !.ino = i, !.got = 0,
                                               !.clean = TRUE, !.sized = sized]]
      /\ partOf' = [partOf EXCEPT ![a] = i] /\ data' = [data EXCEPT ![i] = Empty]
      /\ shared' = IF \E e \in Driver \ {d} : drv[e].ino # 0 /\ drv[e].a = a THEN shared \cup {a} ELSE shared
      /\ UNCHANGED <<destOf, tree, mishaps, unsized, disturbed>>

ReadChunk(d) ==
  /\ At(d, "stream") /\ drv[d].got < Chunks
  /\ \E v \in {"good", "bad"} :
       /\ IF v = "bad" THEN Mishap ELSE UNCHANGED mishaps
       /\ data' = [data EXCEPT ![drv[d].ino][drv[d].got + 1] = v]
       /\ drv' = [drv EXCEPT ![d].got = @ + 1, ![d].clean = @ /\ v = "good"]
  /\ UNCHANGED <<partOf, destOf, tree, shared, unsized, disturbed>>

VerifiedBySize(e) == e.sized => e.got = Chunks   \* faulty: the hash is not compared

\* The Content-Length, if there was one, and the hash, if one is known.
Verified(e) ==
  /\ e.sized => e.got = Chunks
  /\ e.a = "image" => e.got = Chunks /\ e.clean

\* The stream ends, perhaps early.  A download that fails its checks removes
\* the .part, whosever it is by then.
StreamEnds(d) ==
  LET e == drv[d]
  IN  /\ At(d, "stream")
      /\ IF e.got < Chunks THEN Mishap ELSE UNCHANGED mishaps
      /\ IF Verified(e) THEN Goto(d, "rename") /\ UNCHANGED partOf
         ELSE drv' = [drv EXCEPT ![d] = Off] /\ partOf' = [partOf EXCEPT ![e.a] = 0]
      /\ UNCHANGED <<destOf, data, tree, shared, unsized, disturbed>>

Rename(d) ==
  LET e == drv[d]
  IN  /\ At(d, "rename")
      /\ IF partOf[e.a] = 0 THEN drv' = [drv EXCEPT ![d] = Off] /\ UNCHANGED <<partOf, destOf, unsized>>
         ELSE /\ destOf' = [destOf EXCEPT ![e.a] = partOf[e.a]] /\ partOf' = [partOf EXCEPT ![e.a] = 0]
              /\ unsized' = IF e.sized THEN unsized ELSE unsized \cup {e.a}
              /\ drv' = [drv EXCEPT ![d] = [Off EXCEPT !.pc = IF e.a = "image" THEN "boot" ELSE "extract"]]
      /\ UNCHANGED <<data, tree, mishaps, shared, disturbed>>

-----------------------------------------------------------------------------
(* The extraction, by tar                                                  *)

\* Members appear one after the other, each first incomplete.
ExtractStep(d) ==
  LET i == drv[d].m \div 2 + 1
  IN  /\ At(d, "extract") /\ i <= Members
      /\ drv' = [drv EXCEPT ![d].m = @ + 1]
      /\ tree' = [tree EXCEPT ![i] = IF drv[d].m % 2 = 0 THEN "part" ELSE "whole"]
      /\ disturbed' = (disturbed \/ \E e \in Driver \ {d} : ~ At(e, "off"))
      /\ UNCHANGED <<partOf, destOf, data, mishaps, shared, unsized>>

\* tar succeeds on a whole tarball only, and the binary is found then.
ExtractEnds(d) ==
  /\ At(d, "extract") /\ drv[d].m = 2 * Members /\ data[destOf["tarball"]] = Whole
  /\ drv' = [drv EXCEPT ![d] = [Off EXCEPT !.pc = "image"]]
  /\ UNCHANGED <<partOf, destOf, data, tree, mishaps, shared, unsized, disturbed>>

ExtractFails(d) ==
  /\ At(d, "extract") /\ data[destOf["tarball"]] # Whole
  /\ drv' = [drv EXCEPT ![d] = Off] /\ disturbed' = TRUE
  /\ UNCHANGED <<partOf, destOf, data, tree, mishaps, shared, unsized>>

\* The VM is gone and the driver with it.
Ends(d) ==
  /\ At(d, "boot") /\ drv' = [drv EXCEPT ![d] = Off]
  /\ UNCHANGED <<partOf, destOf, data, tree, mishaps, shared, unsized, disturbed>>

\* A failed request, a read error, a full disk or a kill: the driver ends and
\* leaves behind what it has written.
Aborts(d) ==
  /\ ~ At(d, "off") /\ Mishap /\ drv' = [drv EXCEPT ![d] = Off]
  /\ disturbed' = (disturbed \/ At(d, "extract"))
  /\ UNCHANGED <<partOf, destOf, data, tree, shared, unsized>>

ProvNext ==
  \E d \in Driver :
    \/ Launch(d) \/ EnsureImage(d) \/ Open(d) \/ ReadChunk(d) \/ StreamEnds(d)
    \/ Rename(d) \/ ExtractStep(d) \/ ExtractEnds(d) \/ ExtractFails(d)
    \/ Ends(d) \/ Aborts(d)

ProvSpec == ProvInit /\ [][ProvNext]_provVars

-----------------------------------------------------------------------------
ImageVerified == destOf["image"] # 0 /\ "image" \notin shared => data[destOf["image"]] = Whole

TarballComplete ==
  destOf["tarball"] # 0 /\ "tarball" \notin shared \cup unsized
    => \A i \in 1..Chunks : data[destOf["tarball"]][i] # "none"

RuntimeComplete ==
  \A d \in Driver : At(d, "boot") /\ ~ disturbed => \A m \in 1..Members : tree[m] = "whole"

\* What the driver finds in its cache it may trust, through failed and killed
\* starts.  "present => verified": an installed image is the one its name promises,
\* and an archive of declared length is complete, unless two drivers downloaded it
\* at the same time; and a VM boots from a complete runtime, unless an extraction
\* was cut short or failed (the next start finds the binary and takes the rest for
\* granted) or ran beside another driver.
CacheTrusted == ImageVerified /\ TarballComplete /\ RuntimeComplete
=============================================================================
