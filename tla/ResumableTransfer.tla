------------------------- MODULE ResumableTransfer -------------------------
(***************************************************************************)
(* A resumable download: the client's downloadStreaming, its .part file    *)
(* and .part.meta (offlineclient transport.go, storage.go) against the     *)
(* delivery handlers and their range parser (offlinedelivery handler.go,   *)
(* range.go).  The client may die between any two writes and the artifact  *)
(* behind the URL may be replaced during the download.                     *)
(*                                                                         *)
(* A file is a sequence of cells <<version, position>>; its checksum and   *)
(* its ETag identify the version.  Cells stand for any number of bytes.    *)
(* Versions only move forward.  A body ends early only with an error, as   *)
(* every answer has a Content-Length.  Byte ceilings, the URL recorded in  *)
(* the meta (one URL here) and If-None-Match, which the client never       *)
(* sends, are left out.                                                    *)
(***************************************************************************)
EXTENDS Integers, Sequences

CONSTANTS ArtifactKinds,  \* subset of {"manifest", "card", "resource"}
          FileSizes,      \* [version -> number of cells]
          MaxTransferFaults \* bound on broken connections and crashes

ASSUME TransferAssumption ==
  /\ ArtifactKinds \subseteq {"manifest", "card", "resource"}
  /\ FileSizes \in Seq(Nat \ {0}) /\ Len(FileSizes) > 0
  /\ MaxTransferFaults \in Nat

VARIABLES
  artifact,   \* which kind of URL this is
  served,     \* version behind the URL
  part,       \* the .part file, NoPart: absent
  partMeta,   \* the .part.meta file, NoMeta: absent
  transfer,   \* the running download
  installed,  \* resources/<id>/content.bin
  described,  \* resources/<id>/meta.json: the version its checksum names
  transferFaults

transferVars == << artifact, served, part, partMeta, transfer, installed, described,
                   transferFaults >>

NoPart == << <<0, 0>> >>
NoMeta == [written |-> 0]
NoTransfer == [at |-> "idle"]
FileVersions == DOMAIN FileSizes
FileOf(v) == [i \in 1..FileSizes[v] |-> <<v, i>>]
OnDisk == IF part = NoPart THEN << >> ELSE part

TransferInit ==
  /\ artifact \in ArtifactKinds
  /\ served = 1 /\ part = NoPart /\ partMeta = NoMeta
  /\ transfer = NoTransfer /\ installed = << >> /\ described = 0
  /\ transferFaults = 0

------------------------------------------------------------------------------
\* ParseRange: offsets are from 0; NoOffset stands for an empty number.
NoOffset == -1
ParseRange(from, to, total) ==
  CASE from = NoOffset /\ to = NoOffset -> [is |-> "invalid"]
    [] from = NoOffset /\ to # NoOffset ->
         IF to = 0 \/ total <= 0 THEN [is |-> "unsatisfiable"]
         ELSE [is |-> "range", start |-> IF to > total THEN 0 ELSE total - to,
               end |-> total - 1]
    [] from # NoOffset ->
         IF from >= total \/ (to # NoOffset /\ to < from) THEN [is |-> "unsatisfiable"]
         ELSE [is |-> "range", start |-> from,
               end |-> IF to = NoOffset \/ to >= total THEN total - 1 ELSE to]

\* CheckIfRange: an absent tag or the current one.
CheckIfRange(tag) == tag \in {0, served}

Whole == [status |-> 200, tag |-> served, start |-> 0, cells |-> FileOf(served)]

\* HandleGetCard, HandleGetResource: the two handlers answer a range alike.
HandleRange(from, tag) ==
  LET r == ParseRange(from, NoOffset, FileSizes[served]) IN
    CASE ~CheckIfRange(tag) -> Whole
      [] CheckIfRange(tag) /\ r.is = "unsatisfiable" -> [status |-> 416]
      [] CheckIfRange(tag) /\ r.is = "range" ->
           [status |-> 206, tag |-> served, start |-> r.start,
            cells |-> SubSeq(FileOf(served), r.start + 1, r.end + 1)]
\* HandleGetManifest ignores Range and announces no range support.
HandleGet(from, tag) ==
  IF artifact = "manifest" \/ from = 0 THEN Whole ELSE HandleRange(from, tag)
AcceptRanges == artifact # "manifest"

------------------------------------------------------------------------------
\* Mutation: the size of the part is not compared with the meta.
HadPartAnySize == partMeta.written > 0 /\ part # NoPart

\* The meta and the part agree: the download may be resumed.
HadPart == partMeta.written > 0 /\ part # NoPart /\ Len(OnDisk) = partMeta.written

ClearPart == part' = NoPart /\ partMeta' = NoMeta

\* downloadStreaming before its request: a useless part is cleared.
Stat ==
  /\ transfer.at = "idle"
  /\ IF partMeta = NoMeta \/ HadPart THEN UNCHANGED << part, partMeta >> ELSE ClearPart
  /\ transfer' = [at |-> "request",
                  resume |-> /\ HadPart /\ partMeta.ranges
                             /\ partMeta.size = 0 \/ partMeta.written < partMeta.size]
  /\ UNCHANGED << artifact, served, installed, described, transferFaults >>

Receive(a, meta) ==
  [at |-> "body", left |-> a.cells, meta |-> meta]

\* A full answer: the part is truncated, the old meta stays until the first write.
\* A proxy may leave out Content-Length, which the meta notes as size 0.
StartOver(a) ==
  /\ \E size \in {0, Len(a.cells)} :
       transfer' = Receive(a, [written |-> 0, tag |-> a.tag, size |-> size,
                               ranges |-> AcceptRanges])
  /\ part' = << >>

RequestWhole ==
  /\ transfer.at = "request" /\ ~transfer.resume
  /\ StartOver(HandleGet(0, 0))
  /\ UNCHANGED << artifact, served, partMeta, installed, described, transferFaults >>

\* The Range request: 416, a wrong start and a changed ETag clear the part and
\* ask again; 206 appends; 200 starts over.
RequestRest ==
  /\ transfer.at = "request" /\ transfer.resume
  /\ LET a == HandleGet(partMeta.written, partMeta.tag)
         useless == \/ a.status = 416
                    \/ a.status = 206 /\ (a.start # partMeta.written \/ a.tag # partMeta.tag)
     IN IF useless
        THEN ClearPart /\ transfer' = [at |-> "request", resume |-> FALSE]
        ELSE \/ /\ a.status = 206
                /\ transfer' = Receive(a, [partMeta EXCEPT !.size = FileSizes[a.tag]])
                /\ UNCHANGED << part, partMeta >>
             \/ /\ a.status = 200
                /\ StartOver(a)
                /\ UNCHANGED partMeta
  /\ UNCHANGED << artifact, served, installed, described, transferFaults >>

\* One Read of n cells, appended to the part file and synced ...
ReadBody(n) ==
  /\ transfer.at = "body" /\ n \in 1..Len(transfer.left)
  /\ part' = OnDisk \o SubSeq(transfer.left, 1, n)
  /\ transfer' = [transfer EXCEPT !.at = "note", !.meta.written = @ + n,
                                  !.left = SubSeq(@, n + 1, Len(@))]
  /\ UNCHANGED << artifact, served, partMeta, installed, described, transferFaults >>

\* ... and then writePartMeta.
WritePartMeta ==
  /\ transfer.at = "note"
  /\ partMeta' = transfer.meta
  /\ transfer' = [transfer EXCEPT !.at = "body"]
  /\ UNCHANGED << artifact, served, part, installed, described, transferFaults >>

\* The connection breaks: the part and its meta stay for the next call.
BreaksOff ==
  /\ transfer.at = "body" /\ transfer.left # << >> /\ transferFaults < MaxTransferFaults
  /\ partMeta' = transfer.meta
  /\ transfer' = NoTransfer
  /\ transferFaults' = transferFaults + 1
  /\ UNCHANGED << artifact, served, part, installed, described >>

\* The end of the body: the whole part file is returned.
Returns ==
  /\ transfer.at = "body" /\ transfer.left = << >>
  /\ transfer' = [at |-> "returned", bytes |-> part, want |-> transfer.meta.tag]
  /\ UNCHANGED << artifact, served, part, partMeta, installed, described, transferFaults >>

\* downloadResource's checksum, or the checksum and signature of a manifest or
\* card: a file that is no version of the artifact, or not the one the
\* descriptor names, is refused and the part stays.
Verified(bytes, v) == bytes = FileOf(v)
Accept(v) ==
  /\ transfer.at = "returned"
  /\ IF Verified(transfer.bytes, v)
     THEN IF artifact = "resource"
          THEN transfer' = [at |-> "install", bytes |-> transfer.bytes] /\ described' = v
               /\ UNCHANGED << part, partMeta >>
          ELSE transfer' = NoTransfer /\ ClearPart /\ UNCHANGED described
     ELSE transfer' = NoTransfer /\ UNCHANGED << part, partMeta, described >>
  /\ UNCHANGED << artifact, served, installed, transferFaults >>

\* writeResource: meta.json was first, content.bin follows, then clearPart.
Install ==
  /\ transfer.at = "install"
  /\ installed' = transfer.bytes
  /\ ClearPart
  /\ transfer' = NoTransfer
  /\ UNCHANGED << artifact, served, described, transferFaults >>

\* The process dies at any point.
TransferCrash ==
  /\ transfer.at # "idle" /\ transferFaults < MaxTransferFaults
  /\ transfer' = NoTransfer
  /\ transferFaults' = transferFaults + 1
  /\ UNCHANGED << artifact, served, part, partMeta, installed, described >>

Replace ==
  /\ served < Len(FileSizes) /\ served' = served + 1
  /\ UNCHANGED << artifact, part, partMeta, transfer, installed, described, transferFaults >>

TransferNext ==
  \/ Stat \/ RequestWhole \/ RequestRest
  \/ \E n \in 1..3 : ReadBody(n)
  \/ WritePartMeta \/ BreaksOff \/ Returns
  \/ \E v \in FileVersions : Accept(v)
  \/ Install \/ TransferCrash \/ Replace

TransferSpec == TransferInit /\ [][TransferNext]_transferVars

------------------------------------------------------------------------------
\* What a download returns is one version from its first to its last byte, over
\* any breaks, crashes and replacements in between, before any checksum is
\* looked at; and a resource that is reported present is whole
\* (downloadStreaming, downloadResource, CheckIfRange, hasResource).
ReturnsOneVersion ==
  /\ transfer.at = "returned" => \E v \in FileVersions : transfer.bytes = FileOf(v)
  /\ installed # << >> => \E v \in FileVersions : installed = FileOf(v)

TransferTypeOK ==
  /\ served \in FileVersions /\ described \in {0} \cup FileVersions
  /\ transfer.at \in {"idle", "request", "body", "note", "returned", "install"}
  /\ partMeta # NoMeta => partMeta.tag \in FileVersions /\ partMeta.size \in Nat
  /\ transferFaults \in 0..MaxTransferFaults
==============================================================================
