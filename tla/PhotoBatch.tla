-------------------------------- MODULE PhotoBatch ------------------------------
(***************************************************************************)
(* photosource: what a batch of uploaded files comes to, file by file.  A  *)
(* file is [name, magic, image, sidecar, bytes]: the container its first   *)
(* bytes announce, what is in it, and a token for its bytes.  A name is    *)
(* [stem, dot, supplement, json], for IMG.jpg the first two, and for the   *)
(* names Takeout gives the sidecars of IMG.jpg one or both of the others.  *)
(***************************************************************************)
EXTENDS PhotoMetadata

\* Of photos JPEG and HEIC are read; any other JSON is taken for a sidecar.
Kind(f) ==
    CASE f.magic \in {"jpeg", "heic", "sidecar"} -> f.magic
      [] OTHER -> "rejected"

\* The photo a sidecar is beside, by its own name alone.
SidecarPairName(name) ==
    IF name.json /\ name.dot THEN [name EXCEPT !.json = FALSE, !.supplement = FALSE] ELSE None

Scanned(f, kind, meta, sidecar) ==
    [name |-> f.name, kind |-> kind, meta |-> meta, sidecar |-> sidecar, hash |-> f.bytes]

ScanFile(f) ==
    CASE Kind(f) = "jpeg" -> Scanned(f, "photo", ExtractEXIF(f.image), None)
      [] Kind(f) = "heic" -> Scanned(f, "photo", ExtractHEIF(f.image), None)
      [] Kind(f) = "sidecar" /\ ParseSidecar(f.sidecar) # None ->
            Scanned(f, "sidecar", NoMeta, ParseSidecar(f.sidecar))
      [] OTHER -> Scanned(f, "rejected", NoMeta, None)

\* What is scanned of a file beyond the limits.
OverLimit(f) == Scanned(f, "rejected", NoMeta, None)

\* Mutation: a sidecar is paired with what came before it.
MutPartner(scans, i) ==
    LET Named(n) == {k \in 1 .. i : scans[k].kind = "photo" /\ scans[k].name = n}
        beside == Named(SidecarPairName(scans[i].name))
        titled == Named(scans[i].sidecar.title)
        candidates == IF beside # {} THEN beside ELSE titled
    IN  IF scans[i].kind = "sidecar" /\ candidates # {} THEN Max(candidates) ELSE 0

\* The photo the sidecar i is paired with: the last of the name it is beside,
\* else the last of its title; 0 when there is none.
Partner(scans, i) ==
    LET Named(n) == {k \in DOMAIN scans : scans[k].kind = "photo" /\ scans[k].name = n}
        beside == Named(SidecarPairName(scans[i].name))
        titled == Named(scans[i].sidecar.title)
        candidates == IF beside # {} THEN beside ELSE titled
    IN  IF scans[i].kind = "sidecar" /\ candidates # {} THEN Max(candidates) ELSE 0

\* The last sidecar paired with a photo is the one it gets.
Merged(scans, i) ==
    LET beside == {k \in DOMAIN scans : Partner(scans, k) = i}
    IN  IF beside = {} THEN scans[i].meta
        ELSE MergeSidecar(scans[i].meta, scans[Max(beside)].sidecar)

Verdict(kind) == [verdict |-> kind]

\* One verdict a file, a fix with what its record says of it.
ResolveOne(scans, i) ==
    LET m == Merged(scans, i)
        rt == ResolveTime(m, None)
    IN  CASE scans[i].kind = "rejected" -> Verdict("unsupported")
          [] scans[i].kind = "sidecar" /\ Partner(scans, i) # 0 -> Verdict("sidecar_paired")
          [] scans[i].kind = "sidecar" /\ Partner(scans, i) = 0 -> Verdict("sidecar_unpaired")
          [] scans[i].kind = "photo" /\ m.pos = None -> Verdict("no_position")
          [] scans[i].kind = "photo" /\ m.pos # None /\ rt = None -> Verdict("no_time")
          [] OTHER -> [verdict |-> "fix", hash |-> scans[i].hash, pos |-> m.pos,
                       posSource |-> m.posSource, time |-> rt]

Resolve(scans) == [i \in DOMAIN scans |-> ResolveOne(scans, i)]

\* The request: files past the limit are kept as names.
Batch(files, limit) ==
    Resolve([i \in DOMAIN files |-> IF i <= limit THEN ScanFile(files[i]) ELSE OverLimit(files[i])])

\* The fixes, then the records: what the batch's transaction inserts.
FixRow(r) ==
    [table |-> "raw_positions", obs |-> <<r.time.at, r.time.at, r.pos, "photo">>,
     off |-> <<r.time.off, r.time.off>>]

RecordRow(r) == [table |-> "photo_records", obs |-> <<r.hash>>, off |-> <<r.time.off, r.time.off>>]

Ingested(results) ==
    LET fixes == SelectSeq(results, LAMBDA r : r.verdict = "fix")
    IN  [i \in DOMAIN fixes |-> FixRow(fixes[i])] \o [i \in DOMAIN fixes |-> RecordRow(fixes[i])]
=============================================================================
