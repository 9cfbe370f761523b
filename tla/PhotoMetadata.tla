------------------------------ MODULE PhotoMetadata -----------------------------
(***************************************************************************)
(* Package photo: what is read from a photo's own bytes (exif.go, heif.go) *)
(* and from the sidecar beside it (sidecar.go), and the instant, offset    *)
(* and place that come of the two (photo.go).  Whatever is malformed is    *)
(* absent: None.                                                           *)
(*                                                                         *)
(* A directory (IFD) is a sequence of entries [tag, typ, val].  The value  *)
(* of an entry is Unlocated when it lies outside the file, and Garbage     *)
(* when it lies inside and is not what its reader reads: text that is no   *)
(* date, a fraction over zero, too few numbers.  A pointer's value is the  *)
(* directory it points to.  Times count in units of half OffsetRound.      *)
(***************************************************************************)
EXTENDS Integers, SequencesExt

CONSTANTS None, Unlocated, Garbage,
    MaxEntries,     \* of a directory, no more are looked at
    OffsetMax,      \* no offset is further from UTC
    DayLength       \* units of a day

ASSUME MetadataAssumption == MaxEntries \in Nat

OffsetRound == 2

NoMeta == [pos |-> None, posSource |-> "none", gpsTime |-> None, wall |-> None,
           wallOffset |-> None, sidecarTime |-> None, orientation |-> 0]

\* The null island is nowhere, and so is what lies off the globe.
ValidPos(lat, lon) ==
    IF (lat = 0 /\ lon = 0) \/ lat \notin -90 .. 90 \/ lon \notin -180 .. 180
    THEN None ELSE <<lat, lon>>

-----------------------------------------------------------------------------
(* The directories. *)

\* The wanted entries that are there, the last of a tag.
WalkIFD(ifd, want) ==
    LET Usable(e) == e.tag \in want /\ e.typ # "unknown" /\ e.val # Unlocated
        read == {n \in DOMAIN ifd : n <= MaxEntries /\ Usable(ifd[n])}
    IN  [t \in {ifd[n].tag : n \in read} |-> ifd[Max({n \in read : ifd[n].tag = t})]]

\* Mutation: a fraction over zero is zero.
MutValue(ifd, tag, types) ==
    IF tag \in DOMAIN ifd /\ ifd[tag].typ \in types
    THEN IF ifd[tag].val = Garbage /\ ifd[tag].typ = "rational" THEN 0
         ELSE IF ifd[tag].val = Garbage THEN None ELSE ifd[tag].val
    ELSE None

\* The value of an entry of one of these types, if it can be read.
Value(ifd, tag, types) ==
    IF tag \in DOMAIN ifd /\ ifd[tag].typ \in types /\ ifd[tag].val # Garbage
    THEN ifd[tag].val ELSE None

Pointed(ifd, tag) == IF Value(ifd, tag, {"long"}) = None THEN <<>> ELSE Value(ifd, tag, {"long"})

\* A position needs both its numbers; the hemispheres are north and east
\* unless they are said to be others.
GPSPos(gps) ==
    LET lat == Value(gps, "lat", {"rational"})
        lon == Value(gps, "lon", {"rational"})
        south == Value(gps, "latRef", {"ascii"}) = "S"
        west == Value(gps, "lonRef", {"ascii"}) = "W"
    IN  IF None \in {lat, lon} THEN None
        ELSE ValidPos(IF south THEN -lat ELSE lat, IF west THEN -lon ELSE lon)

\* An instant of the receiver's clock needs the date and a time of that day.
GPSTime(gps) ==
    LET date == Value(gps, "dateStamp", {"ascii"})
        clock == Value(gps, "timeStamp", {"rational"})
    IN  IF None \in {date, clock} \/ clock \notin 0 .. DayLength - 1 THEN None
        ELSE date * DayLength + clock

\* A TIFF is None, or its first directory when its header is sound.
ParseTIFF(tiff) ==
    IF tiff = None THEN NoMeta
    ELSE LET ifd0 == WalkIFD(tiff, {"orientation", "exif", "gps"})
             exif == WalkIFD(Pointed(ifd0, "exif"), {"dateTimeOriginal", "offsetTimeOriginal"})
             gps == WalkIFD(Pointed(ifd0, "gps"), {"lat", "latRef", "lon", "lonRef",
                                                   "dateStamp", "timeStamp"})
             turned == Value(ifd0, "orientation", {"short", "long"})
         IN  [NoMeta EXCEPT
                !.orientation = IF turned = None \/ turned \notin 1 .. 8 THEN 0 ELSE turned,
                !.wall = Value(exif, "dateTimeOriginal", {"ascii"}),
                !.wallOffset = Value(exif, "offsetTimeOriginal", {"ascii"}),
                !.pos = GPSPos(gps), !.posSource = IF GPSPos(gps) = None THEN "none" ELSE "exif",
                !.gpsTime = GPSTime(gps)]

-----------------------------------------------------------------------------
(* The containers.  A JPEG is a sequence of segments [marker, tiff], a HEIF *)
(* container a sequence of boxes [type, whole, holds].                      *)

\* The payload of the first Exif segment, unless the image or a segment that
\* is not whole comes before it.
FindEXIFTIFF(segments) ==
    LET n == SelectInSeq(segments, LAMBDA s : s.marker \notin {"padding", "standalone", "other"})
    IN  IF n # 0 /\ segments[n].marker = "exif" THEN segments[n].tiff ELSE None

\* The first box of the type, unless a broken one comes before it.
FindBox(boxes, type) ==
    LET n == SelectInSeq(boxes, LAMBDA b : b.type = type \/ ~b.whole)
    IN  IF n # 0 /\ boxes[n].whole THEN boxes[n].holds ELSE None

\* iinf: entries [id, version, type, whole].  The older versions have no type.
ExifItemID(iinf) ==
    LET n == SelectInSeq(iinf, LAMBDA e : ~e.whole \/ (e.version \in {2, 3} /\ e.type = "Exif"))
    IN  IF n # 0 /\ iinf[n].whole THEN iinf[n].id ELSE None

\* iloc: items [id, method, extents, whole], an extent being the TIFF that is
\* there, or None.  The item's first extent counts, if it is an offset into
\* the file.
ItemExtent(iloc, id) ==
    LET n == SelectInSeq(iloc, LAMBDA it : ~it.whole \/ it.id = id)
    IN  IF n # 0 /\ iloc[n].whole /\ iloc[n].method = 0 /\ iloc[n].extents # <<>>
        THEN Head(iloc[n].extents) ELSE None

FindHEIFExifTIFF(boxes) ==
    LET meta == FindBox(boxes, "meta")
        iinf == FindBox(meta, "iinf")
        iloc == FindBox(meta, "iloc")
    IN  IF meta = None \/ iinf = None \/ iloc = None \/ ExifItemID(iinf) = None THEN None
        ELSE ItemExtent(iloc, ExifItemID(iinf))

ExtractEXIF(segments) == ParseTIFF(FindEXIFTIFF(segments))
ExtractHEIF(boxes) == ParseTIFF(FindHEIFExifTIFF(boxes))

-----------------------------------------------------------------------------
(* Sidecars, and the instant. *)

Positive(epoch) == epoch # None /\ epoch # Garbage /\ epoch > 0

PosOf(geo) == IF geo = None THEN None ELSE ValidPos(geo[1], geo[2])

\* JSON of another kind is no sidecar: None.  When it was taken comes before
\* when it was uploaded, Google's position before the camera's.
ParseSidecar(raw) ==
    IF raw.title = None /\ raw.taken = None /\ raw.geo = None THEN None
    ELSE [title |-> raw.title,
          time |-> CASE Positive(raw.taken) -> raw.taken
                     [] ~Positive(raw.taken) /\ Positive(raw.created) -> raw.created
                     [] OTHER -> None,
          pos |-> IF PosOf(raw.geo) # None THEN PosOf(raw.geo) ELSE PosOf(raw.geoExif)]

\* Mutation: the sidecar's position wins.
MutMergeSidecar(m, s) ==
    [m EXCEPT !.pos = IF s.pos # None THEN s.pos ELSE @,
              !.posSource = IF s.pos # None THEN "sidecar" ELSE @,
              !.sidecarTime = IF s.time # None THEN s.time ELSE @]

\* The sidecar fills an absent position; its time has a rung of its own.
MergeSidecar(m, s) ==
    LET fills == m.pos = None /\ s.pos # None
    IN  [m EXCEPT !.pos = IF fills THEN s.pos ELSE @,
                  !.posSource = IF fills THEN "sidecar" ELSE @,
                  !.sidecarTime = IF s.time # None THEN s.time ELSE @]

\* Go's division, towards zero.
Quotient(a, b) == IF a < 0 THEN -((-a) \div b) ELSE a \div b

\* What the wall clock read beyond the instant, to the nearest OffsetRound,
\* halves away from zero; None when no offset can be that large.
DeriveOffset(wall, instant) ==
    LET diff == wall - instant
        half == IF diff < 0 THEN -(OffsetRound \div 2) ELSE OffsetRound \div 2
        rounded == Quotient(diff + half, OffsetRound) * OffsetRound
    IN  IF rounded \in -OffsetMax .. OffsetMax THEN rounded ELSE None

Instant(at, off, source) == [at |-> at, off |-> off, source |-> source]

\* The offset an instant is shown in: measured, else stated, else the caller's
\* own, else none.
DisplayOffset(m, instant, fallback) ==
    LET derived == IF m.wall = None THEN None ELSE DeriveOffset(m.wall, instant)
        offered == SelectSeq(<<derived, m.wallOffset, fallback, 0>>, LAMBDA o : o # None)
    IN  Head(offered)

\* The ladder: the receiver's clock, the wall clock with its offset, the
\* sidecar, the wall clock in the caller's offset.
ResolveTime(m, fallback) ==
    LET Clock(t, source) ==
            IF t = None THEN None ELSE Instant(t, DisplayOffset(m, t, fallback), source)
        Wall(off, source) ==
            IF None \in {m.wall, off} THEN None ELSE Instant(m.wall - off, off, source)
        reached == SelectSeq(<<Clock(m.gpsTime, "gps"), Wall(m.wallOffset, "exif_offset"),
                               Clock(m.sidecarTime, "sidecar"), Wall(fallback, "exif_local")>>,
                             LAMBDA r : r # None)
    IN  IF reached = <<>> THEN None ELSE Head(reached)
=============================================================================
