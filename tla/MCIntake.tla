-------------------------------- MODULE MCIntake --------------------------------
\* Files from the terminal and photo batches over HTTP, read as the parsers
\* read them, go into one user's tables beside a deletion.  A few plain ones
\* meet in every order; every small file and batch there is goes in alone.
EXTENDS Intake, TimelineParse, PhotoBatch

CONSTANTS
    PlainFiles, PlainBatches,   \* those that meet others
    RichFiles, RichBatches,     \* those that are imported alone
    Windows,                    \* the -from and -to there are
    Limit,                      \* bound: files a photo request may carry
    Nowhere                     \* an observation without a location

(* The instance: exports. *)

T(at, off) == [at |-> at, off |-> off]
A == <<1, 1>>
B == <<2, 1>>

Entry(has, start, end, loc, path) ==
    [has |-> has, start |-> start, end |-> end, loc |-> loc, what |-> "", path |-> path]
Visit(start, end, loc) == Entry({"visit"}, start, end, loc, <<>>)
Path(path) == Entry({"path"}, BadTime, BadTime, Nowhere, path)
Point(time, loc) == [time |-> time, loc |-> loc]
Position(t, loc) == Entry({"position"}, t, BadTime, loc, <<>>)

Section(key, entries) == [key |-> key, array |-> TRUE, entries |-> entries]
Export(sections) == [lead |-> "object", magic |-> "none", markers |-> {"semanticSegments"},
                     sections |-> sections, end |-> "whole"]
Segments(entries) == Export(<<Section("semanticSegments", entries)>>)

MCWindows == {[from |-> 0, to |-> 9], [from |-> 2, to |-> 9]}

Stay(off) == Visit(T(0, off), T(1, off), A)
Trace(at) == Point(T(at, 0), B)
MCPlainFiles ==
    {Segments(<<Stay(0), Path(<<Trace(2), Trace(3)>>)>>),
     Segments(<<Path(<<Trace(3), Trace(2)>>), Stay(1)>>),
     [Export(<<>>) EXCEPT !.lead = "blank", !.markers = {}],
     [Segments(<<Stay(0)>>) EXCEPT !.end = "truncated"]}

SmallPaths == {p \in SeqOf({Point(T(2, 0), A), Point(T(3, 1), Nowhere), Point(BadTime, B)}, 3) : p # <<>>}
SegmentEntries ==
    {Path(p) : p \in SmallPaths}
        \union {Visit(T(0, 0), T(1, 1), A), Visit(T(1, 0), BadTime, B),
                Entry({"activity"}, T(1, 1), T(2, 1), B, <<>>),
                Entry({"activity"}, BadTime, T(2, 1), B, <<>>),
                Entry({"visit", "activity", "path"}, T(4, 0), T(5, 0), B, <<Trace(4)>>),
                Entry({"activity", "path"}, BadTime, T(5, 0), B, <<Trace(5)>>),
                Entry({"timelineMemory"}, T(4, 0), T(5, 0), Nowhere, <<>>),
                Entry({"mistyped"}, BadTime, BadTime, Nowhere, <<>>)}
SignalEntries ==
    {Position(T(2, 0), A), Position(BadTime, A), Entry({"mistyped"}, BadTime, BadTime, Nowhere, <<>>),
     Entry({"wifiScan"}, BadTime, BadTime, Nowhere, <<>>)}
Heads ==
    [lead : {"object", "array", "blank"}, magic : {"none"},
     markers : SUBSET {"rawSignals", "timelineObjects", "latitudeE7", "titleUrl"}, end : {"whole"},
     sections : {<<Section("userLocationProfile", <<>>)>>}]
        \union [lead : {"empty", "kml", "not-json"}, magic : {"none", "gzip"}, markers : {{}},
                sections : {<<>>}, end : {"whole"}]
MCRichFiles ==
    {Segments(es) : es \in SeqOf(SegmentEntries, 2)}
        \union {Export(<<Section("rawSignals", <<r>>), Section("userLocationProfile", <<>>),
                         Section("semanticSegments", <<e>>), Section("rawSignals", <<s>>)>>) :
                    r \in SignalEntries, s \in SignalEntries, e \in SegmentEntries}
        \union {[Segments(<<e>>) EXCEPT !.end = end, !.sections[1].array = array] :
                    e \in SegmentEntries, end \in {"truncated", "malformed-json"}, array \in BOOLEAN}
        \union Heads

(* The instance: photos. *)

Tag(tag, typ, val) == [tag |-> tag, typ |-> typ, val |-> val]
Tiff(parts) ==
    parts.ifd0 \o <<Tag("exif", "long", parts.exif), Tag("gps", "long", parts.gps)>>

Directories ==
    LET Lat(v) == Tag("lat", "rational", v)
        Lon(v) == Tag("lon", "rational", v)
        West == Tag("lonRef", "ascii", "W")
        Clock == <<Tag("dateStamp", "ascii", 1), Tag("timeStamp", "rational", 2)>>
        Wall == Tag("dateTimeOriginal", "ascii", 13)
        Offset == Tag("offsetTimeOriginal", "ascii", 2)
        Upright == <<Tag("orientation", "long", 6)>>
    IN  {[ifd0 |-> Upright, exif |-> <<Wall, Offset>>, gps |-> <<Lat(5), Lon(7), West>> \o Clock],
         [ifd0 |-> Upright, exif |-> <<Wall>>, gps |-> <<Lat(5), Lon(7)>>],
         [ifd0 |-> <<>>, exif |-> <<Wall, Offset>>, gps |-> <<Lat(0), Lon(0)>>],
         [ifd0 |-> <<>>, exif |-> <<>>, gps |-> <<Lat(5), Lat(6), Lon(200)>> \o Clock],
         [ifd0 |-> <<>>, exif |-> <<Wall>>, gps |-> <<>>]}

Segment(marker, tiff) == [marker |-> marker, tiff |-> tiff]
Box(type, holds) == [type |-> type, whole |-> TRUE, holds |-> holds]
JPEG(tiff) == <<Segment("other", None), Segment("padding", None), Segment("exif", tiff)>>
ItemInfo == <<[id |-> 1, version |-> 2, type |-> "hvc1", whole |-> TRUE],
              [id |-> 2, version |-> 3, type |-> "Exif", whole |-> TRUE]>>
ItemLocation(tiff) == <<[id |-> 1, method |-> 1, extents |-> <<>>, whole |-> TRUE],
                        [id |-> 2, method |-> 0, extents |-> <<tiff, None>>, whole |-> TRUE]>>
Meta(tiff) == <<Box("iinf", ItemInfo), Box("iloc", ItemLocation(tiff))>>
HEIF(tiff) == <<Box("ftyp", None), Box("meta", Meta(tiff))>>

Name(stem, supplement, json) ==
    [stem |-> stem, dot |-> TRUE, supplement |-> supplement, json |-> json]
File(name, magic, image, sidecar, parts, bytes) ==
    [name |-> name, magic |-> magic, image |-> image, sidecar |-> sidecar, parts |-> parts,
     bytes |-> bytes]
Jpeg(name, parts) == File(name, "jpeg", JPEG(Tiff(parts)), None, parts, <<name.stem, parts>>)
Heic(name, parts) == File(name, "heic", HEIF(Tiff(parts)), None, parts, <<name.stem, parts, "heic">>)
Sidecar(name, title, taken, created, geo, geoExif) ==
    File(name, "sidecar", <<>>, [title |-> title, taken |-> taken, created |-> created, geo |-> geo,
                                 geoExif |-> geoExif], None, <<>>)

IMG(stem) == Name(stem, FALSE, FALSE)
MCFiles ==
    {Jpeg(IMG("a"), d) : d \in Directories} \union {Heic(IMG("b"), d) : d \in Directories}
        \union {Sidecar(Name("a", FALSE, TRUE), IMG("b"), 12, None, <<8, 8>>, None),
                Sidecar(Name("b", TRUE, TRUE), None, Garbage, 9, <<0, 0>>, <<9, 9>>),
                Sidecar(Name("c", FALSE, TRUE), IMG("a"), None, None, None, None),
                Sidecar(Name("c", FALSE, TRUE), None, None, 3, None, <<9, 9>>),
                File(IMG("a"), "png", <<>>, None, None, <<>>)}
MCRichBatches == {b \in SeqOf(MCFiles, 3) : b # <<>>}
MCPlainBatches == {<<Jpeg(IMG("a"), d)>> : d \in {e \in Directories : Len(e.gps) = 5}}
\* One entry, and no more photos than are read, at a time.
MCRows ==
    LET Alone(key, e) == Export(<<Section("semanticSegments", <<>>), Section(key, <<e>>)>>)
    IN  UNION {Range(Parse(f).rows) : f \in MCPlainFiles
                \union {Alone("semanticSegments", e) : e \in SegmentEntries}
                \union {Alone("rawSignals", e) : e \in SignalEntries}}
            \union UNION {Range(Ingested(Batch(b, 2))) : b \in SeqOf(MCFiles, 2)}
Alike == Permutations(Cli)

\* A file that is no export is none by any name; its sections, entries and
\* points are sequences.
IsFile(f) ==
    LET Sequence(s) == s \in Seq(Range(s)) IN
    /\ f = [lead |-> f.lead, magic |-> f.magic, markers |-> f.markers, sections |-> f.sections,
            end |-> f.end]
    /\ PhoneTimelineFormat \notin {f.lead, f.magic, f.end}
    /\ Sequence(f.sections)
    /\ \A s \in Range(f.sections) :
        /\ s = [key |-> s.key, array |-> s.array, entries |-> s.entries] /\ Sequence(s.entries)
        /\ \A e \in Range(s.entries) :
            /\ e = [has |-> e.has, start |-> e.start, end |-> e.end, loc |-> e.loc, what |-> e.what,
                    path |-> e.path]
            /\ Sequence(e.path)

\* A photo's directories are sequences of entries; what stands for no value is
\* none of them, nor anything in a container.
IsPhoto(parts) ==
    LET own == UNION {Range(parts[d]) : d \in DOMAIN parts}
        entries == own \union {Tag(e.tag, e.typ, v) : e \in own, v \in {Unlocated, Garbage}}
        pointers == [tag : {"exif", "gps"}, typ : {"long"}, val : Seq(entries)]
    IN  /\ parts = [ifd0 |-> parts.ifd0, exif |-> parts.exif, gps |-> parts.gps]
        /\ \A d \in DOMAIN parts : parts[d] \in Seq(own)
        /\ \A e \in own : e = [tag |-> e.tag, typ |-> e.typ, val |-> e.val]
        /\ \A v \in {None, Unlocated, Garbage} : v \notin Seq(entries \union pointers)
        /\ LET tiff == Tiff(parts) IN None \notin {2, ItemInfo, ItemLocation(tiff), Meta(tiff)}

\* What files bring is among Rows; a batch is a sequence of files.
ASSUME FilesAssumption ==
    LET found == Seq(Rows) IN
    /\ \A f \in PlainFiles \union RichFiles : IsFile(f)
    /\ \A f \in PlainFiles \union RichFiles, w \in Windows :
        AsWritten(FilterWindow(Parse(f).rows, w)) \in found
    /\ \A b \in PlainBatches \union RichBatches :
        b \in Seq(Range(b)) /\ Ingested(Batch(b, Limit)) \in found
    /\ \A b \in PlainBatches \union RichBatches : \A f \in Range(b) : f.parts # None => IsPhoto(f.parts)

VARIABLES
    file,           \* the file or batch of each import
    window,         \* the window of each import from the terminal
    alone           \* a rich file or batch has begun

mcVars == <<vars, file, window, alone>>

MCInit ==
    /\ Init /\ alone = FALSE
    /\ file = [i \in Importers |-> None]
    /\ window = [i \in Cli |-> None]

\* A rich file is alone from its beginning to the end of the behaviour.
MCBegin(i) ==
    /\ ~alone
    /\ \/ /\ \E f \in (IF i \in Cli THEN PlainFiles ELSE PlainBatches) : file' = [file EXCEPT ![i] = f]
          /\ UNCHANGED alone
       \/ /\ erasures = 0 /\ \A j \in Importers : pc[j] = "idle"
          /\ \E f \in (IF i \in Cli THEN RichFiles ELSE RichBatches) : file' = [file EXCEPT ![i] = f]
          /\ alone' = TRUE
    /\ \E w \in Windows : window' = IF i \in Cli THEN [window EXCEPT ![i] = w] ELSE window
    /\ BeginImport(i)

\* The terminal's import reads the whole file before it sends anything; what a
\* photo batch comes to was known before its row.
ReadFile(i) ==
    /\ pc[i] = "begun"
    /\ IF i \in Photos THEN Found(i, Ingested(Batch(file[i], Limit)))
       ELSE LET p == Parse(file[i]) IN
            \/ p.format = PhoneTimelineFormat /\ Found(i, AsWritten(FilterWindow(p.rows, window[i])))
            \/ p.format = "panic" /\ Panic(i)
            \/ p.format \notin {PhoneTimelineFormat, "panic"} /\ Unsupported(i)

MCNext ==
    \/ \E i \in Importers :
        \/ MCBegin(i)
        \/ (ReadFile(i) \/ ImportStep(i)) /\ UNCHANGED <<file, window, alone>>
    \/ ~alone /\ ErasureStep /\ UNCHANGED <<file, window, alone>>

MCSpec == MCInit /\ [][MCNext]_mcVars

-----------------------------------------------------------------------------
(* Properties. *)

\* An entry or a point that cannot be used costs itself and nothing else: the
\* file without it brings the same, with one less skipped.  (parse.go:3-6)
SkippedCostsOnlyItself ==
    \A i \in Cli : pc[i] = "begun" =>
        LET f == file[i]
            Costs(g) == /\ Parse(g).rows = Parse(f).rows
                        /\ Parse(g).skipped + 1 = Parse(f).skipped
        IN  Parse(f).format = PhoneTimelineFormat =>
            \A k \in DOMAIN f.sections : f.sections[k].key \in Sections =>
            \A n \in DOMAIN f.sections[k].entries :
                LET e == f.sections[k].entries[n] IN
                /\ ReadEntry(f.sections[k].key, e) = Unusable =>
                        Costs([f EXCEPT !.sections[k].entries = RemoveAt(@, n)])
                /\ f.sections[k].key = "semanticSegments" /\ e.has = {"path"} =>
                        \A m \in DOMAIN e.path : e.path[m].time = BadTime =>
                            Costs([f EXCEPT !.sections[k].entries[n].path = RemoveAt(@, m)])

\* A photo comes to what it comes to with its own sidecar alone, whatever else
\* is in the batch and in whatever order it comes, unless names repeat or two
\* sidecars claim it; and a sidecar never moves it.  (photosource.go:133-142)
PhotosKeepToThemselves ==
    \A i \in Photos : pc[i] = "begun" =>
        LET files == file[i]
            scans == [k \in DOMAIN files |-> ScanFile(files[k])]
            photos == {k \in DOMAIN scans : scans[k].kind = "photo"}
            Claims(k) == {n \in DOMAIN scans : Partner(scans, n) = k}
            clear == /\ \A k, n \in photos : k # n => scans[k].name # scans[n].name
                     /\ \A k \in photos : Cardinality(Claims(k)) <= 1
            Own(k) == IF Claims(k) = {} THEN <<scans[k]>>
                      ELSE <<scans[CHOOSE n \in Claims(k) : TRUE], scans[k]>>
        IN  clear =>
            \A k \in photos :
                LET own == Last(Resolve(Own(k))) IN
                /\ \A order \in Bijection(DOMAIN files, DOMAIN files) :
                    Resolve([n \in DOMAIN files |-> scans[order[n]]])
                        [CHOOSE n \in DOMAIN files : order[n] = k] = own
                /\ own.verdict = "fix" /\ scans[k].meta.pos # None => own.pos = scans[k].meta.pos

\* An entry that is malformed is absent: metadata with it and without it are
\* the same, unless the directory has another of its tag, or more than are
\* read; and the container makes no difference.  (exif.go:14-17, heif.go:7-10)
MalformationIsAbsence ==
    \A i \in Photos : pc[i] = "begun" /\ Len(file[i]) = 1 /\ Head(file[i]).parts # None =>
        LET parts == Head(file[i]).parts IN
        /\ ExtractHEIF(HEIF(Tiff(parts))) = ExtractEXIF(JPEG(Tiff(parts)))
        /\ \A d \in DOMAIN parts : \A n \in DOMAIN parts[d] :
            LET Broken(v) == ParseTIFF(Tiff([parts EXCEPT ![d][n].val = v]))
                without == ParseTIFF(Tiff([parts EXCEPT ![d] = RemoveAt(@, n)]))
                again == \E m \in DOMAIN parts[d] \ {n} : parts[d][m].tag = parts[d][n].tag
            IN  Len(Tiff(parts)) <= MaxEntries /\ Len(parts[d]) <= MaxEntries =>
                    Broken(Unlocated) = without /\ (again \/ Broken(Garbage) = without)
=============================================================================
