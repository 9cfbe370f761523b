------------------------------ MODULE TimelineParse -----------------------------
(***************************************************************************)
(* timeline.Sniff and timeline.Parse: what a file that is said to be a     *)
(* Timeline export is taken for, and what is read from it.  A file is a    *)
(* record: magic, the container its first bytes announce, or "none"; lead, *)
(* what the text begins with; markers, the known keys within its first     *)
(* 4 KB; sections, the keys of the object with their values as far as they *)
(* are well formed, and end, how it ends behind them.                      *)
(*                                                                         *)
(* An instant is [at, off], with the offset it is written in; BadTime is   *)
(* text that is none.  Locations are as parseLoc leaves them.              *)
(***************************************************************************)
EXTENDS Naturals, SequencesExt

CONSTANTS BadTime

PhoneTimelineFormat == "phone-timeline"

\* Of rules [when, is] the first whose condition holds decides.
FirstOf(rules) == rules[SelectInSeq(rules, LAMBDA r : r.when)].is

If(condition, value) == [when |-> condition, is |-> value]

\* "ok", or what the file is instead.  Nothing but white space passes for JSON
\* as far as the test of its first byte, and there is none: "panic".
Sniff(f) ==
    FirstOf(<<
        If(f.lead = "empty", "empty"),
        If(f.magic # "none", f.magic),
        If(f.lead \in {"html", "kml", "xml", "binary", "not-json"}, f.lead),
        If({"semanticSegments", "rawSignals"} \intersect f.markers # {}, "ok"),
        If("timelineObjects" \in f.markers, "semantic-history"),
        If({"latitudeE7", "longitudeE7"} \intersect f.markers # {}, "records-json"),
        If(f.lead = "blank", "panic"),
        If(f.lead = "array" /\ "titleUrl" \in f.markers, "my-activity"),
        If(TRUE, "ok")>>)

-----------------------------------------------------------------------------
(* Entries. *)

Row(table, start, end, loc, what) ==
    [table |-> table, obs |-> <<start.at, end.at, loc, what>>, off |-> <<start.off, end.off>>]

Read(found, skipped) == [rows |-> found, skipped |-> skipped]

Nothing == Read(<<>>, 0)

Unusable == Read(<<>>, 1)

\* What is read one after the other.
Collect(reads) ==
    LET upto[k \in 0 .. Len(reads)] ==
            LET before == upto[k - 1]
            IN  IF k = 0 THEN Nothing
                ELSE Read(before.rows \o reads[k].rows, before.skipped + reads[k].skipped)
    IN  upto[Len(reads)]

\* A visit or an activity needs both its times.
ReadStay(table, e) ==
    IF BadTime \in {e.start, e.end} THEN Unusable
    ELSE Read(<<Row(table, e.start, e.end, e.loc, e.what)>>, 0)

\* A point needs its time.
ReadPoint(p) ==
    IF p.time = BadTime THEN Unusable ELSE Read(<<Row("path_points", p.time, p.time, p.loc, "")>>, 0)

\* Mutation: the first bad point ends the segment.
MutReadPath(path) ==
    Collect([k \in DOMAIN path |-> IF \E m \in 1 .. k : path[m].time = BadTime THEN Unusable
                                   ELSE ReadPoint(path[k])])

\* A point that cannot be used is skipped alone.
ReadPath(path) == Collect([k \in DOMAIN path |-> ReadPoint(path[k])])

\* A segment is its visit, else its activity, else its path; other kinds are
\* ignored.
ProcessSegment(e) ==
    FirstOf(<<If("visit" \in e.has, ReadStay("visits", e)),
              If("activity" \in e.has, ReadStay("activities", e)),
              If("path" \in e.has, ReadPath(e.path)),
              If(TRUE, Nothing)>>)

\* Of the raw signals only positions are read.
ReadSignal(e) ==
    IF "position" \notin e.has THEN Nothing
    ELSE IF e.start = BadTime THEN Unusable
    ELSE Read(<<Row("raw_positions", e.start, e.start, e.loc, e.what)>>, 0)

ReadEntry(key, e) ==
    IF "mistyped" \in e.has THEN Unusable
    ELSE IF key = "semanticSegments" THEN ProcessSegment(e) ELSE ReadSignal(e)

-----------------------------------------------------------------------------
(* Files. *)

Sections == {"semanticSegments", "rawSignals"}

Rejected(kind) == [format |-> kind, rows |-> <<>>, skipped |-> 0]

\* A section of another name is skipped whole.
ReadSection(s) ==
    IF s.key \in Sections THEN Collect([k \in DOMAIN s.entries |-> ReadEntry(s.key, s.entries[k])])
    ELSE Nothing

\* The verdict of a whole parse: what was read counts only if all of the file
\* could be.
Parse(f) ==
    LET keys == {s.key : s \in ToSet(f.sections)}
        misshapen == \E s \in ToSet(f.sections) : s.key \in Sections /\ ~s.array
        read == Collect([k \in DOMAIN f.sections |-> ReadSection(f.sections[k])])
    IN  FirstOf(<<
            If(Sniff(f) # "ok", Rejected(Sniff(f))),
            If(f.lead # "object" \/ misshapen, Rejected("malformed-json")),
            If(f.end # "whole", Rejected(f.end)),
            If("semanticSegments" \notin keys, Rejected("json-unrecognised")),
            If(TRUE, [format |-> PhoneTimelineFormat, rows |-> read.rows, skipped |-> read.skipped])>>)

\* The rows an import run with -from and -to keeps: those that start there.
FilterWindow(found, w) ==
    SelectSeq(found, LAMBDA r : w.from <= r.obs[1] /\ r.obs[1] < w.to)

\* In the order the tables are written.
AsWritten(found) ==
    LET Of(table) == SelectSeq(found, LAMBDA r : r.table = table)
    IN  Of("visits") \o Of("activities") \o Of("path_points") \o Of("raw_positions")
=============================================================================
