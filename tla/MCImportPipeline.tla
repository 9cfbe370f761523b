-------------------------- MODULE MCImportPipeline --------------------------
\* Small instances of ImportPipeline: who makes each request, the bytes it
\* carries and the tables their observations go to.  The two exports overlap in
\* one observation; of the second one a row goes to a table that a deletion is
\* past when it deletes the shared one.  A photo is a fix and a record.
EXTENDS ImportPipeline

CONSTANTS
    upA, upB, photosB, delA, delB, importA, detectA,  \* requests
    self, alice, bob, export, other, photos, shared, point, position, fix, record

\* alice is the built-in user in the -auth off runs and a signed-in user in
\* the oidc ones, where `self` is somebody else.
MCUserOf == [r \in Requests |->
    IF r \in {upB, photosB, delB} THEN bob
    ELSE IF r \in Cli THEN Self ELSE alice]

\* -auth off: everybody is the built-in user.
MCUserOfOff == [r \in Requests |-> Self]

MCBytesOf == [r \in Imports |->
    IF r = photosB THEN photos ELSE IF r = importA THEN other ELSE export]

MCContent == [e \in Exports |->
    IF e = export THEN {shared, point}
    ELSE IF e = other THEN {shared, position} ELSE {fix, record}]

MCTableOf == [o \in Observations |->
    IF o = shared THEN "visits"
    ELSE IF o = point THEN "path_points"
    ELSE IF o = record THEN "photo_records" ELSE "raw_positions"]

\* In one behaviour either the upload or the import from the terminal is made, beside
\* everybody else (import_operator has both).  Making a request is never assumed, so
\* that this takes nothing away from the fairness.
OneExport == pc[upA] = "idle" \/ pc[importA] = "idle"

OneExportSpec == Init /\ [][Next /\ OneExport']_vars /\ Fairness
=============================================================================
