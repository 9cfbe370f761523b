----------------------------- MODULE MCThumbFiles -----------------------------
\* Small instances of ThumbFiles: who makes each request, about which photos.
EXTENDS ThumbFiles

CONSTANTS
    attachA, importA, importB, removeA, removeB, eraseA,  \* requests
    alice, bob, h1, h2, h3, h4

MCUserOf == [r \in Requests |-> IF r \in {importB, removeB} THEN bob ELSE alice]

\* Two people import h1.  What the handlers without the lock touch is nobody
\* else's: alice attaches h2, and h3 once more, and removes h4.
MCCarries == [r \in Requests |->
    CASE r = attachA -> {h2, h3}
      [] r = importA -> {h1, h3}
      [] r = importB -> {h1}
      [] r = removeA -> {h4}
      [] r = removeB -> {h1}
      [] OTHER -> {}]

MCExisting == {alice} \X {h3, h4}
MCBothHave1 == {alice, bob} \X {h1}
=============================================================================
