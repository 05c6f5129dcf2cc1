---------------------------- MODULE RegionCapture ----------------------------
(***************************************************************************)
(* The size test of BlockDataService::captureRegion: which regions are     *)
(* refused, and which numbers are computed to find out.                    *)
(***************************************************************************)
EXTENDS Integers

CONSTANT MaxCaptureRegionBlocks    \* 32768 in the code

ASSUME RegionAssumption == MaxCaptureRegionBlocks \in Nat \ {0}

\* The two corners may be given in any order.
Lower(a, b) == IF a < b THEN a ELSE b
Upper(a, b) == IF a < b THEN b ELSE a

Extent(a, b) == Upper(a, b) - Lower(a, b) + 1

\* The alternatives of the test, in the code's order.
TooLong(width, height, depth) ==
    \/ width > MaxCaptureRegionBlocks
    \/ height > MaxCaptureRegionBlocks
    \/ depth > MaxCaptureRegionBlocks

TooLarge(width, height, depth) ==
    \/ TooLong(width, height, depth)
    \/ width * height > MaxCaptureRegionBlocks
    \/ width * height * depth > MaxCaptureRegionBlocks

\* What is computed before the test is decided: no product is, after an
\* alternative that holds.
Computed(width, height, depth) ==
    {width, height, depth}
        \cup (IF TooLong(width, height, depth) THEN {} ELSE {width * height})
        \cup (IF TooLong(width, height, depth) \/ width * height > MaxCaptureRegionBlocks
              THEN {} ELSE {width * height * depth})

\* The blocks of a region, as <<<<x, y>>, z>>.
Blocks(x1, x2, y1, y2, z1, z2) ==
    ((Lower(x1, x2)..Upper(x1, x2)) \X (Lower(y1, y2)..Upper(y1, y2)))
        \X (Lower(z1, z2)..Upper(z1, z2))
=============================================================================
