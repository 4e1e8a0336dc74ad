---------------------------- MODULE MCDiskCache -----------------------------
(***************************************************************************)
(* Small instances of DiskCache: an action result and a CAS blob in a      *)
(* cache that cannot hold both next to the reservations of two requests.   *)
(***************************************************************************)
EXTENDS DiskCache

CONSTANTS a1, c1

MCKey == {a1, c1}
MCOneKey == {c1}
MCKind == [k \in Key |-> IF k = a1 THEN "AC" ELSE "CAS"]

Blob(k, size, onDisk, good) ==
    [key |-> k, size |-> size, sizeOnDisk |-> onDisk, good |-> good]

\* The CAS blob as it should be but larger on the disk than the one of the proxy
\* backend, so that it can push itself out, and with contents that do not match
\* its hash.
MCUpload == {Blob(a1, 3, 3, TRUE), Blob(c1, 1, 4, TRUE), Blob(c1, 1, 1, FALSE)}
MCUploadGood == {Blob(a1, 3, 3, TRUE), Blob(c1, 2, 2, TRUE)}
\* The CAS blob, which one encoder compresses and another one makes too large for
\* the cache.
MCUploadOne == {Blob(c1, 2, 2, TRUE), Blob(c1, 2, 7, TRUE)}
\* The backend has an action result that is too large to fetch.
MCProxyBlob == {Blob(a1, 3, 3, TRUE), Blob(c1, 1, 1, TRUE)}
MCNoBlob == {}

MCItem == [size : 0 .. 7, sizeOnDisk : 0 .. 7, random : Random]
MCSymmetry == Permutations(Request) \cup Permutations(Random)
MCAskUnknown == {-1}
MCAskBoth == {-1, 1}
=============================================================================
