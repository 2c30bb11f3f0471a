---------------------------- MODULE MCFileShare ----------------------------
(* Instances of FileShare for TLC: a host, one or two guests, two files.   *)
EXTENDS FileShare, TLC

CONSTANTS p0, g1, g2,         \* the instances
          a, b,               \* the shares
          OwnerOfA, OwnerOfB, \* their senders
          NameOfA, NameOfB,   \* the names of the files, strings
          SizeOfA, SizeOfB,   \* their sizes
          GuestConnections    \* bound: connections a guest makes in all

MCMaxConnections == [p \in Peers |-> IF p = Host THEN 1 ELSE GuestConnections]
MCSockets == UNION {{p} \X (1 .. MCMaxConnections[p]) : p \in Peers}
MCOwner == [id \in Shares |-> IF id = a THEN OwnerOfA ELSE OwnerOfB]
MCSize  == [id \in Shares |-> IF id = a THEN SizeOfA ELSE SizeOfB]
MCCandidate == [id \in Shares |->
    LET name == IF id = a THEN NameOfA ELSE NameOfB
    IN  [n \in 0 .. MaxNumber |-> IF n = 0 THEN name ELSE name \o " (" \o ToString(n) \o ")"]]
MCGenerated == [id \in Shares |-> IF id = a THEN "generated a" ELSE "generated b"]
MCPartOf    == [f \in FinalPaths |-> f \o ".part"]
=============================================================================
