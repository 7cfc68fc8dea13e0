------------------------------- MODULE Paths -------------------------------
(***************************************************************************)
(* What becomes of the path of a request: cleaned by the parser,           *)
(* normalised by the response handler, matched with the locations of a     *)
(* server block and mapped to a place in the file system.                  *)
(*                                                                         *)
(* A path is the sequence of its slashes and of what is between them, with *)
(* percent signs decoded: <<"/", "a", "/", "..">>.  No two names follow    *)
(* each other, so a prefix of characters that ends before a slash is a     *)
(* prefix of the sequence.                                                 *)
(***************************************************************************)
EXTENDS Naturals, SequencesExt

Path == {p \in Seq(STRING) : \A i \in 1 .. Len(p) - 1 : p[i] = "/" \/ p[i + 1] = "/"}

EndsWithSlash(p) == Len(p) > 1 /\ Last(p) = "/"
WithoutSlash(p) == IF EndsWithSlash(p) THEN Front(p) ELSE p
SegmentsOf(p) == FoldLeft(LAMBDA names, t : IF t = "/" THEN names ELSE Append(names, t), <<>>, p)
PathOf(segments) ==
  IF segments = <<>> THEN <<"/">>
  ELSE [i \in 1 .. 2 * Len(segments) |-> IF i % 2 = 1 THEN "/" ELSE segments[i \div 2]]

\* cleanPath: one slash for several, none at the end.
CleanPath(p) ==
  WithoutSlash(FoldLeft(LAMBDA done, t : IF t = "/" /\ done # <<>> /\ Last(done) = "/" THEN done
                                         ELSE Append(done, t),
                        <<>>, p))

\* Variant: above the root is the root.
WalkClamped(at, s) ==
  IF s = "." THEN at
  ELSE IF s # ".." THEN [at EXCEPT !.segments = Append(@, s)]
  ELSE IF at.segments = <<>> THEN at
  ELSE [at EXCEPT !.segments = Front(@)]

\* One segment of normalizePath: ".." with nothing before it ends it.
Walk(at, s) ==
  IF ~at.ok \/ s = "." THEN at
  ELSE IF s # ".." THEN [at EXCEPT !.segments = Append(@, s)]
  ELSE IF at.segments = <<>> THEN [at EXCEPT !.ok = FALSE]
  ELSE [at EXCEPT !.segments = Front(@)]

\* normalizePath; <<>> is its empty string, for a path above the root.
NormalizePath(p) ==
  LET end == FoldLeft(Walk, [ok |-> TRUE, segments |-> <<>>], SegmentsOf(p))
  IN  IF ~end.ok THEN <<>>
      ELSE IF EndsWithSlash(p) /\ end.segments # <<>> THEN Append(PathOf(end.segments), "/")
      ELSE PathOf(end.segments)

-----------------------------------------------------------------------------
\* matchLocation: does the location with path l serve p?  Location "/" serves
\* nothing but "/".
Serves(l, p) ==
  LET location == WithoutSlash(l)
      path == WithoutSlash(p)
  IN  \/ path = location
      \/ IsPrefix(location \o <<"/">>, path)

NoLocation == [path |-> <<>>]

\* Variant: the last that serves p.
MatchLast(locations, p) ==
  FoldLeft(LAMBDA best, l : IF Serves(l.path, p) THEN l ELSE best,
           NoLocation, locations)

\* The longest location that serves p; of two as long, the first.
MatchLocation(locations, p) ==
  FoldLeft(LAMBDA best, l : IF Serves(l.path, p) /\ Len(l.path) > Len(best.path)
                            THEN l ELSE best,
           NoLocation, locations)

FromLastSlash(p) == SelectLastInSeq(p, LAMBDA t : t = "/")

\* _resolveFsPath, and _validatePath before the path is normalised: a root
\* and what is appended to it.  A location's own path is dropped when a slash
\* follows; when the path is the location's, its last segment remains.
ResolveFsPath(p, location, serverRoot) ==
  IF location = NoLocation THEN [root |-> serverRoot, uri |-> p]
  ELSE LET l == location.path
           rest == SubSeq(p, Len(l) + 1, Len(p))
           uri == IF IsPrefix(l, p) /\ rest # <<>> /\ Head(rest) = "/" THEN rest ELSE p
       IN  [root |-> location.root,
            uri |-> IF uri = l THEN SubSeq(uri, FromLastSlash(uri), Len(uri)) ELSE uri]
=============================================================================
