------------------------------- MODULE Routes -------------------------------
(***************************************************************************)
(* Which requests a route or a mounted directory takes: PathParamsMatcher, *)
(* is_valid_path and the mount points of handle_file_request.  Paths are   *)
(* sequences of characters; "/" separates components, ":" marks the        *)
(* parameter of a pattern.                                                 *)
(***************************************************************************)
EXTENDS Integers, Texts

Separator == "/"
Marker    == ":"

-----------------------------------------------------------------------------
(* PathParamsMatcher: the pattern as the fragments between its parameters, *)
(* and their names.  A name may come twice: the constructor looks for each *)
(* in a set that it puts nothing into, and so accepts every pattern.       *)

Compile(pattern) ==
  LET compiled[i \in 1..Len(pattern) + 2] ==
        LET mark == FindFrom(pattern, Marker, i)
            sep  == FindFrom(pattern, Separator, mark + 1)
        IN  CASE mark <= Len(pattern) ->
                   [fragments |-> <<Slice(pattern, i, mark)>> \o compiled[sep + 1].fragments,
                    names     |-> <<Slice(pattern, mark + 1, sep)>> \o compiled[sep + 1].names]
              [] mark > Len(pattern) /\ i <= Len(pattern) ->
                   [fragments |-> <<Slice(pattern, i, mark)>>, names |-> << >>]
              [] OTHER -> [fragments |-> << >>, names |-> << >>]
  IN  compiled[1]

NoParams == [name \in {} |-> << >>]

\* Plausible bug: what is emplaced under a name that is there replaces what it has.
Replaced(name, value, later) ==
  [n \in {name} \cup DOMAIN later |-> IF n \in DOMAIN later THEN later[n] ELSE value]

\* The parameters with one that is emplaced before them: a name keeps what it is
\* given first.
Emplaced(name, value, later) ==
  [n \in {name} \cup DOMAIN later |-> IF n = name THEN value ELSE later[n]]

\* A value ends at the separator, which is skipped with it.
AfterValue(sep) == sep + 1

\* From position at on, with fragments from the i-th: what the parameters get, a
\* map from their names, or none.
Match(pattern, path) ==
  LET p == Compile(pattern)
      params[i \in 1..Len(p.fragments) + 1] ==
        IF i > Len(p.fragments)
        THEN [at \in 1..Len(path) + 2 |-> IF at > Len(path) THEN {NoParams} ELSE {}]
        ELSE [at \in 1..Len(path) + 2 |->
                LET end == at + Len(p.fragments[i])
                    sep == FindFrom(path, Separator, end)
                IN  IF end > Len(path) + 1 \/ Slice(path, at, end) # p.fragments[i] THEN {}
                    ELSE IF i > Len(p.names) THEN params[i + 1][end]
                    ELSE {Emplaced(p.names[i], Slice(path, end, sep), later)
                            : later \in params[i + 1][AfterValue(sep)]}]
  IN  params[1][1]

-----------------------------------------------------------------------------
(* Files.                                                                  *)

\* The components of a path, without the empty ones: what begins at i or later.
Components(path) ==
  LET from[i \in 1..Len(path) + 1] ==
        LET end == FindFrom(path, Separator, i)
        IN  IF i > Len(path) THEN << >>
            ELSE IF end = i THEN from[i + 1]
            ELSE <<Slice(path, i, end)>> \o from[end]
  IN  from[1]

Here == <<".">>
Up   == <<".", ".">>

\* The level after the first n components.
Levels(components) ==
  LET level[n \in 0..Len(components)] ==
        IF n = 0 THEN 0
        ELSE CASE components[n] = Here -> level[n - 1]
               [] components[n] = Up   -> level[n - 1] - 1
               [] OTHER                -> level[n - 1] + 1
  IN  level

\* A path that climbs above its start, or has a character no file name should
\* have, is refused.
IsValidPath(path) ==
  LET c == Components(path)
  IN  ToSet(path) \cap {"\\", "NUL"} = {} /\ \A n \in 0..Len(c) : Levels(c)[n] >= 0

\* The path below the mounted directory, "/" and what follows the mount point.
SubPath(mount, path) == <<Separator>> \o SubSeq(path, Len(mount) + 1, Len(path))

\* Does the i-th mount point take a path?
Mounted(mounts, i, path) ==
  /\ IsPrefix(mounts[i].point, path)
  /\ IsValidPath(SubPath(mounts[i].point, path))

-----------------------------------------------------------------------------
\* The reference: component by component.
Pieces(s) ==
  LET from[i \in 1..Len(s) + 1] ==
        LET end == FindFrom(s, Separator, i)
        IN  <<Slice(s, i, end)>> \o IF end > Len(s) THEN << >> ELSE from[end + 1]
  IN  from[1]

Prefix(component) == Slice(component, 1, FindFrom(component, Marker, 1))
HasParam(component) == Marker \in ToSet(component)
Fits(component, piece) ==
  IF HasParam(component) THEN IsPrefix(Prefix(component), piece) ELSE piece = component

Fit(pattern, path) ==
  /\ Len(path) = Len(pattern)
  /\ \A k \in DOMAIN pattern : Fits(pattern[k], path[k])

\* A slash after a pattern's last parameter is lost when it is compiled.
Normal(pattern) ==
  IF Last(pattern) = << >> /\ Len(pattern) > 1 /\ HasParam(Last(Front(pattern)))
  THEN Front(pattern) ELSE pattern

\* A component's parameter: its name, and what it gets of a piece of the path.
NameOf(component) == Slice(component, Len(Prefix(component)) + 2, Len(component) + 1)
Left(component, piece) == Slice(piece, Len(Prefix(component)) + 1, Len(piece) + 1)

\* What the parameters get from the k-th component on, the first of each name.
ParamsFrom(pattern, path, k) ==
  LET given == {j \in k..Len(pattern) : HasParam(pattern[j])}
  IN  [name \in {NameOf(pattern[j]) : j \in given} |->
         LET first == Min({j \in given : NameOf(pattern[j]) = name})
         IN  Left(pattern[first], path[first])]

\* The components of a path that are to fit those of a pattern: a slash at its end
\* may follow a parameter at the pattern's.
Fitting(p, c) ==
  IF HasParam(Last(p)) /\ Last(c) = << >> /\ Len(c) > Len(p) THEN Front(c) ELSE c

(* A pattern takes a path exactly if it does so component by component,     *)
(* whatever fragments it is cut into, and the first parameter of each name  *)
(* gets the rest of its component; one that ends in a parameter, or in a    *)
(* parameter and a slash, takes the path with a slash at its end and the    *)
(* path without.                                                            *)
RoutesByComponent(pattern, path) ==
  LET p == Normal(Pieces(pattern))
      c == Fitting(p, Pieces(path))
  IN  Match(pattern, path) = IF Fit(p, c) THEN {ParamsFrom(p, c, 1)} ELSE {}

\* Where a walk through the components of a path gets, from a directory, given
\* as the sequence of names that leads to it.
Walk(dir, components) ==
  LET at[n \in 0..Len(components)] ==
        IF n = 0 THEN dir
        ELSE CASE components[n] = Here -> at[n - 1]
               [] components[n] = Up   -> IF at[n - 1] = << >> THEN << >> ELSE Front(at[n - 1])
               [] OTHER                -> Append(at[n - 1], components[n])
  IN  at

(* No directory that is passed on the way to a file that is served lies     *)
(* outside the directory that its mount point stands for.                   *)
FilesStayInside(mounts, path) ==
  \A i \in DOMAIN mounts : Mounted(mounts, i, path) =>
    LET c == Components(SubPath(mounts[i].point, path))
    IN  \A n \in 0..Len(c) : IsPrefix(mounts[i].dir, Walk(mounts[i].dir, c)[n])
=============================================================================
