-------------------------------- MODULE MCPpm --------------------------------
EXTENDS PpmLib, TLC

MCWheels == <<"w1", "w2">>

Bounds(commands, overlaps, crashes, resolves, signings) ==
  [commands |-> commands, overlaps |-> overlaps, crashes |-> crashes,
   resolves |-> resolves, signings |-> signings]

\* Command lines one by one, overlapping, killed; resolvers; both.
MCBudgets ==
  {Bounds(4, 0, 0, 0, 0), Bounds(2, 1, 1, 0, 0), Bounds(3, 0, 1, 0, 0),
   Bounds(0, 0, 1, 2, 1), Bounds(1, 0, 0, 1, 0)}

Wheel(url, file, version, rank, hashed) ==
  [file |-> file, url |-> url, version |-> version, wheel |-> TRUE, rank |-> rank, hashed |-> hashed]
Sdist(url, file, version, hashed) ==
  [file |-> file, url |-> url, version |-> version, wheel |-> FALSE, rank |-> 9, hashed |-> hashed]

(* Package a has two wheels of its newest stable version, a pre-release    *)
(* and an older sdist; b, which the second index offers too, has no hash   *)
(* in the first.                                                           *)
MCIndexes ==
  << [a |-> << Wheel("1/a2x", "a2x", 2, 9, TRUE), Wheel("1/a2", "a2", 2, 1, TRUE),
               Sdist("1/a1", "a1", 1, TRUE), Wheel("1/a3", "a3", 3, 1, TRUE) >>,
      b |-> << Wheel("1/b1", "b1", 1, 1, FALSE) >>],
     [d |-> << Sdist("2/d1", "d1", 1, TRUE) >>,
      b |-> << Wheel("2/b1", "b1", 1, 2, TRUE), Sdist("2/b2", "b2", 2, FALSE) >>] >>

Req(name, versions, applies) ==
  [name |-> name, specified |-> versions # {}, versions |-> versions, pre |-> FALSE, applies |-> applies]

\* a and b require each other; one requirement is for another environment.
MCMetadata ==
  [u \in {"1/a2", "1/b1", "2/b1"} |->
     IF u = "1/a2" THEN << Req("b", {1}, TRUE), Req("c", {}, FALSE), Req("d", {}, TRUE) >>
     ELSE << Req("a", {}, TRUE) >>]

MCRequests ==
  { << Req("a", {}, TRUE) >>, << Req("b", {1}, TRUE), Req("a", {1, 2}, TRUE) >>,
    << Req("a", {1}, FALSE), Req("b", {}, TRUE) >> }

\* Two pids of one slot, one below zero
MCPid == {-1, 1}

Symmetry == Permutations(Thread)
=============================================================================
