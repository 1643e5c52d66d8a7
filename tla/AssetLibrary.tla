---------------------------- MODULE AssetLibrary ----------------------------
(***************************************************************************)
(* The library of assets and the copy of it that downsample.py makes: what *)
(* its commands (module Downsample) promise, whatever became of those      *)
(* before, stated here under names of their own so that it can be proved   *)
(* beside the other Python program.                                        *)
(***************************************************************************)
EXTENDS Naturals, Sequences, FiniteSets

CONSTANTS Assets, Records, MissingTex, MaxRuns, MaxKills, MaxRemovals

VARIABLES command, args, record, element, opened, listing, dirs, files, result,
          misspelled, runs, kills, removals

\* An asset is listed for an image, and an element is an image or a tex
\* (downsample.py:44-48).
ASSUME AssetLibraryAssumption ==
    /\ IsFiniteSet(Assets)
    /\ \A a \in Assets :
         /\ Records[a] \in Seq({"img", "tex"} \X Nat)
         /\ \E k \in 1..Len(Records[a]) : Records[a][k][1] = "img"
         /\ MissingTex[a] \subseteq {Records[a][k] : k \in 1..Len(Records[a])} \cap ({"tex"} \X Nat)
    /\ MaxRuns \in Nat /\ MaxKills \in Nat /\ MaxRemovals \in Nat

Commands == INSTANCE Downsample WITH pc <- command, line <- record

\* A --downsample that comes to its end has done its work, whatever earlier
\* commands left (downsample.py:204-226).
OkMeansDone == Commands!OkMeansDone

\* A command with --copy repairs what killed and failed ones left
\* (downsample.py:212-215).
CopyRecovers == Commands!CopyRecovers
=============================================================================
