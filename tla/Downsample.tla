----------------------------- MODULE Downsample -----------------------------
(***************************************************************************)
(* python/downsample.py: --update lists the assets of a library that have  *)
(* large images; --downsample makes a copy in the target library of every  *)
(* asset listed (--copy), scales the listed images and their tex files     *)
(* down, and marks them in the copy's config.json (--add_needscale).       *)
(*                                                                         *)
(* Commands are given one after another, and any of them may be killed: a  *)
(* file opened for writing is empty until it is filled, and a tree is made *)
(* and removed part by part.  What is listed of an asset is in a directory *)
(* within the asset's, dg_makeup.  The path of a copy is the asset's path  *)
(* with the text of --magic replaced by --target: when --magic is not      *)
(* spelled as it was for --update nothing is replaced, and the copy is the *)
(* asset itself.                                                           *)
(***************************************************************************)
EXTENDS Naturals, Sequences, FiniteSets

CONSTANTS Assets,
          Records,      \* the elements analyze_magic_assets lists of each
          MissingTex,   \* tex files that a config names and the asset lacks
          MaxRuns,      \* bound on the commands given
          MaxKills,     \* bound on the commands killed
          MaxRemovals   \* bound on the assets taken out of the library

Roots == {"magic", "target"}
Parts == {"asset", "makeup"}   \* an asset's directory and the dg_makeup in it
Listed(a) == {Records[a][k] : k \in 1..Len(Records[a])}
Config == <<"cfg", 0>>
Names == (UNION {Listed(a) : a \in Assets}) \cup {Config}
IsImage(e) == e[1] = "img"
FilesOf(a) == (Listed(a) \ MissingTex[a]) \cup {Config}

VARIABLES
    pc,         \* what the command is doing
    args,       \* its options, and the library that its dst paths lead to
    line,       \* the record it is at
    element,    \* the next element of the record
    opened,     \* the file it is writing and what goes in: none or one
    listing,    \* the list file: none or one
    dirs,       \* the directories there are: root, asset and part
    files,      \* what is in each file
    result,     \* how the last command ended
    misspelled, \* history: some command was given another --magic
    runs, kills, removals

place == <<line, element>>
tree == <<opened, dirs, files>>
given == <<args, misspelled, runs>>
bounds == <<kills, removals>>
vars == <<pc, given, place, tree, listing, result, bounds>>

Args == [copy : BOOLEAN, add_needscale : BOOLEAN, dst : Roots]
Contents == {"absent", "empty", "original", "scaled", "twice", "marked"}

Init ==
    /\ pc = "idle"
    /\ args = [copy |-> FALSE, add_needscale |-> FALSE, dst |-> "target"]
    /\ line = 1 /\ element = 1
    /\ opened = {}
    /\ listing = {}
    /\ dirs = {"magic"} \X Assets \X Parts
    /\ files = [f \in Roots \X Assets \X Names |->
                   IF f[1] = "magic" /\ f[3] \in FilesOf(f[2]) THEN "original" ELSE "absent"]
    /\ result = "none"
    /\ misspelled = FALSE
    /\ runs = 0 /\ kills = 0 /\ removals = 0

-----------------------------------------------------------------------------
(* What the steps of a command are made of *)

At(label) == pc = label /\ opened = {}
Exit(how) == pc' = "idle" /\ result' = how
Has(root, a, part) == <<root, a, part>> \in dirs

\* An open with truncation; the next step fills the file.
Write(root, a, e, content) ==
    /\ opened' = {<<root, a, e, content>>}
    /\ files' = [files EXCEPT ![<<root, a, e>>] = "empty"]

Fill ==
    /\ \E f \in opened : files' = [files EXCEPT ![<<f[1], f[2], f[3]>>] = f[4]]
    /\ opened' = {}
    /\ UNCHANGED <<pc, given, place, listing, dirs, result, bounds>>

Kill ==
    /\ pc # "idle" /\ kills < MaxKills
    /\ Exit("killed")
    /\ opened' = {}
    /\ kills' = kills + 1
    /\ UNCHANGED <<given, place, listing, dirs, files, removals>>

\* Somebody takes an asset out of the library.
RemoveAsset(a) ==
    /\ pc = "idle" /\ removals < MaxRemovals /\ Has("magic", a, "asset")
    /\ dirs' = dirs \ ({"magic"} \X {a} \X Parts)
    /\ files' = [f \in DOMAIN files |->
                    IF f[1] = "magic" /\ f[2] = a THEN "absent" ELSE files[f]]
    /\ removals' = removals + 1
    /\ UNCHANGED <<pc, given, place, opened, listing, result, kills>>

-----------------------------------------------------------------------------
(* --update *)

\* The assets have been analysed and the list file is open.  A library that a
\* misspelled command has worked on is not listed again.
StartUpdate ==
    /\ pc = "idle" /\ runs < MaxRuns /\ ~ misspelled
    /\ pc' = "update"
    /\ listing' = {<< >>}
    /\ runs' = runs + 1
    /\ UNCHANGED <<args, place, tree, result, misspelled, bounds>>

Recorded(l) == {l[k] : k \in 1..Len(l)}

\* One record reaches the list file; the order is that of os.listdir.
ListAsset(a) ==
    /\ pc = "update" /\ Has("magic", a, "asset")
    /\ \E l \in listing : a \notin Recorded(l) /\ listing' = {Append(l, a)}
    /\ UNCHANGED <<pc, given, place, tree, result, bounds>>

\* analyze_memory divides by the number of records.
EndUpdate ==
    /\ pc = "update"
    /\ \E l \in listing :
        /\ \A a \in Assets : Has("magic", a, "asset") => a \in Recorded(l)
        /\ Exit(IF l = << >> THEN "unlisted" ELSE "listed")
    /\ UNCHANGED <<given, place, tree, listing, bounds>>

-----------------------------------------------------------------------------
(* --downsample *)

\* The command's options are read and the list file is opened.
StartDownsample ==
    /\ pc = "idle" /\ runs < MaxRuns
    /\ args' \in Args
    /\ IF listing = {} THEN Exit("failed") ELSE pc' = "line" /\ UNCHANGED result
    /\ line' = 1 /\ element' = 1
    /\ misspelled' = (misspelled \/ args'.dst = "magic")
    /\ runs' = runs + 1
    /\ UNCHANGED <<tree, listing, bounds>>

\* The asset of the record the command is at.
Current == CHOOSE a \in Assets : \E l \in listing : line <= Len(l) /\ l[line] = a
AtEnd == \A l \in listing : line > Len(l)

StartLine ==
    /\ At("line") /\ ~ AtEnd
    /\ pc' = IF args.copy THEN "remove" ELSE "scale"
    /\ element' = 1
    /\ UNCHANGED <<given, line, tree, listing, result, bounds>>

EndRun ==
    /\ At("line") /\ AtEnd
    /\ Exit("ok")
    /\ UNCHANGED <<given, place, tree, listing, bounds>>

\* What is there of the asset at hand under a root.
Present(root) == {e \in Names : files[<<root, Current, e>>] # "absent"}

\* Mutant: a copy there already is is kept as it is.
KeepTree ==
    /\ At("remove")
    /\ pc' = IF Has(args.dst, Current, "asset") THEN "scale" ELSE "copy"
    /\ UNCHANGED <<given, place, tree, listing, result, bounds>>

\* rmtree of a copy there already is: file by file, then the directories from
\* within.
RemoveTree ==
    /\ At("remove")
    /\ IF Present(args.dst) # {}
         THEN /\ \E e \in Present(args.dst) :
                     files' = [files EXCEPT ![<<args.dst, Current, e>>] = "absent"]
              /\ UNCHANGED <<pc, dirs>>
         ELSE /\ IF Has(args.dst, Current, "makeup")
                   THEN dirs' = dirs \ {<<args.dst, Current, "makeup">>} /\ UNCHANGED pc
                   ELSE dirs' = dirs \ {<<args.dst, Current, "asset">>} /\ pc' = "copy"
              /\ UNCHANGED files
    /\ UNCHANGED <<given, place, opened, listing, result, bounds>>

\* The directories copytree has yet to make.
Unmade == {part \in Parts : Has("magic", Current, part) /\ ~ Has(args.dst, Current, part)}

\* A directory is made before what is in it.
MakeDir ==
    /\ Unmade # {}
    /\ LET part == IF "asset" \in Unmade THEN "asset" ELSE "makeup"
       IN  dirs' = dirs \cup {<<args.dst, Current, part>>}
    /\ UNCHANGED <<pc, opened, files, result>>

\* One file; with the last one the copy is there.
CopyFile ==
    /\ Unmade = {}
    /\ LET left == Present("magic") \ Present(args.dst) IN
       IF left = {}
         THEN pc' = "scale" /\ UNCHANGED <<opened, files>>
         ELSE /\ \E e \in left :
                    Write(args.dst, Current, e, files[<<"magic", Current, e>>])
              /\ UNCHANGED pc
    /\ UNCHANGED <<dirs, result>>

\* copytree raises when the asset is gone.
CopyTree ==
    /\ At("copy")
    /\ IF Has("magic", Current, "asset") THEN MakeDir \/ CopyFile
                                        ELSE Exit("failed") /\ UNCHANGED tree
    /\ UNCHANGED <<given, place, listing, bounds>>

Scaled(content) ==
    CASE content = "original" -> "scaled" [] content = "scaled" -> "twice" [] OTHER -> content

AtElement == At("scale") /\ element <= Len(Records[Current])
E == Records[Current][element]
Source == files[<<"magic", Current, E>>]
Readable == Source # "absent" /\ (IsImage(E) => Source # "empty")
HasDir == Has(args.dst, Current, "makeup")

\* The scaled file, made of what src_path holds.
Scale ==
    /\ AtElement /\ Readable /\ HasDir
    /\ Write(args.dst, Current, E, Scaled(Source))
    /\ element' = element + 1
    /\ UNCHANGED <<pc, given, line, listing, dirs, result, bounds>>

\* imwrite into no directory does nothing; a missing tex is passed over.
Skip ==
    /\ AtElement
    /\ IF IsImage(E) THEN Readable /\ ~ HasDir ELSE ~ Readable
    /\ element' = element + 1
    /\ UNCHANGED <<pc, given, line, tree, listing, result, bounds>>

\* An image that cannot be read, or a tex with no directory to go to.
ScaleFails ==
    /\ AtElement
    /\ IF IsImage(E) THEN ~ Readable ELSE Readable /\ ~ HasDir
    /\ Exit("failed")
    /\ UNCHANGED <<given, place, tree, listing, bounds>>

\* The elements up to last are done.
ScaledUpTo(last) ==
    /\ At("scale") /\ element > last
    /\ IF args.add_needscale THEN pc' = "mark" /\ UNCHANGED line
                             ELSE pc' = "line" /\ line' = line + 1
    /\ UNCHANGED <<given, element, tree, listing, result, bounds>>

\* Mutant: the last element of the record is left out.
EndScaleEarly == ScaledUpTo(Len(Records[Current]) - 1)

EndScale == ScaledUpTo(Len(Records[Current]))

\* The copy's config is loaded, truncated and written; json.load raises on an
\* empty file.
Mark ==
    /\ At("mark")
    /\ IF files[<<args.dst, Current, Config>>] \in {"absent", "empty"}
         THEN Exit("failed") /\ UNCHANGED <<opened, files, line>>
         ELSE /\ Write(args.dst, Current, Config, "marked")
              /\ pc' = "line" /\ line' = line + 1
              /\ UNCHANGED result
    /\ UNCHANGED <<given, element, listing, dirs, bounds>>

Update == StartUpdate \/ (\E a \in Assets : ListAsset(a)) \/ EndUpdate
Downscale == \/ StartDownsample \/ StartLine \/ RemoveTree \/ CopyTree \/ Scale
             \/ Skip \/ ScaleFails \/ EndScale \/ Mark \/ EndRun

Next == Update \/ Downscale \/ Fill \/ Kill \/ \E a \in Assets : RemoveAsset(a)

Spec == Init /\ [][Next]_vars

-----------------------------------------------------------------------------
(* Properties *)

\* An image is not written and nothing is said: there is no directory for it,
\* and no tex, copy or mark of the asset that would raise.
PassedOver(a) ==
    /\ ~ Has("target", a, "makeup") /\ ~ args.copy /\ ~ args.add_needscale
    /\ \A e \in Listed(a) \ MissingTex[a] : IsImage(e)

\* A --downsample that comes to its end has done its work, whatever earlier
\* commands left of a copy: what the list names is scaled, once, and marked if
\* that was asked for.  Only without --copy may an asset be passed over, one
\* that has no copy to put its images into and lacks each of its tex files
\* (downsample.py:107-111, 204-226).
OkMeansDone ==
    (pc = "idle" /\ result = "ok" /\ ~ misspelled) =>
        \A l \in listing : \A a \in Recorded(l) :
            \/ PassedOver(a)
            \/ /\ Has("target", a, "makeup")
               /\ \A e \in Listed(a) \ MissingTex[a] : files[<<"target", a, e>>] = "scaled"
               /\ args.add_needscale => files[<<"target", a, Config>>] = "marked"

\* A command with --copy repairs what killed and failed ones left: it fails
\* only for want of a list file or of a listed asset (downsample.py:212-215).
CopyRecovers ==
    (pc = "idle" /\ result = "failed" /\ args.copy /\ ~ misspelled) =>
        \/ listing = {}
        \/ \E l \in listing : \E a \in Recorded(l) : ~ Has("magic", a, "asset")

=============================================================================
