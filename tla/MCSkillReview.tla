--------------------------- MODULE MCSkillReview ---------------------------
(* Values for TLC.  Two scenes are checked in one run: the agents and one   *)
(* review at the files of a skill, in every order; and the managers of two  *)
(* processes with their reviews, while the agents are quiet and the tools   *)
(* of a review look at a skill and edit it.  The managers in Late review no *)
(* more than one conversation.                                             *)
EXTENDS SkillReview

CONSTANT Late       \* managers that are quiet in the first scene

VARIABLE scene

mcvars == <<rvars, scene>>

MCInit ==
    /\ RvInit
    /\ \/ scene = "files"
       \/ /\ scene = "managers"
          /\ \A r \in Roots, f \in Files :
                disk[r][f] = IF r = "project" /\ f = "SKILL.md" THEN "agent" ELSE "none"

FilesNext ==
    /\ \/ \E c \in Callers \ Late : Begin(c) \/ Continue(c)
       \/ \E c \in Background \ Late : Cancel(c) \/ NewStore(c)
       \/ Outside
    /\ UNCHANGED reviewVars

ManagersNext ==
    \E m \in Managers :
        /\ ManagerNext(m)
        /\ op'[m].act \in {"none", "edit"}
        /\ m \in Late => 2 \notin accepted'[m]
        /\ "support" \notin shown'[m]

MCNext ==
    /\ UNCHANGED scene
    /\ \/ scene = "managers" /\ ManagersNext
       \/ scene = "files" /\ FilesNext

MCSpec == MCInit /\ [][MCNext]_mcvars
=============================================================================
