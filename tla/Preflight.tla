------------------------------- MODULE Preflight -------------------------------
(***************************************************************************)
(* A build up to the point where it has created nothing yet: Config.prepare*)
(* makes a configuration of the template (PrepareConfig), Builder.Run      *)
(* takes it up, StepResolveRegion turns the region slug into an id         *)
(* (RegionLookup) and StepRegisterImage makes up the name of the image     *)
(* (ImageName).  What each part relies on, the part before it has to       *)
(* provide; BuildRun goes on from there.                                   *)
(***************************************************************************)
EXTENDS Integers, Sequences

CONSTANTS
  Slug, lower, trim, Id,    \* see RegionLookup
  Fallback, Cap,            \* see ImageName
  Suffix,                   \* "-image"
  Families                  \* sets of inputs to explore

VARIABLES
  template, env, conf, errs, phase,                     \* PrepareConfig
  region, regionId, lookup, images, i, seen, outcome,   \* RegionLookup
  given, name, k, b, out                                \* ImageName

Prep   == INSTANCE PrepareConfig
Lookup == INSTANCE RegionLookup WITH phase <- lookup
Naming == INSTANCE ImageName

prepVars   == <<template, env, conf, errs, phase>>
lookupVars == <<region, regionId, lookup, images, i, seen, outcome>>
nameVars   == <<given, name, k, b, out>>
vars       == <<prepVars, lookupVars, nameVars>>

(* template, env: as in PrepareConfig; region: the slug the template has,  *)
(* images: what the server lists; name: cfg.Name.                          *)
Input ==
  [ template : Prep!Written, env : Prep!Environment, region : Slug,
    images : Seq(Lookup!Pair), name : Seq(Naming!Rune) ]

ASSUME PreflightAssumption ==
  /\ Lookup!SlugAssumption /\ Id # {Lookup!Empty}
  /\ Naming!LengthAssumption /\ Suffix \in Seq(Naming!Rune)
  /\ \A f \in Families : \A in \in f :
       in \in Input /\ (in.region # Lookup!Empty <=> in.template.region)

\* An id given with region_id.
GivenId == CHOOSE id \in Id : id # Lookup!Empty

Init ==
  /\ \E f \in Families : \E in \in f :
       /\ template = in.template /\ env = in.env
       /\ region = in.region /\ images = in.images
       /\ given = in.name \o Suffix
  /\ regionId = IF template.regionId = "unset" THEN Lookup!Empty ELSE GivenId
  /\ Prep!Init /\ Lookup!Init /\ Naming!Init

-----------------------------------------------------------------------------
Prepare == Prep!Prepare /\ UNCHANGED <<lookupVars, nameVars>>

\* Mutant: a rejected template is built as well.
ResolveRegionAnyhow ==
  /\ phase # "raw"
  /\ Lookup!Next
  /\ UNCHANGED <<prepVars, nameVars>>

ResolveRegion ==
  /\ phase = "accepted"
  /\ Lookup!Next
  /\ UNCHANGED <<prepVars, nameVars>>

RegionKnown == phase = "accepted" /\ outcome = "continue"

NameImage ==
  /\ RegionKnown /\ conf.pullImage
  /\ Naming!Next
  /\ UNCHANGED <<prepVars, lookupVars>>

\* The steps in between, and their failures, are in BuildRun.
PollVM ==
  /\ RegionKnown /\ (conf.pullImage => out # << >>)
  /\ Prep!StartPolling
  /\ UNCHANGED <<lookupVars, nameVars>>

Next == Prepare \/ ResolveRegion \/ NameImage \/ PollVM

Spec == Init /\ [][Next]_vars

-----------------------------------------------------------------------------
(***************************************************************************)
(* Properties.                                                             *)
(***************************************************************************)
(* The type invariant; nothing of a rejected template is ever acted upon.  *)
TypeOK ==
  /\ Prep!Types /\ Lookup!Types /\ Naming!Types
  /\ phase \in {"raw", "rejected"} => lookup = "step" /\ k = 0

(* A template is accepted exactly if it keeps every rule of the            *)
(* documentation, in whatever order prepare() resolves and checks its      *)
(* settings; it is then a configuration the build is written for, reaches  *)
(* the VM over the agent without a network of its own, and can make the    *)
(* build panic over nothing but its polling interval.                      *)
AcceptedIffRulesKept ==
  /\ phase # "raw" => (Prep!Accepted <=> Prep!KeepsRules(template, env))
  /\ Prep!AcceptedIsPrepared /\ Prep!AgentNeedsNoNetwork

(* client.go:271-274: the build of an accepted template goes on only with  *)
(* a region id - given, or the first the listing has for the slug in any   *)
(* spelling - and is turned down after a complete listing only if there is *)
(* none, with every region there is on offer.                              *)
RegionIsRight == Lookup!GoesOnWithRegion /\ Lookup!TurnedDownRightly

(* helpers.go:37-38: whatever the template calls the build, the image gets *)
(* a name the catalog takes: the name itself if it was one already, and    *)
(* otherwise the beginning of what it says.                                *)
ImageNameIsRight ==
  Naming!ResultInShape /\ Naming!GoodNameKept /\ Naming!ResultIsBeginning

=============================================================================
