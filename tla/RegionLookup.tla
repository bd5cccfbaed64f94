------------------------------ MODULE RegionLookup ------------------------------
(***************************************************************************)
(* StepResolveRegion and Client.ResolveRegionID: the region slug of the    *)
(* template is looked up in the listing of the tenant's images, which      *)
(* carry pairs of a slug and an id, in whatever spelling, order and        *)
(* completeness the server has them.  BuildRun has the step as one action. *)
(***************************************************************************)
EXTENDS Integers, Sequences

CONSTANTS
  Slug,       \* spellings of region slugs, "" among them
  lower,      \* strings.ToLower on Slug
  trim,       \* strings.TrimSpace on Slug
  Id          \* region ids, "" (no id) among them

Empty == ""

Pair == [slug : Slug, id : Id]

SlugAssumption ==
  /\ Empty \in Slug /\ Empty \in Id
  /\ lower \in [Slug -> Slug] /\ trim \in [Slug -> Slug]
  /\ \A s \in Slug : lower[s] = Empty <=> s = Empty

VARIABLES
  region,     \* cfg.Region
  regionId,   \* cfg.RegionID
  phase,      \* "step", "list" (the call is under way), "scan", "done"
  images,     \* server: what GET /xcloud/images lists
  i,          \* images looked at
  seen,       \* folded slugs met: the regions the error message offers
  outcome     \* "none", "continue", or why the step halts

vars == <<region, regionId, phase, images, i, seen, outcome>>

Init ==
  /\ region \in Slug /\ regionId \in Id /\ images \in Seq(Pair)
  /\ phase = "step"
  /\ i = 0 /\ seen = {}
  /\ outcome = "none"

\* Mutant: the slug of the template is not trimmed.
WantedUntrimmed == lower[region]

Wanted == lower[trim[region]]

\* Mutant: an image without an id takes part in the match.
UsableWithoutId(p) == p.slug # Empty

Usable(p) == p.slug # Empty /\ p.id # Empty

Halts(reason) ==
  /\ phase' = "done" /\ outcome' = reason
  /\ UNCHANGED <<region, regionId, images, i, seen>>

-----------------------------------------------------------------------------
\* region_id was given.
NothingToDo ==
  /\ phase = "step" /\ (regionId # Empty \/ region = Empty)
  /\ phase' = "done" /\ outcome' = "continue"
  /\ UNCHANGED <<region, regionId, images, i, seen>>

BlankSlug ==
  /\ phase = "step" /\ regionId = Empty /\ region # Empty /\ Wanted = Empty
  /\ Halts("slug is empty")

ListImages ==
  /\ phase = "step" /\ regionId = Empty /\ region # Empty /\ Wanted # Empty
  /\ phase' = "list"
  /\ UNCHANGED <<region, regionId, images, i, seen, outcome>>

\* An API error, a timeout, a cancellation, a body that is no listing.
ListFails == phase = "list" /\ Halts("no listing")

\* Mutant: the scan starts at the second image.
ListedFromSecond ==
  /\ phase = "list"
  /\ phase' = "scan" /\ i' = IF images = << >> THEN 0 ELSE 1
  /\ UNCHANGED <<region, regionId, images, seen, outcome>>

Listed ==
  /\ phase = "list"
  /\ phase' = "scan"
  /\ UNCHANGED <<region, regionId, images, i, seen, outcome>>

Skip ==
  /\ phase = "scan" /\ i < Len(images) /\ ~Usable(images[i + 1])
  /\ i' = i + 1
  /\ UNCHANGED <<region, regionId, phase, images, seen, outcome>>

LookOn ==
  /\ phase = "scan" /\ i < Len(images)
  /\ Usable(images[i + 1]) /\ lower[images[i + 1].slug] # Wanted
  /\ seen' = seen \cup {lower[images[i + 1].slug]}
  /\ i' = i + 1
  /\ UNCHANGED <<region, regionId, phase, images, outcome>>

Found ==
  /\ phase = "scan" /\ i < Len(images)
  /\ Usable(images[i + 1]) /\ lower[images[i + 1].slug] = Wanted
  /\ regionId' = images[i + 1].id
  /\ phase' = "done" /\ outcome' = "continue"
  /\ i' = i + 1
  /\ UNCHANGED <<region, images, seen>>

NotFound ==
  /\ phase = "scan" /\ i = Len(images)
  /\ Halts(IF seen = {} THEN "no region visible" ELSE "not among available")

Next ==
  \/ NothingToDo \/ BlankSlug \/ ListImages
  \/ ListFails \/ Listed
  \/ Skip \/ LookOn \/ Found \/ NotFound

-----------------------------------------------------------------------------
(* The types of the variables. *)
Types ==
  /\ region \in Slug /\ regionId \in Id
  /\ phase \in {"step", "list", "scan", "done"}
  /\ images \in Seq(Pair) /\ i \in 0..Len(images)
  /\ seen \subseteq Slug
  /\ outcome \in {"none", "continue", "slug is empty", "no listing", "no region visible",
                  "not among available"}

\* An image of the region the template asks for, in any spelling.
Matches(n) == Usable(images[n]) /\ lower[images[n].slug] = lower[trim[region]]

\* A build goes on only with a region id, and, where a region was given,
\* with the id the listing has first for it.
GoesOnWithRegion ==
  outcome = "continue" =>
    /\ regionId # Empty
    /\ region # Empty =>
         \E n \in 1..Len(images) :
           /\ Matches(n) /\ images[n].id = regionId
           /\ \A m \in 1..(n - 1) : ~Matches(m)

\* It is turned down after a complete listing only if no usable image has
\* the slug, and then offered the regions of all the usable ones.
TurnedDownRightly ==
  outcome \in {"no region visible", "not among available"} =>
    /\ \A n \in 1..Len(images) : ~Matches(n)
    /\ seen = {lower[images[n].slug] : n \in {m \in 1..Len(images) : Usable(images[m])}}
    /\ outcome = "no region visible" <=> seen = {}

=============================================================================
