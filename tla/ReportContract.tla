--------------------------- MODULE ReportContract ---------------------------
(***************************************************************************)
(* What validateReport of packages/contracts asks of a report, over reports *)
(* whose lists are functions from identifiers to records (so identifiers    *)
(* are unique), whose hashes are what sealing makes them, and whose         *)
(* geometry is a flag telling whether there is a polygon and the transforms *)
(* it cites.                                                                *)
(***************************************************************************)
EXTENDS Integers, FiniteSets, Sequences, SequencesExt, Functions

CONSTANTS None,            \* the null of the JSON
          MaxAssetTotal    \* bytes all assets may hold; one asset may hold as many

Ids(f) == DOMAIN f
Elements(seq) == Range(seq)

\* Transforms cited together exist and belong to one page.
Cites(r, transforms, page) ==
    \A t \in transforms : t \in Ids(r.transforms) /\ r.transforms[t] = page

\* Every page has its own transform, every transform a page.
PagesAgree(r) ==
    /\ r.selected \subseteq r.pages
    /\ \A p \in r.pages : <<"page", p>> \in Ids(r.transforms) /\ r.transforms[<<"page", p>>] = p
    /\ \A t \in Ids(r.transforms) : r.transforms[t] \in r.pages
    /\ \A g \in Ids(r.regions) :
            r.regions[g].page \in r.pages /\ Cites(r, r.regions[g].transforms, r.regions[g].page)

\* On a page, and only of a region of that page.
RegionOn(r, region, page) ==
    region # None => region \in Ids(r.regions) /\ r.regions[region].page = page

PlanAgrees(r) ==
    /\ Ids(r.plan) = Ids(r.checks)
    /\ \A c \in Ids(r.plan) : /\ r.plan[c].page \in r.selected
                              /\ r.plan[c].readers \subseteq r.readers
                              /\ RegionOn(r, r.plan[c].region, r.plan[c].page)

OccurrencesAgree(r) ==
    \A o \in Ids(r.occurrences) :
        LET x == r.occurrences[o]
        IN  /\ x.reader \in r.readers /\ x.page \in r.pages
            /\ Cites(r, x.transforms, x.page)
            /\ x.asset # None => x.asset \in Ids(r.assets)

\* A check keeps readings of its own page and readers, each once, and no more
\* than it produced; one that is not completed says why.
ChecksAgree(r) ==
    \A c \in Ids(r.checks) :
        LET x == r.checks[c]
        IN  /\ Elements(x.retained) \subseteq Ids(r.occurrences)
            /\ Len(x.retained) = Cardinality(Elements(x.retained))
            /\ x.produced >= Len(x.retained)
            /\ x.status # "completed" => x.reason
            /\ \A o \in Elements(x.retained) :
                    /\ r.occurrences[o].reader \in r.plan[c].readers
                    /\ r.occurrences[o].page = r.plan[c].page

\* A difference names readings of two readers, kept by completed checks it
\* cites; a unique match is placed in a region, by polygons.
EvidenceHolds(r, f) ==
    /\ f.kind = "reading_difference" =>
        /\ Cardinality({r.occurrences[o].reader : o \in f.occurrences}) >= 2
        /\ \A c \in f.checks : r.checks[c].status = "completed"
        /\ f.occurrences \subseteq UNION {Elements(r.checks[c].retained) : c \in f.checks}
    /\ f.alignment = "unique" =>
        f.region # None /\ \A o \in f.occurrences : r.occurrences[o].polygon

FindingsAgree(r) ==
    \A n \in Ids(r.findings) :
        LET f == r.findings[n]
        IN  /\ f.page \in r.pages
            /\ f.occurrences \subseteq Ids(r.occurrences) /\ f.checks \subseteq Ids(r.checks)
            /\ RegionOn(r, f.region, f.page)
            /\ \A o \in f.occurrences : r.occurrences[o].page = f.page
            /\ EvidenceHolds(r, f)

NotesAgree(r) ==
    \A n \in Ids(r.notes) :
        /\ r.notes[n].page \in r.pages
        /\ r.notes[n].finding # None =>
                /\ r.notes[n].finding \in Ids(r.findings)
                /\ r.findings[r.notes[n].finding].page = r.notes[n].page

Incomplete(r) == {c \in Ids(r.checks) : r.checks[c].status # "completed"}

StatusAgrees(r) ==
    /\ r.status = "complete" => Incomplete(r) = {}
    /\ r.status = "failed" =>
        /\ Incomplete(r) = Ids(r.checks)
        /\ \E c \in Ids(r.checks) : r.checks[c].status \in {"failed", "timeout"}
    /\ r.status = "partial" => Incomplete(r) # {}

Purposes(r) == {r.assets[a].purpose : a \in Ids(r.assets)}

SizeOf(r) == FoldFunction(LAMBDA a, total : a.size + total, 0, r.assets)

\* The bytes are what their hash says and fit; an image shows a kept page.
AssetsAgree(r) ==
    /\ \A a \in Ids(r.assets) :
        /\ r.assets[a].usable
        /\ r.assets[a].purpose \in {"crop", "page_render"} => r.assets[a].page \in r.pages
        /\ Cites(r, r.assets[a].transforms, r.assets[a].page)
    /\ SizeOf(r) <= MaxAssetTotal

\* The disclosure names what is there, and the original is bound to the document.
DisclosureAgrees(r) ==
    /\ {"document_hash", "settings", "coverage"} \subseteq r.included
    /\ Ids(r.occurrences) # {} => "selected_text" \in r.included
    /\ Ids(r.notes) # {} => "annotations" \in r.included
    /\ "page_render" \in Purposes(r) => "page_renders" \in r.included
    /\ "crop" \in Purposes(r) => "crops" \in r.included
    /\ "source_pdf" \in Purposes(r) => "source_pdf" \in r.included
    /\ r.filename <=> "filename" \in r.included
    /\ r.source # None => /\ r.source \in Ids(r.assets) /\ r.assets[r.source].bound
                          /\ r.assets[r.source].purpose = "source_pdf"
                          /\ "source_pdf" \in r.included
    /\ r.mode = "replayable" =>
        r.source # None /\ r.replay = "source_included_environment_required"
    /\ r.replay = "source_included_environment_required" => r.source # None

\* validateReport, with the references checked before what they refer to.
Valid(r) ==
    /\ PagesAgree(r) /\ PlanAgrees(r) /\ OccurrencesAgree(r) /\ ChecksAgree(r)
    /\ FindingsAgree(r) /\ NotesAgree(r) /\ StatusAgrees(r) /\ AssetsAgree(r)
    /\ DisclosureAgrees(r)
=============================================================================
