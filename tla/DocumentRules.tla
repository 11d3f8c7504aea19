----------------------------- MODULE DocumentRules -----------------------------
(***************************************************************************)
(* What validate-docs.mjs demands of the documents of a working tree, and  *)
(* what check-doc-impact.mjs demands of a change of it.                    *)
(*                                                                         *)
(* t.docs maps the id of a document below docs/ to the document, and       *)
(* t.colocated that of a README below apps/, packages/ or tooling/ (that   *)
(* ids are unique is checked outside of this code, by the docs protocol).  *)
(* A document has the fields of its front matter and                       *)
(*   at, file   its directory, a sequence of names, and its name; fileId   *)
(*              and number are the id and the number the name spells       *)
(*   titled     exactly one level-one heading, and it comes first          *)
(*   sections   level-two heading -> the links below it, each <<path,      *)
(*              heading>>; "" is what precedes the first heading, or no    *)
(*              heading                                                    *)
(*   rows       the table rows with a link: [to, cells], cells a function  *)
(*              from the columns the table has                             *)
(*   anchors    sequence of [pattern, form, enforcement]: "relative" is    *)
(*              the only form of a pattern that is accepted                *)
(* and t.rootLinks are the links of the two documents of the root.         *)
(***************************************************************************)
EXTENDS Naturals, FiniteSets, SequencesExt, TLC

PathOf(d) == Append(d.at, d.file)
IndexOf(directory) == Append(directory, "README")
Links(d) == UNION Range(d.sections)

-----------------------------------------------------------------------------
(* The files of a tree.                                                    *)

PackageFiles(t) ==
    {<<Append(root, "package"), t.packages[root].manifest>> :
        root \in {r \in DOMAIN t.packages : t.packages[r].manifest.state # "missing"}}
    \union UNION {{<<root \o <<"src">> \o s.at, s>> : s \in t.packages[root].sources} :
                    root \in DOMAIN t.packages}
CatalogFiles(t) ==
    {<<<<"architecture", "package-catalog">>, t.catalog>>,
     <<<<"architecture", "package-materialization-policy">>, t.policy>>,
     <<<<"architecture", "source-dependency-policy">>, <<t.edges, t.featureEdges>>>>,
     <<<<"architecture", "reliability", "reliability-catalog">>, t.reliability>>}
DocumentFiles(t) ==
    {<<PathOf(t.docs[id]), t.docs[id]>> : id \in DOMAIN t.docs}
    \union {<<PathOf(t.colocated[id]), t.colocated[id]>> : id \in DOMAIN t.colocated}

\* A tree as git sees it: each path with its content.
Snapshot(t) == PackageFiles(t) \union CatalogFiles(t) \union DocumentFiles(t)
Paths(t) == {f[1] : f \in Snapshot(t)}

\* A README beside the code counts in a feature, or beside a manifest.
UnderFeatures(at) ==
    \E i \in 1..Len(at) : i + 1 < Len(at) /\ at[i] = "src" /\ at[i + 1] = "features"
ColocatedMarkdown(t) ==
    {id \in DOMAIN t.colocated :
        LET d == t.colocated[id] IN
        /\ d.file = "README" /\ "fixtures" \notin Range(d.at)
        /\ \/ UnderFeatures(d.at)
           \/ Append(d.at, "package") \in {f[1] : f \in PackageFiles(t)}}
GovernedMarkdown(t) ==
    [id \in DOMAIN t.docs \union ColocatedMarkdown(t) |->
        IF id \in DOMAIN t.docs THEN t.docs[id] ELSE t.colocated[id]]

-----------------------------------------------------------------------------
(* One document.                                                           *)

Filename(id, d) ==
    /\ d.type = "index" => d.file = "README"
    /\ d.type \in {"adr", "open-decision"} => d.fileId = id

ExpectedParent ==
    [type \in {"adr", "domain-standard", "open-decision", "research", "template"} |->
        CASE type = "adr" -> <<"docs", "decisions">>
          [] type = "domain-standard" -> <<"docs", "domain">>
          [] type = "open-decision" -> <<"docs", "open-decisions">>
          [] type = "research" -> <<"docs", "research">>
          [] type = "template" -> <<"docs", "templates">>]

Placement(d) ==
    /\ d.type \in DOMAIN ExpectedParent => d.at = ExpectedParent[d.type]
    /\ d.type = "bounded-context" =>
           IsStrictPrefix(<<"docs", "domain", "contexts">>, d.at) /\ d.file = "README"
    /\ d.type = "feature" =>
           /\ d.at[1] \in {"apps", "packages", "tooling"} /\ d.file = "README"
           /\ \E i \in 3..Len(d.at) :
                  i + 1 < Len(d.at) /\ d.at[i] = "src" /\ d.at[i + 1] = "features"
    /\ d.type = "glossary" => PathOf(d) = <<"docs", "glossary">>

\* What one document of a type must say, once it is accepted where noted.
RequiredHeadings(d) ==
    CASE d.type = "adr" -> {"context", "decision", "consequences"}
      [] d.type = "open-decision" -> {"resolution"}
      [] d.type = "bounded-context" /\ d.status = "accepted" ->
             {"domain vision", "scope", "ubiquitous language", "invariants and business rules",
              "aggregates and consistency boundaries", "concurrency and conflict model",
              "context relationships", "verification scenarios"}
      [] d.type = "feature" /\ d.status = "accepted" -> {"scope", "public surface", "verification"}
      [] d.type = "contract" /\ d.status = "accepted" ->
             {"owner and consumers", "machine-readable source",
              "compatibility and versioning", "conformance fixtures"}
      [] d.type = "runbook" ->
             {"scope and safety", "symptoms", "diagnosis", "recovery", "verification",
              "rollback or escalation"}
      [] OTHER -> {}
OneOfHeadings(d) ==
    CASE d.type = "adr" -> {"alternatives", "rejected alternatives"}
      [] d.type = "open-decision" ->
             {"decision required", "decisions required", "remaining questions"}
      [] OTHER -> DOMAIN d.sections
Headings(d) ==
    /\ RequiredHeadings(d) \subseteq DOMAIN d.sections
    /\ OneOfHeadings(d) = {} \/ OneOfHeadings(d) \intersect DOMAIN d.sections # {}

AdrApprovalPolicyStart == 34
AdrApproval(d) ==
    /\ d.type # "adr" \/ d.status = "proposed" => d.approval = {}
    /\ d.type = "adr" /\ d.number >= AdrApprovalPolicyStart
           /\ d.status \in {"accepted", "superseded"}
           => d.approval = {"approved_by", "accepted_at"}

AcceptablePattern(a) ==
    /\ a.form = "relative"
    /\ a.pattern # <<>> /\ ".." \notin Range(a.pattern)
    /\ a.pattern[1] \notin {"docs", ".agents"}
MatchesAnchor(path, pattern) ==
    \/ path = pattern
    \/ Last(pattern) = "**" /\ IsStrictPrefix(Front(pattern), path)
CodeAnchors(d, paths) ==
    \A i \in DOMAIN d.anchors :
        /\ AcceptablePattern(d.anchors[i])
        /\ \A j \in DOMAIN d.anchors : d.anchors[i].pattern = d.anchors[j].pattern => i = j
        /\ \E path \in paths : MatchesAnchor(path, d.anchors[i].pattern)

-----------------------------------------------------------------------------
(* Documents and each other.  `docs' are the governed ones, by id.         *)

References(id, d, docs) ==
    d.blocked_by \union d.related \union d.supersedes \union d.superseded_by
        \subseteq DOMAIN docs \ {id}

\* Mutant: a blocker may be any document.
BlockersKnown(d, docs) == d.blocked_by \subseteq d.related

Blockers(d, docs) ==
    /\ d.status = "superseded" => d.superseded_by # {}
    /\ \A b \in d.blocked_by :
           /\ b \in DOMAIN docs
           /\ docs[b].type = "open-decision" /\ docs[b].status \in {"open", "deferred"}
    /\ d.blocked_by \subseteq d.related
    /\ d.status \in {"accepted", "active"} => d.blocked_by = {}

Resolution(d, docs) ==
    LET resolver == d.resolved_by IN
    /\ resolver # "null" =>
           /\ d.type = "open-decision"
           /\ resolver \in DOMAIN docs /\ docs[resolver].type = "adr"
           /\ docs[resolver].status \in {"accepted", "superseded"}
           /\ resolver \in d.related
    /\ d.type = "open-decision" => (d.status = "resolved" <=> resolver # "null")

Supersession(id, d, docs) ==
    /\ \A old \in d.supersedes \intersect DOMAIN docs : id \in docs[old].superseded_by
    /\ \A new \in d.superseded_by \intersect DOMAIN docs : id \in docs[new].supersedes

-----------------------------------------------------------------------------
(* Links and indexes.                                                      *)

IsDirectory(path, paths) == \E p \in paths : IsStrictPrefix(path, p)
LinkTarget(path, paths) ==
    IF path \notin paths /\ IsDirectory(path, paths) THEN IndexOf(path) ELSE path

LinksResolve(t, docs) ==
    LET paths == Paths(t) IN
    \A link \in t.rootLinks \union UNION {Links(docs[id]) : id \in DOMAIN docs} :
        LET target == LinkTarget(link[1], paths) IN
        /\ target \in paths
        /\ link[2] # "" => \A id \in DOMAIN docs :
               PathOf(docs[id]) = target => link[2] \in DOMAIN docs[id].sections

LinkedIds(docs, ids, paths) ==
    LET targets == {LinkTarget(link[1], paths) : link \in UNION {Links(docs[id]) : id \in ids}}
    IN  {id \in DOMAIN docs : PathOf(docs[id]) \in targets}

\* The documents within n links of docs/README.
ReachableIds(t, docs) ==
    LET paths == Paths(t)
        within[n \in 0..Cardinality(DOMAIN docs)] ==
            IF n = 0 THEN {id \in DOMAIN docs : PathOf(docs[id]) = <<"docs", "README">>}
            ELSE LET nearer == within[n - 1] IN nearer \union LinkedIds(docs, nearer, paths)
    IN  within[Cardinality(DOMAIN docs)]

Directories(docs) ==
    UNION {{SubSeq(docs[id].at, 1, n) : n \in 1..Len(docs[id].at)} : id \in DOMAIN docs}
Below(directory, docs) == {id \in DOMAIN docs : IsPrefix(directory, docs[id].at)}

DeferredCollectionIndexes == {<<"docs", "contracts">>, <<"docs", "operations">>}
DeferredSingleDocument(directory, docs) ==
    /\ directory \in DeferredCollectionIndexes
    /\ Cardinality(Below(directory, docs)) = 1
    /\ \A id \in Below(directory, docs) : docs[id].at = directory

HasIndex(directory, docs) == \E id \in DOMAIN docs : PathOf(docs[id]) = IndexOf(directory)

\* What the index of a directory must list: its documents and its children.
RequiredTargets(directory, docs) ==
    {PathOf(docs[id]) : id \in {i \in DOMAIN docs :
                                    docs[i].at = directory /\ docs[i].file # "README"}}
    \union UNION {IF ~HasIndex(child, docs) /\ DeferredSingleDocument(child, docs)
                  THEN {PathOf(docs[id]) : id \in Below(child, docs)}
                  ELSE {IndexOf(child)} :
                      child \in {c \in Directories(docs) : Front(c) = directory}}

DirectoryIndexes(docs) ==
    LET paths == {PathOf(docs[id]) : id \in DOMAIN docs} IN
    \A directory \in Directories(docs) :
        LET required == RequiredTargets(directory, docs) IN
        IF HasIndex(directory, docs)
        THEN \A id \in {i \in DOMAIN docs : PathOf(docs[i]) = IndexOf(directory)} :
                 required # {} =>
                     /\ docs[id].type = "index"
                     /\ required \subseteq paths
                     /\ required \subseteq {link[1] : link \in Links(docs[id])}
        ELSE required = {} \/ DeferredSingleDocument(directory, docs)

ExpectedCell(id, d, column) ==
    CASE column = "id" -> id
      [] column = "owner" -> d.owner
      [] column = "primary gate" -> d.blocked_by
      [] column = "status" -> IF d.type = "open-decision" /\ d.status = "resolved"
                              THEN <<"resolved by", d.resolved_by>> ELSE <<d.status>>

IndexTables(docs) ==
    \A index \in DOMAIN docs : docs[index].type = "index" =>
        \A row \in docs[index].rows : \A id \in DOMAIN docs : PathOf(docs[id]) = row.to =>
            \A column \in DOMAIN row.cells :
                row.cells[column] = ExpectedCell(id, docs[id], column)

LifecycleSection ==
    [accepted |-> "accepted decisions", proposed |-> "proposed decisions",
     superseded |-> "superseded decisions"]
ListedUnder(d, index) ==
    {section \in Range(LifecycleSection) \intersect DOMAIN index.sections :
        \E link \in index.sections[section] : link[1] = PathOf(d)}
AdrLifecycleIndex(docs) ==
    \E index \in DOMAIN docs :
        /\ PathOf(docs[index]) = <<"docs", "decisions", "README">>
        /\ \A id \in DOMAIN docs : docs[id].type = "adr" =>
               ListedUnder(docs[id], docs[index]) = {LifecycleSection[docs[id].status]}

-----------------------------------------------------------------------------
ValidDocument(id, d, docs, paths) ==
    /\ d.titled
    /\ Filename(id, d) /\ Placement(d) /\ Headings(d) /\ AdrApproval(d)
    /\ CodeAnchors(d, paths)
    /\ References(id, d, docs) /\ Blockers(d, docs) /\ Resolution(d, docs)
    /\ Supersession(id, d, docs)

ValidDocuments(t) ==
    LET docs == GovernedMarkdown(t)
        paths == Paths(t)
    IN  /\ \A id \in DOMAIN docs : ValidDocument(id, docs[id], docs, paths)
        /\ LinksResolve(t, docs)
        /\ ReachableIds(t, docs) = DOMAIN docs
        /\ DirectoryIndexes(t.docs)
        /\ IndexTables(docs)
        /\ AdrLifecycleIndex(docs)

-----------------------------------------------------------------------------
(* The documents a change has to touch.                                    *)

\* Mutant: what is new is no change either.
ModifiedPaths(base, head) ==
    {f[1] : f \in Snapshot(head) \ Snapshot(base)} \intersect Paths(base)

\* git diff --diff-filter=ACMRTUXB base...HEAD: what was deleted is no change.
ChangedPaths(base, head) == {f[1] : f \in Snapshot(head) \ Snapshot(base)}

\* The anchors are read in the changed tree.
RequiredImpacts(docs, changed) ==
    {id \in DOMAIN docs :
        \E a \in Range(docs[id].anchors) :
            /\ a.enforcement = "required"
            /\ \E path \in changed : MatchesAnchor(path, a.pattern)}

StrictImpact(base, head) ==
    LET docs == GovernedMarkdown(head)
        changed == ChangedPaths(base, head)
    IN  \A id \in RequiredImpacts(docs, changed) : PathOf(docs[id]) \in changed
=============================================================================
