------------------------------- MODULE Catalog -------------------------------
(***************************************************************************)
(* The resource catalog (modules/resources): resources, the metadata       *)
(* templates they are checked against, and the tree of published ones.     *)
(*                                                                         *)
(* The check of a resource's metadata reads the template, and often the    *)
(* resource, before the resource is written by statements of their own.    *)
(* Resources and templates are never deleted, and nothing calls unpublish. *)
(* Name, type, quota and training links are left out, as no property is    *)
(* about them.                                                             *)
(***************************************************************************)
EXTENDS Integers, Sequences, FiniteSets

CONSTANTS
  Editors,        \* requests being served at the same time
  Fields,         \* the names of metadata fields
  Rules,          \* what a template may ask for: fields that must be there, and
                  \* fields that must be of some form
  MaxResources,   \* bound: resources that are created
  MaxTemplates,   \* bound: templates that are created
  MaxWrites       \* bound: updates and publications

ASSUME CatalogAssumption ==
  /\ IsFiniteSet(Editors)
  /\ Rules \subseteq [required : SUBSET Fields, formed : SUBSET Fields]
  /\ MaxResources \in Nat /\ MaxTemplates \in Nat /\ MaxWrites \in Nat

VARIABLES
  resources,      \* the resources, and whether each has its tags
  templates,      \* the metadata_templates
  phase,          \* where each handler is
  work,           \* the resource, body and template a handler works with
  writes,         \* the number of updates and publications
  hadRules,       \* the rules each template has had (history)
  unchecked,      \* resources whose template came without metadata, or while
                  \* their metadata were checked against another (history)
  published       \* how often each resource was published (history)

catalogVars ==
  <<resources, templates, phase, work, writes, hadRules, unchecked, published>>

\* What metadata have for a field: nothing, something of another form, or what
\* is asked for.
Metadata == [Fields -> {"absent", "bad", "good"}]
Empty == [f \in Fields |-> "absent"]

Unknown == -2   \* an id that no row has: the database makes the ids
Keep == -1      \* a column that an update does not name
Null == 0       \* null
Body == [template : Unknown..MaxTemplates, given : BOOLEAN, metadata : Metadata,
         parent : Unknown..MaxResources, tagged : BOOLEAN]
NoBody == [template |-> Null, given |-> FALSE, metadata |-> Empty,
           parent |-> Null, tagged |-> FALSE]
NoWork == [on |-> 0, seen |-> 0, body |-> NoBody]

\* What requests bring (columns that no code relates need not change together):
\* a template, metadata or both; or a place and, at the top, a tag.
Bodies(none) ==
  {b \in Body : /\ b.parent = none /\ ~b.tagged
                /\ b.template \in {none, Null, Unknown} \cup DOMAIN templates
                /\ ~b.given => b.metadata = Empty /\ b.template # none}
    \cup {[NoBody EXCEPT !.template = none, !.parent = p, !.tagged = (p = Null)] :
            p \in {Null, Unknown} \cup DOMAIN resources}

\* validateMetadata: a missing field breaks no rule about its form.
Validates(metadata, template) ==
  /\ \A f \in template.required : metadata[f] # "absent"
  /\ \A f \in template.formed : metadata[f] # "bad"

\* The rows that are written.
NewTemplate(rules) == [rules |-> rules, version |-> 1, status |-> "draft"]
NewResource(b) == [status |-> "draft", version |-> 1, parent |-> b.parent,
  template |-> b.template, metadata |-> b.metadata, tagged |-> FALSE]
Updated(row, b) == [row EXCEPT
  !.template = IF b.template = Keep THEN @ ELSE b.template,
  !.parent = IF b.parent = Keep THEN @ ELSE b.parent,
  !.metadata = IF b.given THEN b.metadata ELSE @]
PublishedRow(row) == [row EXCEPT !.status = "published", !.version = @ + 1]

\* The resource as findById gave it to an update, and the template that its
\* metadata are checked against.
Found(r, b) == [on |-> r, seen |-> resources[r].template, body |-> b]
Effective(w) == IF w.body.template = Keep THEN w.seen ELSE w.body.template

GotoPhase(h, place, w) ==
  /\ phase' = [phase EXCEPT ![h] = place]
  /\ work' = [work EXCEPT ![h] = w]
EndEdit(h) == GotoPhase(h, "idle", NoWork)
Inserting == {h \in Editors : phase[h] = "insert"}
-------------------------------------------------------------------------------
CatalogInit ==
  /\ resources = <<>> /\ templates = <<>>
  /\ phase = [h \in Editors |-> "idle"] /\ work = [h \in Editors |-> NoWork]
  /\ writes = 0 /\ hadRules = <<>> /\ unchecked = {} /\ published = <<>>

\* POST /catalog/templates
CreateTemplate ==
  /\ Len(templates) < MaxTemplates
  /\ \E rules \in Rules :
       /\ templates' = Append(templates, NewTemplate(rules))
       /\ hadRules' = Append(hadRules, {rules})
  /\ UNCHANGED <<resources, phase, work, writes, unchecked, published>>

\* PATCH /catalog/templates/:id: resources that have it are not looked at.
UpdateTemplate ==
  /\ writes < MaxWrites /\ writes' = writes + 1
  /\ \E t \in DOMAIN templates : \E rules \in Rules :
       /\ templates' = [templates EXCEPT ![t].rules = rules]
       /\ hadRules' = [hadRules EXCEPT ![t] = @ \cup {rules}]
  /\ UNCHANGED <<resources, phase, work, unchecked, published>>

\* POST /catalog/templates/:id/publish
PublishTemplate ==
  /\ writes < MaxWrites /\ writes' = writes + 1
  /\ \E t \in DOMAIN templates :
       templates' = [templates EXCEPT ![t] = PublishedRow(@)]
  /\ UNCHANGED <<resources, phase, work, hadRules, unchecked, published>>

\* POST /catalog/resources: the metadata, if any are given, are checked against
\* the template, if one is named...
CheckNew(h) ==
  /\ phase[h] = "idle"
  /\ Len(resources) + Cardinality(Inserting) < MaxResources
  /\ \E b \in Bodies(Null) :
       /\ b.template # Unknown
       /\ (b.template # Null /\ b.given) =>
            Validates(b.metadata, templates[b.template].rules)
       /\ GotoPhase(h, "insert", [NoWork EXCEPT !.body = b])
  /\ UNCHANGED <<resources, templates, writes, hadRules, unchecked, published>>
\* ... the resource is inserted, as a draft, if its parent exists...
CreateResource(h) ==
  /\ phase[h] = "insert"
  /\ LET b == work[h].body
         new == Len(resources) + 1
     IN IF b.parent \in {Null} \cup DOMAIN resources
        THEN /\ resources' = Append(resources, NewResource(b))
             /\ published' = Append(published, 0)
             /\ unchecked' = unchecked \cup {r \in {new} : ~b.given}
             /\ IF b.tagged
                THEN GotoPhase(h, "tag", [work[h] EXCEPT !.on = new]) ELSE EndEdit(h)
        ELSE EndEdit(h) /\ UNCHANGED <<resources, published, unchecked>>
  /\ UNCHANGED <<templates, writes, hadRules>>
\* ... and then its tags.
AddTag(h) ==
  /\ phase[h] = "tag"
  /\ resources' = [resources EXCEPT ![work[h].on].tagged = TRUE]
  /\ EndEdit(h)
  /\ UNCHANGED <<templates, writes, hadRules, unchecked, published>>

\* Mutant of FindBefore: only a template that the update names is looked at.
FindBefore_Named(h) ==
  /\ phase[h] = "idle" /\ writes < MaxWrites
  /\ \E r \in DOMAIN resources, b \in Bodies(Keep) :
       LET w == Found(r, b) IN
       IF b.template \notin {Keep, Null} /\ b.given
       THEN GotoPhase(h, "check", w) ELSE GotoPhase(h, "write", w)
  /\ writes' = writes + 1
  /\ UNCHANGED <<resources, templates, hadRules, unchecked, published>>

\* PATCH /catalog/resources/:id: the resource is read for the template it has,
\* unless the update names another...
FindBefore(h) ==
  /\ phase[h] = "idle" /\ writes < MaxWrites
  /\ \E r \in DOMAIN resources, b \in Bodies(Keep) :
       LET w == Found(r, b) IN
       IF Effective(w) # Null /\ b.given
       THEN GotoPhase(h, "check", w) ELSE GotoPhase(h, "write", w)
  /\ writes' = writes + 1
  /\ UNCHANGED <<resources, templates, hadRules, unchecked, published>>
\* ... metadata that are given are checked against it, if it exists...
CheckUpdate(h) ==
  /\ phase[h] = "check"
  /\ LET t == Effective(work[h])
     IN IF t \in DOMAIN templates => Validates(work[h].body.metadata, templates[t].rules)
        THEN GotoPhase(h, "write", work[h]) ELSE EndEdit(h)
  /\ UNCHANGED <<resources, templates, writes, hadRules, unchecked, published>>
\* ... and the columns it names are written, if what they refer to exists. Any
\* resource may become the parent, the resource itself included.
Update(h) ==
  /\ phase[h] = "write"
  /\ LET b == work[h].body
         r == work[h].on
         row == resources[r]
     IN IF /\ b.template \in {Keep, Null} \cup DOMAIN templates
           /\ b.parent \in {Keep, Null} \cup DOMAIN resources
        THEN /\ resources' = [resources EXCEPT ![r] = Updated(@, b)]
             /\ unchecked' =
                  IF b.given /\ (b.template # Keep \/ row.template = work[h].seen)
                  THEN unchecked \ {r}
                  ELSE unchecked \cup {s \in {r} : b.given \/ b.template # Keep}
        ELSE UNCHANGED <<resources, unchecked>>
  /\ EndEdit(h)
  /\ UNCHANGED <<templates, writes, hadRules, published>>

\* POST /catalog/resources/:id/publish: the version is counted by the database.
Publish ==
  /\ writes < MaxWrites /\ writes' = writes + 1
  /\ \E r \in DOMAIN resources :
       /\ resources' = [resources EXCEPT ![r] = PublishedRow(@)]
       /\ published' = [published EXCEPT ![r] = @ + 1]
  /\ UNCHANGED <<templates, phase, work, hadRules, unchecked>>

\* A call throws, or the process dies: what was written stays.
FailEdit(h) ==
  /\ phase[h] # "idle"
  /\ EndEdit(h)
  /\ UNCHANGED <<resources, templates, writes, hadRules, unchecked, published>>

CatalogNext ==
  \/ CreateTemplate \/ UpdateTemplate \/ PublishTemplate \/ Publish
  \/ \E h \in Editors :
       CheckNew(h) \/ CreateResource(h) \/ AddTag(h) \/ FindBefore(h) \/ CheckUpdate(h)
         \/ Update(h) \/ FailEdit(h)

CatalogSpec == CatalogInit /\ [][CatalogNext]_catalogVars
-------------------------------------------------------------------------------
Published == {r \in DOMAIN resources : resources[r].status = "published"}

\* Mutant of Roots: only resources without a parent are roots.
Roots_Parentless == {r \in Published : resources[r].parent = Null}

\* GET /catalog/tree: a published resource is under its parent if that is
\* published, and at the top if it is not or there is none.
Roots == {r \in Published : resources[r].parent \notin Published}
Tree ==
  LET level[n \in Nat] ==
        IF n = 0 THEN Roots
        ELSE {r \in Published : resources[r].parent \in level[n - 1]}
  IN [n \in 0..Len(resources) |-> level[n]]

\* Every variable stays within its type.
Resource == [status : {"draft", "published"}, version : Nat,
             parent : 0..MaxResources, template : 0..MaxTemplates,
             metadata : Metadata, tagged : BOOLEAN]
Template == [rules : Rules, version : Nat, status : {"draft", "published"}]
Work == [on : 0..MaxResources, seen : 0..MaxTemplates, body : Body]
CatalogTypeOK ==
  /\ resources \in Seq(Resource) /\ templates \in Seq(Template)
  /\ phase \in [Editors -> {"idle", "insert", "tag", "check", "write"}]
  /\ work \in [Editors -> Work]
  /\ writes \in Nat
  /\ hadRules \in Seq(SUBSET Rules) /\ Len(hadRules) = Len(templates)
  /\ unchecked \subseteq DOMAIN resources
  /\ published \in Seq(Nat) /\ Len(published) = Len(resources)

\* The metadata of a resource fit its template as the template was at some time,
\* however updates of both overlap; only a template that came without metadata,
\* or while metadata were checked against another, is not answered for.
MetadataWereChecked ==
  /\ CatalogTypeOK
  /\ \A r \in DOMAIN resources :
       /\ resources[r].template # Null /\ r \notin unchecked =>
            \E rules \in hadRules[resources[r].template] :
              Validates(resources[r].metadata, rules)
       /\ resources[r].version = published[r] + 1

\* What is inductive: there is room for what will be inserted, what is referred
\* to exists, and metadata in hand fit the template they were checked against as
\* it was when they were.
RoomForInserts ==
  /\ Len(resources) + Cardinality(Inserting) <= MaxResources
  /\ Len(templates) <= MaxTemplates
ReferencesExist ==
  /\ \A r \in DOMAIN resources : resources[r].template \in {Null} \cup DOMAIN templates
  /\ \A t \in DOMAIN templates : templates[t].rules \in hadRules[t]
InHand(place, w) ==
  /\ place # "idle" => Effective(w) \in {Unknown, Null} \cup DOMAIN templates
  /\ place = "insert" => w.body.template \in {Null} \cup DOMAIN templates
  /\ place \in {"tag", "check", "write"} => w.on \in DOMAIN resources
  /\ place \in {"insert", "write"} /\ w.body.given /\ Effective(w) \in DOMAIN templates =>
       \E rules \in hadRules[Effective(w)] : Validates(w.body.metadata, rules)
CatalogIInv ==
  /\ MetadataWereChecked /\ RoomForInserts /\ ReferencesExist
  /\ \A h \in Editors : InHand(phase[h], work[h])

\* The tree shows each published resource, once, however parents are published,
\* moved or left as drafts; only resources whose parents lead in a circle (and
\* those under them) are in no place of it.
TreeShowsPublished ==
  \A r \in Published :
    LET lost == \E s \in SUBSET Published : r \in s /\ \A q \in s : resources[q].parent \in s
    IN Cardinality({n \in DOMAIN Tree : r \in Tree[n]}) = IF lost THEN 0 ELSE 1
===============================================================================
