------------------------------ MODULE SingleHost -------------------------------
(***************************************************************************)
(* routeSingleHost: an analyst looks for a host, picks one, leafs through  *)
(* its autoruns and downloads them, while the analysis server imports new  *)
(* data for the hosts.                                                     *)
(*                                                                         *)
(* The server keeps nothing between two requests: what the analyst looks   *)
(* at comes back with every form, as the text of the search box, the       *)
(* hidden instance and the hidden page number.  The handler does not ask   *)
(* which button sent the form; it goes by the fields that are filled in,   *)
(* the search box first.                                                   *)
(***************************************************************************)
EXTENDS Integers, Sequences, FiniteSets

CONSTANTS
    Machines,       \* the hosts themselves, each a name in a domain
    Hosts,          \* host names
    Name,           \* Name[m]: the name of machine m, without its domain
    Lower,          \* Lower[h]: the name h in lower case
    Stamps,         \* values of instance.timestamp
    Texts,          \* what an analyst may type: host names and parts of them
    Match,          \* Match[t]: the host names with t in them
    None,           \* an empty field
    LastPage,       \* every host has autoruns for the pages 0 .. LastPage
    MaxInstances    \* bound: imports

ASSUME NamesAssumption ==
    /\ Name \in [Machines -> Hosts]
    /\ DOMAIN Lower = Hosts
    /\ Stamps \subseteq Nat

ASSUME TextsAssumption ==
    /\ Hosts \subseteq Texts /\ None \notin Texts
    /\ Match \in [Texts -> SUBSET Hosts]
    /\ \A h \in Hosts : h \in Match[h]

ASSUME PagesAssumption == LastPage \in Nat /\ MaxInstances \in Nat \ {0}

VARIABLES
    instance,   \* table "instance": the machine and timestamp of each import
    current,    \* the instances that have rows in "current_autoruns"
    pc,         \* "page": the browser shows one; else where the handler is
    view,       \* the page the browser shows
    req,        \* the posted form
    host,       \* the handler's host
    inst,       \* the handler's instanceID
    outcome,    \* how the last request ended
    file,       \* what it downloaded: the host in its name, and its instance
    edited      \* history: the page was asked for with another host's name

tables == <<instance, current>>
vars == <<instance, current, pc, view, req, host, inst, outcome, file, edited>>

Instances == 0 .. MaxInstances      \* 0 is no instance

Row == [machine : Machines, timestamp : Stamps]

Modes == {"none", "first", "next", "previous", "export"}

View ==
    [kind : {"form", "picker", "data"}, hosts : SUBSET Hosts, host : Hosts \cup {None},
     inst : Instances, page : Nat, full : BOOLEAN]

Request ==
    [text : Texts \cup {None}, host : Hosts \cup {None}, inst : Instances, mode : Modes,
     page : Nat, since : Instances]

TypeOK ==
    /\ instance \in Seq(Row) /\ Len(instance) <= MaxInstances
    /\ current \subseteq DOMAIN instance
    /\ pc \in {"page", "asked", "instance", "load"}
    /\ view \in View
    /\ req \in Request
    /\ host \in Hosts \cup {None}
    /\ inst \in Instances
    /\ outcome \in {"shown", "file", "error", "no host", "no rows"}
    /\ file \in [host : Hosts \cup {None}, inst : Instances]
    /\ edited \in BOOLEAN

FormPage == [kind |-> "form", hosts |-> {}, host |-> None, inst |-> 0, page |-> 0, full |-> FALSE]

NoForm == [text |-> None, host |-> None, inst |-> 0, mode |-> "none", page |-> 0, since |-> 0]
NoFile == [host |-> None, inst |-> 0]

Init ==
    /\ instance = <<>> /\ current = {}
    /\ pc = "page"
    /\ view = FormPage
    /\ req = NoForm
    /\ host = None /\ inst = 0
    /\ outcome = "shown"
    /\ file = NoFile
    /\ edited = FALSE

(* The names that getHosts looks through: of all that was ever imported,   *)
(* each as it was written, and once whatever the domains.                  *)
Known == {Name[instance[i].machine] : i \in DOMAIN instance}

(* How the handler ends: what it worked with is gone.                      *)
Done(v, o, f) ==
    /\ pc' = "page" /\ view' = v /\ outcome' = o /\ file' = f
    /\ req' = NoForm /\ host' = None /\ inst' = 0

--------------------------------------------------------------------------------
(* The browser.                                                            *)

(* Fault: the first page has a Previous button. *)
Buttons_AlwaysPrevious ==
    {"none"}
    \cup (IF view.full THEN {"first", "export", "previous"} ELSE {})
    \cup (IF view.full /\ view.page < LastPage THEN {"next"} ELSE {})

(* The buttons of a page of autoruns; "none" is the Search button. *)
Buttons ==
    {"none"}
    \cup (IF view.full THEN {"first", "export"} ELSE {})
    \cup (IF view.full /\ view.page > 0 THEN {"previous"} ELSE {})
    \cup (IF view.full /\ view.page < LastPage THEN {"next"} ELSE {})

Post(t, h, m) ==
    /\ req' = [text |-> t, host |-> h, inst |-> view.inst, mode |-> m, page |-> view.page,
               since |-> Len(instance)]
    /\ pc' = "asked"

(* The form: a search box. *)
SubmitForm ==
    /\ pc = "page" /\ view.kind = "form"
    /\ \E t \in Texts \cup {None} : Post(t, None, "none")
    /\ UNCHANGED <<tables, view, host, inst, outcome, file, edited>>

(* The picker: a search box, and a drop down with one host selected. *)
SubmitPicker ==
    /\ pc = "page" /\ view.kind = "picker"
    /\ \E t \in Texts \cup {None}, h \in view.hosts : Post(t, h, "none")
    /\ UNCHANGED <<tables, view, host, inst, outcome, file, edited>>

(* A page of autoruns: the search box holds the host's name, or what the   *)
(* analyst made of it.                                                     *)
SubmitData ==
    /\ pc = "page" /\ view.kind = "data"
    /\ \E t \in Texts \cup {None}, m \in Buttons :
          /\ Post(t, None, m)
          /\ edited' = (edited \/ t # view.host)
    /\ UNCHANGED <<tables, view, host, inst, outcome, file>>

(* The link of the menu: a GET, answered with the form. *)
OpenMenu ==
    /\ pc = "page"
    /\ Done(FormPage, "shown", NoFile)
    /\ UNCHANGED <<tables, edited>>

--------------------------------------------------------------------------------
(* The handler.                                                            *)

Show(v) == Done(v, "shown", NoFile)

(* An empty answer with status 500: the analyst goes back. *)
Blank(why) == Done(view, why, NoFile)

GoTo(p) ==
    /\ pc' = p
    /\ UNCHANGED <<view, outcome, file, req>>

Picker(hosts) == [FormPage EXCEPT !.kind = "picker", !.hosts = hosts]

(* Up to the host: the search box counts before the selected host.  No     *)
(* host found is an index out of range, which gin.Recovery turns into 500. *)
FindHost ==
    LET found == Match[req.text] \cap Known
    IN  /\ pc = "asked"
        /\ \/ req.text = None /\ req.host = None /\ Show(FormPage)
           \/ req.text = None /\ req.host # None /\ GoTo("instance") /\ host' = req.host
                               /\ UNCHANGED inst
           \/ req.text # None /\ Blank("error")
           \/ req.text # None /\ found = {} /\ Blank("no host")
           \/ req.text # None /\ Cardinality(found) > 1 /\ Show(Picker(found))
           \/ req.text # None /\ GoTo("instance") /\ (\E h \in found : found = {h} /\ host' = h)
                               /\ UNCHANGED inst
        /\ UNCHANGED <<tables, edited>>

(* Import i is of a machine called h, in upper or lower case and in        *)
(* whatever domain.                                                        *)
Called(i, h) == Lower[Name[instance[i].machine]] = Lower[h]

(* Those of a set of imports with the latest timestamp.                    *)
Latest(S) == {i \in S : \A j \in S : instance[j].timestamp <= instance[i].timestamp}

(* Fault: the oldest instance of the host instead of the newest. *)
Newest_Oldest(h) ==
    LET S == {i \in DOMAIN instance : Called(i, h)}
    IN  {i \in S : \A j \in S : instance[i].timestamp <= instance[j].timestamp}

(* Fault: the newest instance, of whatever host. *)
Newest_AnyHost(h) == Latest(DOMAIN instance)

(* getInstanceFromHost: LOWER(host) = LOWER(h), ORDER BY timestamp DESC,   *)
(* LIMIT 1; of several with the latest timestamp it may be any.            *)
Newest(h) == Latest({i \in DOMAIN instance : Called(i, h)})

(* Fault: the instance of the form is not looked at. *)
FindInstance_Afresh ==
    /\ pc = "instance"
    /\ inst' \in Newest(host)
    /\ GoTo("load")
    /\ edited' = (edited /\ req.inst # 0)
    /\ UNCHANGED <<tables, host>>

(* The form's instance, or the newest of the host. *)
FindInstance ==
    /\ pc = "instance"
    /\ \/ req.inst # 0 /\ inst' = req.inst /\ GoTo("load") /\ UNCHANGED <<host, edited>>
       \/ req.inst = 0 /\ inst' \in Newest(host) /\ GoTo("load") /\ edited' = FALSE
                       /\ UNCHANGED host
       \/ req.inst = 0 /\ Blank("error") /\ UNCHANGED edited
    /\ UNCHANGED tables

(* Fault: the mode is lost, every page is the first. *)
PageNumber_First == 0

(* No mode means the first page; see Turned in Paging for the others. *)
PageNumber ==
    CASE req.mode = "next" -> req.page + 1
      [] req.mode = "previous" -> req.page - 1
      [] OTHER -> 0

(* loadSingleHostAutorunsData *)
LoadPage ==
    /\ pc = "load" /\ req.mode # "export"
    /\ \/ Blank("error")
       \/ Show([kind |-> "data", hosts |-> {}, host |-> host, inst |-> inst,
                page |-> PageNumber, full |-> inst \in current])
    /\ UNCHANGED <<tables, edited>>

(* exportSingleHostAutoruns: the browser keeps its page. *)
Export ==
    /\ pc = "load" /\ req.mode = "export"
    /\ \/ Blank("error")
       \/ inst \notin current /\ Blank("no rows")
       \/ inst \in current /\ Done(view, "file", [host |-> host, inst |-> inst])
    /\ UNCHANGED <<tables, edited>>

--------------------------------------------------------------------------------
(* The analysis server: a new instance, whose rows take the place of those *)
(* of the machine's last one.  The search joins current_autoruns to        *)
(* instance without asking for the newest, so the table holds the newest   *)
(* only.  Nothing says that timestamps follow the order of the imports.    *)

Import(m) ==
    /\ Len(instance) < MaxInstances
    /\ \E time \in Stamps : instance' = Append(instance, [machine |-> m, timestamp |-> time])
    /\ current' = {i \in current : instance[i].machine # m} \cup {Len(instance) + 1}
    /\ UNCHANGED <<pc, view, req, host, inst, outcome, file, edited>>

Next ==
    \/ SubmitForm \/ SubmitPicker \/ SubmitData \/ OpenMenu
    \/ FindHost \/ FindInstance \/ LoadPage \/ Export
    \/ \E m \in Machines : Import(m)

Spec == Init /\ [][Next]_vars

--------------------------------------------------------------------------------
(* Properties                                                              *)

(* The page and the download named after a host hold the autoruns of a     *)
(* machine with that name, whatever is imported meanwhile, unless the      *)
(* analyst has changed the name in the search box of a page of autoruns.   *)
(* It may be another one of that name: a namesake in another domain, or    *)
(* one whose name is written in other cases.                               *)
NameIsTrueUnlessEdited ==
    ~edited =>
        /\ view.kind = "data" => Called(view.inst, view.host)
        /\ outcome = "file" => Called(file.inst, file.host)

(* Leafing never leaves the import it began with: the pages of a host are  *)
(* pages of one import, even while a newer one arrives.                    *)
LeafingKeepsInstance ==
    [][pc = "load" /\ req.mode \in {"next", "previous"} /\ outcome' = "shown" /\ pc' = "page"
        => view'.inst = view.inst]_vars

(* A host that was searched for or picked is shown as of an import no      *)
(* older than any there was of its name when the form was sent.            *)
EntryIsFresh ==
    [][pc = "load" /\ req.inst = 0 /\ outcome' = "shown" /\ pc' = "page"
        => \A i \in 1 .. req.since :
              Called(i, view'.host) => instance[i].timestamp <= instance[view'.inst].timestamp]_vars

(* Next is answered with the page that follows or with an error, as long   *)
(* as the box is left alone and the host's name is part of no other's.     *)
NextTurnsPage ==
    [][(/\ pc # "page" /\ pc' = "page"
        /\ req.mode = "next" /\ req.text = view.host
        /\ Match[view.host] \cap Known = {view.host})
        => outcome' = "error" \/ (view'.host = view.host /\ view'.page = view.page + 1)]_vars

(* "The Single Host view shows the current AutoRun data for a single       *)
(* host": the data shown is that of a host of the name it is shown under.  *)
NameIsTrue == view.kind = "data" => Called(view.inst, view.host)

(* "Individual AutoRun data can be downloaded": Export on a page of        *)
(* autoruns is answered with a file, unless a query fails or an import     *)
(* has replaced the page's data.                                           *)
ExportDownloads ==
    [][(pc # "page" /\ pc' = "page" /\ req.mode = "export" /\ req.text = view.host)
        => outcome' \in {"file", "error", "no rows"}]_vars
================================================================================
