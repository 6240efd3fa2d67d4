----------------------------- MODULE SingleHostProofs --------------------------
(***************************************************************************)
(* Theorems of SingleHost, for any hosts, search texts and imports.        *)
(***************************************************************************)
EXTENDS SingleHost, FiniteSetTheorems, TLAPS

(* The inductive invariant: what a page offers has been imported ...       *)
Offered ==
    /\ view.hosts \subseteq Known
    /\ view.kind # "data" => view.inst = 0
    /\ view.kind = "data" => view.inst \in DOMAIN instance /\ view.host \in Known

(* ... a form says what its page said ...                                  *)
Posted ==
    pc # "page" =>
        /\ req.inst = view.inst /\ req.page = view.page
        /\ req.since <= Len(instance)
        /\ req.host # None => req.host \in Known
        /\ req.mode = "previous" => req.page > 0
        /\ req.mode # "none" => view.kind = "data"
        /\ view.kind = "data" /\ ~edited => req.text = view.host

(* ... the handler goes by the form ...                                    *)
Chosen ==
    /\ pc \in {"instance", "load"} =>
          /\ host \in Known
          /\ view.kind = "data" /\ req.text = view.host => host = view.host
    /\ pc = "load" =>
          /\ inst \in DOMAIN instance
          /\ req.inst # 0 => inst = req.inst
          /\ req.inst = 0 =>
                \A i \in 1 .. req.since :
                    Called(i, host) => instance[i].timestamp <= instance[inst].timestamp

(* ... and names are true as long as nobody edits them.                    *)
Named ==
    /\ outcome = "file" => view.kind = "data" /\ file.inst \in DOMAIN instance
    /\ ~edited =>
          /\ view.kind = "data" => Called(view.inst, view.host)
          /\ outcome = "file" => Called(file.inst, file.host)
          /\ pc = "load" => Called(inst, host)

IInv == TypeOK /\ Offered /\ Posted /\ Chosen /\ Named

LEMMA InitFine == Init => IInv
<1> SUFFICES ASSUME Init PROVE IInv
  OBVIOUS
<1> USE DEF Init, NoForm, NoFile
<1>1. 0 \in Instances /\ 0 <= MaxInstances
  BY PagesAssumption DEF Instances
<1>2. FormPage \in View
  BY <1>1 DEF FormPage, View
<1>3. req \in Request
  BY <1>1 DEF Request, Modes
<1>4. instance \in Seq(Row) /\ Len(instance) <= MaxInstances /\ current \subseteq DOMAIN instance
  BY <1>1
<1>5. TypeOK
  BY <1>1, <1>2, <1>3, <1>4 DEF TypeOK
<1>6. Offered /\ Posted /\ Chosen /\ Named
  BY DEF Offered, Posted, Chosen, Named, FormPage
<1> QED BY <1>5, <1>6 DEF IInv

(* The imports so far are numbered.                                        *)
LEMMA Numbered ==
    ASSUME TypeOK
    PROVE  /\ Len(instance) \in Nat /\ DOMAIN instance = 1 .. Len(instance)
           /\ DOMAIN instance \subseteq Instances /\ Known \subseteq Hosts
           /\ Len(instance) \in Instances /\ 0 \in Instances /\ Instances \subseteq Nat
<1>1. instance \in Seq(Row) /\ Len(instance) <= MaxInstances /\ MaxInstances \in Nat
  BY PagesAssumption DEF TypeOK
<1>2. Len(instance) \in Nat /\ DOMAIN instance = 1 .. Len(instance)
  BY <1>1
<1>3. \A i \in DOMAIN instance : Name[instance[i].machine] \in Hosts
  <2>1. \A i \in DOMAIN instance : instance[i] \in Row
    BY <1>1
  <2> QED BY <2>1, NamesAssumption DEF Row
<1> QED BY <1>1, <1>2, <1>3 DEF Known, Instances

(* The fields of forms and pages.                                          *)
LEMMA Fields ==
    ASSUME TypeOK
    PROVE  /\ view.hosts \subseteq Hosts /\ view.inst \in Instances /\ view.page \in Nat
           /\ req.since \in Nat /\ req.page \in Nat /\ req.inst \in Instances
           /\ req.mode \in Modes
<1>1. view \in View /\ req \in Request
  BY DEF TypeOK
<1> QED BY <1>1, Numbered DEF View, Request

(* getInstanceFromHost finds an import of a machine of that name, and none *)
(* of them has a later timestamp.                                          *)
LEMMA NewestFine ==
    ASSUME NEW h, NEW i \in Newest(h)
    PROVE  /\ i \in DOMAIN instance /\ Called(i, h)
           /\ \A j \in DOMAIN instance :
                 Called(j, h) => instance[j].timestamp <= instance[i].timestamp
BY DEF Newest, Latest

(* Nothing is left of a request that has been answered.                    *)
LEMMA NoFormFine ==
    ASSUME TypeOK
    PROVE  NoForm \in Request /\ NoFile \in [host : Hosts \cup {None}, inst : Instances]
BY Numbered DEF NoForm, NoFile, Request, Modes

(* How a handler may end.                                                  *)
LEMMA DoneStep ==
    ASSUME IInv, NEW v \in View, NEW o \in {"shown", "file", "error", "no host", "no rows"},
           NEW f \in [host : Hosts \cup {None}, inst : Instances],
           Done(v, o, f), UNCHANGED <<tables, edited>>,
           v.hosts \subseteq Known, v.kind # "data" => v.inst = 0,
           v.kind = "data" => /\ v.inst \in DOMAIN instance /\ v.host \in Known
                              /\ ~edited => Called(v.inst, v.host),
           o = "file" => /\ v.kind = "data" /\ f.inst \in DOMAIN instance
                         /\ ~edited => Called(f.inst, f.host)
    PROVE  IInv'
<1> USE DEF Done, tables
<1>1. UNCHANGED <<instance, Known>> /\ \A i, h : Called(i, h)' = Called(i, h)
  BY DEF Known, Called
<1>2. TypeOK'
  BY NoFormFine, Numbered DEF IInv, TypeOK
<1>3. Offered' /\ Posted' /\ Chosen' /\ Named'
  BY <1>1 DEF Offered, Posted, Chosen, Named
<1> QED BY <1>2, <1>3 DEF IInv

(* Back to the page before, with an error.                                 *)
LEMMA BlankStep ==
    ASSUME IInv, Blank("error") \/ Blank("no host") \/ Blank("no rows"),
           UNCHANGED <<tables, edited>>
    PROVE  IInv'
<1>1. PICK o \in {"error", "no host", "no rows"} : Done(view, o, NoFile)
  BY DEF Blank
<1>2. view \in View /\ NoFile \in [host : Hosts \cup {None}, inst : Instances]
  BY NoFormFine DEF IInv, TypeOK
<1> QED BY <1>1, <1>2, DoneStep DEF IInv, Offered, Named

(* On to a page without autoruns.                                          *)
LEMMA PickerStep ==
    ASSUME IInv, NEW hosts \in SUBSET Known, Show(FormPage) \/ Show(Picker(hosts)),
           UNCHANGED <<tables, edited>>
    PROVE  IInv'
<1>1. PICK v \in {FormPage, Picker(hosts)} : Done(v, "shown", NoFile)
  BY DEF Show
<1>2. PICK k \in {"form", "picker"}, hs \in SUBSET Known :
          v = [kind |-> k, hosts |-> hs, host |-> None, inst |-> 0, page |-> 0, full |-> FALSE]
  <2>1. CASE v = FormPage
    BY <2>1 DEF FormPage
  <2>2. CASE v = Picker(hosts)
    BY <2>2 DEF FormPage, Picker
  <2> QED BY <1>1, <2>1, <2>2
<1>3. v \in View
  <2>1. hs \in SUBSET Hosts /\ 0 \in Instances /\ 0 \in Nat
    BY Numbered DEF IInv
  <2> QED BY <1>2, <2>1 DEF View
<1>4. v.kind # "data" /\ v.hosts \subseteq Known /\ v.inst = 0
  BY <1>2
<1> QED BY <1>1, <1>3, <1>4, NoFormFine, DoneStep DEF IInv

----------------------------------------------------------------------------
(* Steps of the browser                                                    *)

LEMMA PostStep ==
    ASSUME IInv, pc = "page", UNCHANGED <<tables, view, host, inst, outcome, file>>,
           NEW t \in Texts \cup {None}, NEW h \in view.hosts \cup {None},
           NEW m \in Modes, Post(t, h, m), edited' \in BOOLEAN, ~edited' => ~edited,
           m = "previous" => view.page > 0,
           m # "none" => view.kind = "data",
           view.kind = "data" /\ ~edited' => t = view.host
    PROVE  IInv'
<1> USE DEF IInv, tables
<1>1. /\ view \in View /\ view.hosts \subseteq Hosts
      /\ Len(instance) \in Instances /\ view.inst \in Instances /\ view.page \in Nat
  BY Numbered, Fields DEF TypeOK
<1>2. req' \in Request
  BY <1>1 DEF Post, Request
<1>3. TypeOK'
  BY <1>2 DEF TypeOK, Post
<1>4. Offered' /\ Chosen' /\ Named'
  <2>1. Offered'
    BY DEF Offered, Known
  <2>2. Chosen'
    BY DEF Chosen, Post
  <2>3. Named'
    BY DEF Named, Post, Called
  <2> QED BY <2>1, <2>2, <2>3
<1>5. Posted'
  BY <1>1, Numbered DEF Posted, Post, Offered, Known
<1> QED BY <1>3, <1>4, <1>5

LEMMA BrowserStep ==
    ASSUME IInv, SubmitForm \/ SubmitPicker \/ SubmitData \/ OpenMenu
    PROVE  IInv'
<1>1. edited \in BOOLEAN
  BY DEF IInv, TypeOK
<1>2. CASE SubmitForm
  <2>1. PICK t \in Texts \cup {None} : Post(t, None, "none")
    BY <1>2 DEF SubmitForm
  <2> QED BY <1>1, <1>2, <2>1, PostStep DEF SubmitForm, Modes
<1>3. CASE SubmitPicker
  <2>1. PICK t \in Texts \cup {None}, h \in view.hosts : Post(t, h, "none")
    BY <1>3 DEF SubmitPicker
  <2> QED BY <1>1, <1>3, <2>1, PostStep DEF SubmitPicker, Modes
<1>4. CASE SubmitData
  <2>1. PICK t \in Texts \cup {None}, m \in Buttons :
            Post(t, None, m) /\ edited' = (edited \/ t # view.host)
    BY <1>4 DEF SubmitData
  <2>2. m \in Modes /\ (m = "previous" => view.page > 0)
    BY DEF Buttons, Modes
  <2>3. edited' \in BOOLEAN /\ (~edited' => ~edited /\ t = view.host)
    BY <1>1, <2>1
  <2>4. view.kind = "data" /\ pc = "page" /\ UNCHANGED <<tables, view, host, inst, outcome, file>>
    BY <1>4 DEF SubmitData
  <2> QED BY <2>1, <2>2, <2>3, <2>4, PostStep
<1>5. CASE OpenMenu
  BY <1>5, PickerStep DEF OpenMenu, Show
<1> QED BY <1>2, <1>3, <1>4, <1>5

----------------------------------------------------------------------------
(* Steps of the handler                                                    *)

LEMMA FindHostStep ==
    ASSUME IInv, FindHost
    PROVE  IInv'
<1> DEFINE found == Match[req.text] \cap Known
<1>1. TypeOK /\ pc = "asked" /\ UNCHANGED <<tables, edited>>
  BY DEF IInv, FindHost
<1>2. CASE Blank("error") \/ Blank("no host")
  BY <1>1, <1>2, BlankStep
<1>3. CASE Show(FormPage)
  BY <1>1, <1>3, PickerStep
<1>4. CASE Show(Picker(found))
  BY <1>1, <1>4, PickerStep
<1>5. CASE GoTo("instance")
  <2>1. /\ host' \in Known /\ UNCHANGED inst
        /\ req.text # None => found = {host'}
        /\ req.text = None => host' = req.host
    BY <1>1, <1>5 DEF FindHost, GoTo, Show, Blank, Done, IInv, Posted
  <2>2. view.kind = "data" => view.host \in Known /\ view.host \in Match[view.host]
                              /\ view.host # None
    BY <1>1, Numbered, TextsAssumption DEF IInv, Offered
  <2>3. view.kind = "data" /\ req.text = view.host => host' = view.host
    BY <2>1, <2>2
  <2>4. TypeOK'
    BY <1>1, <1>5, <2>1, Numbered DEF TypeOK, GoTo, tables
  <2> QED BY <1>1, <1>5, <2>1, <2>3, <2>4
          DEF IInv, GoTo, tables, Offered, Posted, Chosen, Named, Known, Called
<1> QED BY <1>2, <1>3, <1>4, <1>5 DEF FindHost

LEMMA FindInstanceStep ==
    ASSUME IInv, FindInstance
    PROVE  IInv'
<1>1. /\ TypeOK /\ pc = "instance" /\ host \in Known /\ UNCHANGED tables
      /\ req.inst = view.inst
  BY DEF IInv, Chosen, Posted, FindInstance
<1>2. CASE req.inst # 0 /\ inst' = req.inst /\ GoTo("load") /\ UNCHANGED <<host, edited>>
  <2>1. view.kind = "data" /\ inst' \in DOMAIN instance
    BY <1>1, <1>2 DEF IInv, Offered
  <2>2. ~edited => Called(inst', host)
    BY <1>1, <1>2, <2>1 DEF IInv, Posted, Chosen, Named
  <2>3. TypeOK'
    BY <1>1, <1>2, <2>1, Numbered DEF TypeOK, GoTo, tables
  <2> QED BY <1>1, <1>2, <2>1, <2>2, <2>3
          DEF IInv, GoTo, tables, Offered, Posted, Chosen, Named, Known, Called
<1>3. CASE req.inst = 0 /\ inst' \in Newest(host) /\ GoTo("load") /\ edited' = FALSE
           /\ UNCHANGED host
  <2>1. /\ inst' \in DOMAIN instance /\ Called(inst', host)
        /\ \A i \in DOMAIN instance :
              Called(i, host) => instance[i].timestamp <= instance[inst'].timestamp
    BY <1>3, NewestFine
  <2>2. \A i \in 1 .. req.since :
            Called(i, host) => instance[i].timestamp <= instance[inst'].timestamp
    <3>1. req.since <= Len(instance)
      BY <1>1 DEF IInv, Posted
    <3> QED BY <1>1, <2>1, <3>1, Numbered, Fields
  <2>3. view.kind # "data" /\ outcome # "file"
    <3>1. 0 \notin DOMAIN instance
      BY <1>1, Numbered
    <3> QED BY <1>1, <1>3, <3>1 DEF IInv, Offered, Named
  <2>4. TypeOK'
    BY <1>1, <1>3, <2>1, Numbered DEF TypeOK, GoTo, tables
  <2> QED BY <1>1, <1>3, <2>1, <2>2, <2>3, <2>4
          DEF IInv, GoTo, tables, Offered, Posted, Chosen, Named, Known, Called
<1>4. CASE Blank("error") /\ UNCHANGED edited
  BY <1>1, <1>4, BlankStep
<1> QED BY <1>2, <1>3, <1>4 DEF FindInstance

LEMMA LoadPageStep ==
    ASSUME IInv, LoadPage
    PROVE  IInv'
<1> DEFINE v == [kind |-> "data", hosts |-> {}, host |-> host, inst |-> inst,
                 page |-> PageNumber, full |-> inst \in current]
<1>1. /\ TypeOK /\ pc = "load" /\ UNCHANGED <<tables, edited>>
      /\ host \in Known /\ inst \in DOMAIN instance /\ (~edited => Called(inst, host))
  BY DEF IInv, Chosen, Named, LoadPage
<1>2. CASE Blank("error")
  BY <1>1, <1>2, BlankStep
<1>3. CASE Show(v)
  <2>1. PageNumber \in Nat
    <3>1. req.page \in Nat /\ (req.mode = "previous" => req.page > 0)
      BY <1>1, Fields DEF IInv, Posted
    <3> QED BY <3>1 DEF PageNumber
  <2>2. v \in View
    BY <1>1, <2>1, Numbered DEF View
  <2> HIDE DEF v
  <2>3. v.hosts = {} /\ v.kind = "data" /\ v.inst = inst /\ v.host = host
    BY DEF v
  <2> QED BY <1>1, <1>3, <2>2, <2>3, NoFormFine, DoneStep DEF Show
<1> QED BY <1>2, <1>3 DEF LoadPage

LEMMA ExportStep ==
    ASSUME IInv, Export
    PROVE  IInv'
<1> DEFINE f == [host |-> host, inst |-> inst]
<1>1. /\ TypeOK /\ pc = "load" /\ UNCHANGED <<tables, edited>>
      /\ host \in Known /\ inst \in DOMAIN instance /\ view.kind = "data"
      /\ ~edited => Called(inst, host)
  BY DEF IInv, Chosen, Posted, Named, Export
<1>2. CASE Blank("error") \/ Blank("no rows")
  BY <1>1, <1>2, BlankStep
<1>3. CASE Done(view, "file", f)
  <2>1. view \in View /\ f \in [host : Hosts \cup {None}, inst : Instances]
    BY <1>1, Numbered DEF TypeOK
  <2>2. f.host = host /\ f.inst = inst
    OBVIOUS
  <2> HIDE DEF f
  <2> QED BY <1>1, <1>3, <2>1, <2>2, DoneStep DEF IInv, Offered, Named
<1> QED BY <1>2, <1>3 DEF Export

(* An import leaves the older ones as they are.                            *)
LEMMA ImportStep ==
    ASSUME IInv, NEW m \in Machines, Import(m)
    PROVE  IInv'
<1> DEFINE n == Len(instance)
<1>1. /\ TypeOK /\ n \in Nat /\ DOMAIN instance = 1 .. n /\ n < MaxInstances
      /\ UNCHANGED <<pc, view, req, host, inst, outcome, file, edited>>
  BY Numbered DEF IInv, Import
<1>2. /\ instance' \in Seq(Row) /\ Len(instance') = n + 1 /\ DOMAIN instance' = 1 .. n + 1
      /\ \A i \in 1 .. n : instance'[i] = instance[i]
  <2>1. PICK time \in Stamps : instance' = Append(instance, [machine |-> m, timestamp |-> time])
    BY DEF Import
  <2>2. [machine |-> m, timestamp |-> time] \in Row /\ instance \in Seq(Row)
    BY <1>1 DEF TypeOK, Row
  <2> QED BY <2>1, <2>2
<1>3. /\ DOMAIN instance \subseteq DOMAIN instance' /\ Known \subseteq Known'
      /\ \A i \in DOMAIN instance : \A h : Called(i, h)' = Called(i, h)
  BY <1>1, <1>2 DEF Known, Called
<1>4. TypeOK'
  <2>1. current' \subseteq DOMAIN instance'
    <3>1. \A i \in current' : i \in current \/ i = n + 1
      <4>1. current' = {i \in current : instance[i].machine # m} \cup {n + 1}
        BY DEF Import
      <4> QED BY <4>1, Zenon
    <3>2. current \subseteq 1 .. n
      BY <1>1 DEF TypeOK
    <3>3. \A i : i \in 1 .. n \/ i = n + 1 => i \in 1 .. n + 1
      BY <1>1
    <3> QED BY <1>2, <3>1, <3>2, <3>3
  <2>2. Len(instance') <= MaxInstances
    BY <1>1, <1>2, PagesAssumption
  <2> QED BY <1>1, <1>2, <2>1, <2>2 DEF TypeOK
<1>5. Offered'
  BY <1>1, <1>3 DEF IInv, Offered
<1>6. Posted'
  <2>1. req.since \in Nat
    BY <1>1, Fields
  <2> QED BY <1>1, <1>2, <1>3, <2>1 DEF IInv, Posted
<1>7. Chosen'
  <2>1. pc = "load" => 1 .. req.since \subseteq 1 .. n
    <3>1. pc = "load" => req.since <= n
      BY <1>1 DEF IInv, Posted
    <3> QED BY <1>1, <3>1, Fields
  <2> QED BY <1>1, <1>2, <1>3, <2>1 DEF IInv, Chosen
<1>8. Named'
  BY <1>1, <1>3 DEF IInv, Named, Offered, Chosen
<1> QED BY <1>4, <1>5, <1>6, <1>7, <1>8 DEF IInv

LEMMA Inductive == IInv /\ [Next]_vars => IInv'
<1>1. CASE UNCHANGED vars
  <2>1. TypeOK' = TypeOK /\ Known' = Known
    BY <1>1 DEF vars, tables, TypeOK, Known
  <2> QED BY <1>1, <2>1 DEF vars, tables, IInv, Offered, Posted, Chosen, Named, Called
<1> QED BY <1>1, BrowserStep, FindHostStep, FindInstanceStep, LoadPageStep, ExportStep, ImportStep
        DEF Next

LEMMA Invariance == Spec => []IInv
BY InitFine, Inductive, PTL DEF Spec

----------------------------------------------------------------------------
(* The theorems                                                            *)

(* The variables keep their types: there is no page before the first, and  *)
(* a handler that looks for the newest instance finds one.                 *)
THEOREM SingleHostTypeCorrect == Spec => []TypeOK
<1>1. IInv => TypeOK
  BY DEF IInv
<1> QED BY <1>1, Invariance, PTL

(* What is shown or downloaded under a host's name is of a machine of that *)
(* name, unless the name was edited (single_host.go:62-102, 136-153).      *)
THEOREM NameIsTrueAlways == Spec => []NameIsTrueUnlessEdited
<1>1. IInv => NameIsTrueUnlessEdited
  BY DEF IInv, Named, NameIsTrueUnlessEdited
<1> QED BY <1>1, Invariance, PTL

(* No two machines have a name in common, but for upper and lower case.    *)
NamesApart == \A m, n \in Machines : Lower[Name[m]] = Lower[Name[n]] => m = n

(* If no two machines share a name, in whatever domains and cases, then    *)
(* what is shown under a name nobody edited is of the machine with exactly *)
(* that name, and that the machine is in another domain or its name only   *)
(* looks alike is ruled out.                                               *)
THEOREM OwnDataIfNamesApart ==
    ASSUME NamesApart
    PROVE  Spec => [](~edited /\ view.kind = "data" => Name[instance[view.inst].machine] = view.host)
<1>1. IInv => (~edited /\ view.kind = "data" => Name[instance[view.inst].machine] = view.host)
  <2> SUFFICES ASSUME IInv, ~edited, view.kind = "data"
               PROVE  Name[instance[view.inst].machine] = view.host
    OBVIOUS
  <2>1. /\ instance \in Seq(Row) /\ view.inst \in DOMAIN instance /\ view.host \in Known
        /\ Called(view.inst, view.host)
    BY DEF IInv, TypeOK, Offered, Named
  <2>2. PICK i \in DOMAIN instance : view.host = Name[instance[i].machine]
    BY <2>1 DEF Known
  <2>3. instance[view.inst].machine \in Machines /\ instance[i].machine \in Machines
    <3>1. instance[view.inst] \in Row /\ instance[i] \in Row
      BY <2>1, <2>2
    <3> QED BY <3>1 DEF Row
  <2>4. instance[view.inst].machine = instance[i].machine
    BY <2>1, <2>2, <2>3, NamesApart DEF NamesApart, Called
  <2> QED BY <2>2, <2>4
<1> QED BY <1>1, Invariance, PTL

(* The pages of a host are pages of one import.                            *)
THEOREM LeafingKeepsInstanceAlways == Spec => LeafingKeepsInstance
<1>1. ASSUME IInv, [Next]_vars, pc = "load", req.mode \in {"next", "previous"},
             outcome' = "shown", pc' = "page"
      PROVE  view'.inst = view.inst
  <2>1. inst = view.inst
    <3>1. view.kind = "data" /\ req.inst = view.inst /\ view.inst \in DOMAIN instance
      BY <1>1 DEF IInv, Posted, Offered
    <3>2. req.inst # 0
      BY <1>1, <3>1, Numbered DEF IInv
    <3> QED BY <1>1, <3>1, <3>2 DEF IInv, Chosen
  <2> QED BY <1>1, <2>1 DEF Next, SubmitForm, SubmitPicker, SubmitData, OpenMenu, FindHost,
             FindInstance, LoadPage, Export, Import, Show, Blank, Done, Post, GoTo, vars
<1> QED BY <1>1, Invariance, PTL DEF Spec, LeafingKeepsInstance

(* A search shows an import no older than the newest of its time.          *)
THEOREM EntryIsFreshAlways == Spec => EntryIsFresh
<1>1. ASSUME IInv, [Next]_vars, pc = "load", req.inst = 0, outcome' = "shown", pc' = "page"
      PROVE  \A i \in 1 .. req.since :
                Called(i, view'.host) => instance[i].timestamp <= instance[view'.inst].timestamp
  <2>1. \A i \in 1 .. req.since :
            Called(i, host) => instance[i].timestamp <= instance[inst].timestamp
    BY <1>1 DEF IInv, Chosen
  <2>2. (view'.host = host /\ view'.inst = inst) \/ UNCHANGED vars
    BY <1>1 DEF Next, SubmitForm, SubmitPicker, SubmitData, OpenMenu, FindHost,
             FindInstance, LoadPage, Export, Import, Show, Blank, Done, Post, GoTo
  <2> QED BY <1>1, <2>1, <2>2 DEF vars
<1> QED BY <1>1, Invariance, PTL DEF Spec, EntryIsFresh

(* Next goes on by one page of the same host, or fails, as long as the box *)
(* is left alone and no other host's name holds this one's.                *)
THEOREM NextTurnsPageAlways == Spec => NextTurnsPage
<1>1. ASSUME IInv, [Next]_vars, pc # "page", pc' = "page", req.mode = "next",
             req.text = view.host, Match[view.host] \cap Known = {view.host}
      PROVE  outcome' = "error" \/ (view'.host = view.host /\ view'.page = view.page + 1)
  <2>1. /\ view.kind = "data" /\ req.inst = view.inst /\ req.page = view.page
        /\ view.inst \in DOMAIN instance /\ view.host \in Known
    BY <1>1 DEF IInv, Posted, Offered
  <2>2. req.inst # 0 /\ req.text # None
    BY <1>1, <2>1, Numbered, TextsAssumption DEF IInv
  <2>3. CASE FindHost
    <3> DEFINE found == Match[req.text] \cap Known
    <3>1. found = {view.host}
      BY <1>1
    <3>2. Cardinality(found) = 1 /\ found # {}
      BY <3>1, FS_Singleton
    <3>3. \/ Blank("error") \/ found = {} \/ Cardinality(found) > 1 \/ GoTo("instance")
      BY <2>2, <2>3 DEF FindHost
    <3>4. Blank("error") \/ GoTo("instance")
      BY <3>2, <3>3
    <3> QED BY <1>1, <3>4 DEF GoTo, Blank, Done
  <2>4. CASE FindInstance
    BY <1>1, <2>2, <2>4 DEF FindInstance, GoTo, Blank, Done
  <2>5. CASE LoadPage
    <3>1. host = view.host /\ PageNumber = view.page + 1
      BY <1>1, <2>1, <2>5 DEF IInv, Chosen, LoadPage, PageNumber
    <3> QED BY <2>5, <3>1 DEF LoadPage, Show, Blank, Done
  <2>6. CASE Export
    BY <1>1, <2>6 DEF Export
  <2> QED BY <1>1, <2>3, <2>4, <2>5, <2>6
          DEF Next, SubmitForm, SubmitPicker, SubmitData, OpenMenu, Import, Post, vars
<1> QED BY <1>1, Invariance, PTL DEF Spec, NextTurnsPage
=============================================================================
