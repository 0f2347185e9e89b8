----------------------------- MODULE AdapterProofs -----------------------------
(***************************************************************************)
(* Proofs about the protocol adapters, for any documents with finitely     *)
(* many users and any number of retries, documents and faults: types, and  *)
(* that a pass which reports convergence leaves the daemon serving what    *)
(* its document asks for.                                                  *)
(*                                                                         *)
(* AdInv is the inductive invariant.  Planned says what a plan looks like; *)
(* Now, what the step under way has done when it is at an operation, which *)
(* holds whatever has failed before; Kept, what the record, the files and  *)
(* the daemon say of each other, which holds while no failure has gone     *)
(* unrecorded.  For each of the seven adapters it is shown that every plan *)
(* may begin, that every operation leads to the next and that a plan of    *)
(* nothing means that the document is served; then, once for all of them,  *)
(* that a failure, a crash or an edit by hand leaves what Kept says.       *)
(***************************************************************************)
EXTENDS Adapters, FiniteSetTheorems, SequenceTheorems, TLAPS

-----------------------------------------------------------------------------
(* Adapters: the inductive invariant. *)

Credentials == Nat \X Nat
Runnings == [shape : Int, users : SUBSET Credentials, egress : Nat, edited : BOOLEAN]
Records == [shape : Nat, users : SUBSET Credentials]
HostRows == [shape : Int, users : SUBSET Credentials, mark : BOOLEAN, edited : BOOLEAN,
             egress : Nat, egmark : BOOLEAN, run : Runnings, applied : Records]

\* A file that is edited is there and the adapter's, and a record is of a service.
HostOk(h) ==
    /\ h \in HostRows
    /\ h.shape >= Foreign
    /\ h.edited => h.shape \notin {NoFile, Foreign}
    /\ h.applied = NoRecord \/ h.applied.shape # NoFile

KindSteps ==
    CASE kind = "xray" -> {"write_service", "write_service_hot", "restart_service",
                           "remove_service", "write_egress", "remove_egress"}
      [] kind = "singbox" -> {"write_service", "restart_service", "remove_service",
                              "write_egress", "remove_egress"}
      [] kind = "wireguard" -> {"install", "restart", "reload", "remove"}
      [] kind = "hysteria2" -> {"install", "restart", "remove"}
      [] kind = "openvpn" -> {"install", "update_config", "sync_users", "remove"}
      [] kind = "ocserv" -> {"install", "update_config", "sync_users", "remove"}
      [] kind = "l2tp" -> {"install_configs", "update_configs", "remove_configs"}
StepRows == {<<n>> : n \in KindSteps}
                \cup {<<"add_user", c>> : c \in IF kind = "xray" THEN Credentials ELSE {}}

\* What may be left of the at most four operations of an attempt.
Rest(q) == IF q = <<>> THEN <<>> ELSE Tail(q)
Lasts(q) == {q, Rest(q), Rest(Rest(q)), Rest(Rest(Rest(q))), <<>>}

AdTypes ==
    /\ kind \in Kinds /\ desired \in Wants /\ target \in Wants
    /\ HostOk(host)
    /\ steps \in Seq(StepRows)
    /\ tries \in 0 .. MaxRetries
    /\ failed \in BOOLEAN /\ torn \in BOOLEAN /\ excused \in BOOLEAN
    /\ outcome \in Outcomes
    /\ wants \in 0 .. MaxWants /\ faults \in 0 .. MaxFaults
    /\ Idle => ops = <<>>
    /\ ~Idle => tries # 0 /\ \E q \in Apply(Head(steps), target) : ops \in Lasts(q)

-----------------------------------------------------------------------------
(* Documents and their rendering. *)

\* A rendered service has the document's shape and a user in it is somebody.
LEMMA Renderings ==
    ASSUME NEW d \in Wants, kind \in Kinds
    PROVE  /\ d.shape \in Nat \ {0} /\ d.egress \in Nat /\ d.valid \in BOOLEAN
           /\ d.service \in Services
           /\ d.users \subseteq Credentials /\ IsFiniteSet(d.users)
           /\ Rendered(d) = [shape |-> d.shape, users |-> Rendered(d).users]
           /\ Rendered(d) \in Records /\ Rendered(d).shape = d.shape
           /\ Rendered(d).users \subseteq Credentials
           /\ Rendered(d).users \ NoPasswd = Rendered(d).users
           /\ Rendered(d) # NoRecord
<1>1. /\ d.shape \in Nat \ {0} /\ d.egress \in Nat /\ d.valid \in BOOLEAN
      /\ d.service \in Services
      /\ d.users \subseteq (Nat \ {0}) \X Nat /\ IsFiniteSet(d.users)
  BY AdaptersAssumption
<1>2. /\ Usable(d.users) \subseteq d.users
      /\ <<0, 0>> \notin d.users /\ <<0, 0>> # SharedPassword /\ SharedPassword \in Credentials
  BY <1>1 DEF Usable, SharedPassword, Credentials
<1>3. \E users \in SUBSET Credentials : /\ Rendered(d) = [shape |-> d.shape, users |-> users]
                                        /\ <<0, 0>> \notin users
  <2>1. d.users \subseteq Credentials
    BY <1>1 DEF Credentials
  <2>2. kind \in AllKinds
    BY AdaptersAssumption
  <2>3. CASE kind = "hysteria2"
    <3> DEFINE us == IF Usable(d.users) = {} THEN {SharedPassword} ELSE Usable(d.users)
    <3>1. us \in SUBSET Credentials /\ <<0, 0>> \notin us
      BY <1>2, <2>1
    <3>2. Rendered(d) = [shape |-> d.shape, users |-> us]
      BY <2>3 DEF Rendered, Hysteria2Generate
    <3> HIDE DEF us
    <3> QED
      BY <3>1, <3>2
  <2>4. CASE kind \in {"xray", "singbox"}
    <3>1. Rendered(d) = [shape |-> d.shape, users |-> d.users]
      BY <2>4 DEF Rendered, XrayGenerate, SingboxGenerate
    <3> QED
      BY <1>2, <2>1, <3>1
  <2>5. CASE kind \in {"wireguard", "openvpn", "ocserv", "l2tp"}
    <3>1. Rendered(d) = [shape |-> d.shape, users |-> Usable(d.users)]
      BY <2>5 DEF Rendered, WireguardGenerate, OpenvpnRender, OcservRender, L2tpRender
    <3> QED
      BY <1>2, <2>1, <3>1
  <2> QED
    BY <2>2, <2>3, <2>4, <2>5 DEF AllKinds
<1>4. PICK users \in SUBSET Credentials : /\ Rendered(d) = [shape |-> d.shape, users |-> users]
                                          /\ <<0, 0>> \notin users
  BY <1>3
<1>5. d.users \subseteq Credentials
  BY <1>1 DEF Credentials
<1>6. users \ NoPasswd = users
  BY <1>4 DEF NoPasswd
<1>7. Rendered(d).shape = d.shape /\ Rendered(d).users = users
  BY <1>4
<1>8. NoRecord.shape = 0
  BY DEF NoRecord, NoFile
<1> QED
  BY <1>1, <1>4, <1>5, <1>6, <1>7, <1>8 DEF Records

\* What each kind renders.
LEMMA RendersUsers ==
    ASSUME NEW d \in Wants
    PROVE  /\ kind \in {"xray", "singbox"} => Rendered(d).users = d.users
           /\ kind \in {"wireguard", "openvpn", "ocserv", "l2tp"} =>
                  Rendered(d).users = Usable(d.users)
BY DEF Rendered, XrayGenerate, SingboxGenerate, WireguardGenerate, OpenvpnRender, OcservRender,
       L2tpRender

-----------------------------------------------------------------------------
(* What an operation does to the host. *)

\* The daemon has read the files as they are.
Fresh(h) == /\ h.run.shape = h.shape /\ h.run.edited = h.edited
            /\ h.run.users = h.users \ NoPasswd

\* Two hosts with the same service file or files.
SameFiles(g, h) == g.shape = h.shape /\ g.users = h.users /\ g.edited = h.edited /\ g.mark = h.mark

\* A daemon that starts has the files it finds.
LEMMA Loading ==
    ASSUME NEW h \in HostRows
    PROVE  /\ Loaded(h) \in Runnings /\ Down \in Runnings /\ NoRecord \in Records
           /\ \A r \in Runnings : [h EXCEPT !.run = r] \in HostRows
           /\ DaemonLoads(h) \in HostRows
           /\ SameFiles(DaemonLoads(h), h) /\ DaemonLoads(h).applied = h.applied
           /\ Fresh(DaemonLoads(h))
           /\ Down.shape = NoFile /\ ~Down.edited /\ Down.users = {}
<1>1. Loaded(h) \in Runnings
  BY DEF HostRows, Runnings, Loaded
<1>2. Down \in Runnings /\ NoRecord \in Records /\ Down.shape = NoFile /\ ~Down.edited /\ Down.users = {}
  BY DEF Down, NoFile, Runnings, NoRecord, Records
<1>3. \A r \in Runnings : [h EXCEPT !.run = r] \in HostRows
  BY DEF HostRows
<1>4. /\ SameFiles(DaemonLoads(h), h) /\ DaemonLoads(h).applied = h.applied
      /\ DaemonLoads(h).run = Loaded(h)
  BY DEF DaemonLoads, SameFiles, HostRows
<1>5. Fresh(DaemonLoads(h))
  BY <1>4 DEF Fresh, SameFiles, Loaded
<1> QED
  BY <1>1, <1>2, <1>3, <1>4, <1>5 DEF DaemonLoads

FileOps == {"file", "shape", "users", "passwd"}
DropOps == {"rm file", "try rm file", "rm shape", "rm users"}
MarkOps == {"mark", "rm mark"}
FilesOps == FileOps \cup DropOps \cup MarkOps
EgressOps == {"egress", "egress marker", "egress and marker", "rm egress", "rm egress marker",
              "rm egress and marker"}

\* Operations on the service's files leave daemon and record alone.
LEMMA OnlyFiles ==
    ASSUME NEW h, HostOk(h), target \in Wants, kind \in Kinds,
           NEW o \in FilesOps
    PROVE  Done(o, h) \in HostRows /\ Done(o, h).run = h.run /\ Done(o, h).applied = h.applied
<1>1. /\ target.shape \in Int /\ Rendered(target).users \in SUBSET Credentials
      /\ NoPasswd \in SUBSET Credentials /\ NoFile \in Int
  <2>1. target.shape \in Nat \ {0} /\ Rendered(target).users \subseteq Credentials
    BY Renderings
  <2>2. NoPasswd \in SUBSET Credentials /\ NoFile \in Int
    BY DEF NoPasswd, Credentials, NoFile
  <2> QED
    BY <2>1, <2>2
<1> DEFINE yes == TRUE  no == FALSE  none == NoFile  nobody == NoPasswd  shape == target.shape
           users == Rendered(target).users
<1>2. /\ Done("file", h) = [h EXCEPT !.shape = shape, !.users = users, !.edited = no]
      /\ Done("shape", h) = [h EXCEPT !.shape = shape, !.edited = no]
      /\ \A x \in {"users", "passwd"} : Done(x, h) = [h EXCEPT !.users = users]
      /\ Done("mark", h) = [h EXCEPT !.mark = yes]
      /\ \A x \in {"rm file", "try rm file"} :
            Done(x, h) = [h EXCEPT !.shape = none, !.users = nobody, !.edited = no]
      /\ Done("rm shape", h) = [h EXCEPT !.shape = none, !.edited = no]
      /\ Done("rm users", h) = [h EXCEPT !.users = nobody]
      /\ Done("rm mark", h) = [h EXCEPT !.mark = no]
  BY DEF Done
<1>3. yes = TRUE /\ no = FALSE /\ none = NoFile /\ nobody = NoPasswd /\ shape = target.shape
      /\ users = Rendered(target).users
  OBVIOUS
<1> HIDE DEF yes, no, none, nobody, shape, users
<1>4. h \in HostRows
  BY DEF HostOk
<1>5. CASE o \in {"file", "shape", "mark", "rm shape", "rm users", "rm mark"}
  <2>1. \/ Done(o, h) = [h EXCEPT !.shape = shape, !.users = users, !.edited = no]
        \/ Done(o, h) = [h EXCEPT !.shape = shape, !.edited = no]
        \/ \E m \in BOOLEAN : Done(o, h) = [h EXCEPT !.mark = m]
        \/ Done(o, h) = [h EXCEPT !.shape = none, !.edited = no]
        \/ Done(o, h) = [h EXCEPT !.users = nobody]
    BY <1>2, <1>3, <1>5
  <2> QED
    BY <1>1, <1>3, <1>4, <2>1 DEF HostRows
<1>6. CASE o \in {"users", "passwd"}
  <2>1. Done(o, h) = [h EXCEPT !.users = users]
    BY <1>2, <1>6
  <2> QED
    BY <1>1, <1>3, <1>4, <2>1 DEF HostRows
<1>7. CASE o \in {"rm file", "try rm file"}
  <2>1. Done(o, h) = [h EXCEPT !.shape = none, !.users = nobody, !.edited = no]
    BY <1>2, <1>7
  <2> QED
    BY <1>1, <1>3, <1>4, <2>1 DEF HostRows
<1> QED
  BY <1>5, <1>6, <1>7 DEF FilesOps, FileOps, DropOps, MarkOps

\* Operations on the service's files.
LEMMA FileEffects ==
    ASSUME NEW h, HostOk(h), target \in Wants, kind \in Kinds
    PROVE  /\ \A o \in FilesOps : HostOk(Done(o, h))
           /\ /\ Done("file", h).shape = target.shape /\ Done("file", h).mark = h.mark
              /\ Done("file", h).users = Rendered(target).users /\ ~Done("file", h).edited
           /\ /\ Done("shape", h).shape = target.shape /\ ~Done("shape", h).edited
              /\ Done("shape", h).users = h.users /\ Done("shape", h).mark = h.mark
           /\ \A o \in {"users", "passwd"} :
                /\ Done(o, h).users = Rendered(target).users /\ Done(o, h).shape = h.shape
                /\ Done(o, h).edited = h.edited /\ Done(o, h).mark = h.mark
           /\ \A o \in {"rm file", "try rm file"} :
                /\ Done(o, h).shape = NoFile /\ ~Done(o, h).edited
                /\ Done(o, h).users = NoPasswd /\ Done(o, h).mark = h.mark
           /\ Done("rm shape", h).shape = NoFile /\ ~Done("rm shape", h).edited
           /\ \A o \in {"rm users", "mark", "rm mark"} :
                Done(o, h).shape = h.shape /\ Done(o, h).edited = h.edited
           /\ \A o \in {"mark", "rm mark"} : Done(o, h).users = h.users
           /\ Done("mark", h).mark
           /\ \A o \in {"rm users", "users", "shape"} : Done(o, h).mark = h.mark
<1>1. /\ target.shape \in Nat \ {0} /\ Rendered(target).users \in SUBSET Credentials
      /\ NoPasswd \in SUBSET Credentials /\ NoFile \in Int /\ NoFile # Foreign /\ NoFile >= Foreign
      /\ target.shape >= Foreign /\ target.shape \notin {NoFile, Foreign} /\ target.shape \in Int
  BY Renderings DEF NoPasswd, Credentials, NoFile, Foreign
<1> DEFINE yes == TRUE  no == FALSE  none == NoFile  nobody == NoPasswd  shape == target.shape
           users == Rendered(target).users
<1>2. /\ Done("file", h) = [h EXCEPT !.shape = shape, !.users = users, !.edited = no]
      /\ Done("shape", h) = [h EXCEPT !.shape = shape, !.edited = no]
      /\ \A o \in {"users", "passwd"} : Done(o, h) = [h EXCEPT !.users = users]
      /\ Done("mark", h) = [h EXCEPT !.mark = yes]
      /\ \A o \in {"rm file", "try rm file"} :
            Done(o, h) = [h EXCEPT !.shape = none, !.users = nobody, !.edited = no]
      /\ Done("rm shape", h) = [h EXCEPT !.shape = none, !.edited = no]
      /\ Done("rm users", h) = [h EXCEPT !.users = nobody]
      /\ Done("rm mark", h) = [h EXCEPT !.mark = no]
  BY DEF Done
<1>3. yes = TRUE /\ no = FALSE /\ none = NoFile /\ nobody = NoPasswd /\ shape = target.shape
      /\ users = Rendered(target).users
  OBVIOUS
<1> HIDE DEF yes, no, none, nobody, shape, users
<1>4. h \in HostRows
  BY DEF HostOk
<1>6. /\ Done("file", h).shape = shape /\ Done("file", h).mark = h.mark
      /\ Done("file", h).users = users /\ Done("file", h).edited = no
      /\ Done("shape", h).shape = shape /\ Done("shape", h).edited = no
      /\ Done("shape", h).users = h.users /\ Done("shape", h).mark = h.mark
  BY <1>2, <1>4 DEF HostRows
<1>7. ASSUME NEW o \in {"users", "passwd"}
      PROVE  /\ Done(o, h).users = users /\ Done(o, h).shape = h.shape
             /\ Done(o, h).edited = h.edited /\ Done(o, h).mark = h.mark
  <2>1. Done(o, h) = [h EXCEPT !.users = users]
    BY <1>2
  <2> QED
    BY <1>4, <2>1 DEF HostRows
<1>8. /\ Done("rm shape", h).shape = none /\ Done("rm shape", h).edited = no
      /\ \A o \in {"rm file", "try rm file"} :
            /\ Done(o, h).shape = none /\ Done(o, h).edited = no
            /\ Done(o, h).users = nobody /\ Done(o, h).mark = h.mark
  <2>1. ASSUME NEW o \in {"rm file", "try rm file"}
        PROVE  /\ Done(o, h).shape = none /\ Done(o, h).edited = no
               /\ Done(o, h).users = nobody /\ Done(o, h).mark = h.mark
    <3>1. Done(o, h) = [h EXCEPT !.shape = none, !.users = nobody, !.edited = no]
      BY <1>2
    <3> QED
      BY <1>4, <3>1 DEF HostRows
  <2> QED
    BY <1>2, <1>4, <2>1 DEF HostRows
<1>9. /\ Done("rm users", h).shape = h.shape /\ Done("rm users", h).edited = h.edited
      /\ Done("mark", h).shape = h.shape /\ Done("mark", h).edited = h.edited
      /\ Done("rm mark", h).shape = h.shape /\ Done("rm mark", h).edited = h.edited
      /\ Done("mark", h).users = h.users /\ Done("rm mark", h).users = h.users
      /\ Done("mark", h).mark = yes /\ Done("rm users", h).mark = h.mark
  BY <1>2, <1>4 DEF HostRows
<1>10. \A o \in FilesOps : HostOk(Done(o, h))
  BY <1>1, <1>3, <1>6, <1>7, <1>8, <1>9, OnlyFiles DEF HostOk, FilesOps, FileOps, DropOps, MarkOps
<1> QED
  BY <1>3, <1>6, <1>7, <1>8, <1>9, <1>10

\* Operations on the egress rules' file.
LEMMA EgressEffects ==
    ASSUME NEW h, HostOk(h), target \in Wants, kind \in Kinds, NEW o \in EgressOps
    PROVE  /\ HostOk(Done(o, h)) /\ SameFiles(Done(o, h), h)
           /\ Done(o, h).run = h.run /\ Done(o, h).applied = h.applied
<1> DEFINE yes == TRUE  no == FALSE  zero == 0  rules == target.egress
<1>1. yes \in BOOLEAN /\ no \in BOOLEAN /\ zero \in Nat /\ rules \in Nat
  BY Renderings
<1>2. \/ \E m \in BOOLEAN : Done(o, h) = [h EXCEPT !.egmark = m]
      \/ \E e \in Nat : Done(o, h) = [h EXCEPT !.egress = e]
      \/ \E m \in BOOLEAN, e \in Nat : Done(o, h) = [h EXCEPT !.egress = e, !.egmark = m]
  <2>1. /\ Done("egress", h) = [h EXCEPT !.egress = rules]
        /\ Done("egress marker", h) = [h EXCEPT !.egmark = yes]
        /\ Done("egress and marker", h) = [h EXCEPT !.egress = rules, !.egmark = yes]
        /\ Done("rm egress", h) = [h EXCEPT !.egress = zero]
        /\ Done("rm egress marker", h) = [h EXCEPT !.egmark = no]
        /\ Done("rm egress and marker", h) = [h EXCEPT !.egress = zero, !.egmark = no]
    BY DEF Done
  <2> HIDE DEF yes, no, zero, rules
  <2> QED
    BY <1>1, <2>1 DEF EgressOps
<1> QED
  BY <1>2 DEF HostOk, HostRows, SameFiles

\* Operations on the daemon and its record.
LEMMA DaemonEffects ==
    ASSUME NEW h, HostOk(h), target \in Wants, kind \in Kinds
    PROVE  /\ \A o \in {"restart", "reload", "start", "stop", "try stop"} :
                /\ HostOk(Done(o, h)) /\ SameFiles(Done(o, h), h)
                /\ Done(o, h).applied = h.applied
           /\ \A o \in {"record", "rm applied", "try rm applied"} :
                /\ HostOk(Done(o, h)) /\ SameFiles(Done(o, h), h)
                /\ Done(o, h).run = h.run
           /\ \A o \in {"restart", "reload"} : Fresh(Done(o, h))
           /\ h.run = Down => Fresh(Done("start", h))
           /\ h.run # Down => Done("start", h).run = h.run
           /\ \A o \in {"stop", "try stop"} : Done(o, h).run = Down
           /\ Done("record", h).applied = Rendered(target)
           /\ \A o \in {"rm applied", "try rm applied"} : Done(o, h).applied = NoRecord
<1>1. h \in HostRows /\ Rendered(target) \in Records /\ Rendered(target).shape # NoFile
  BY Renderings DEF HostOk, NoFile
<1> DEFINE new == Rendered(target)  none == NoRecord  down == Down
<1>2. /\ \A o \in {"restart", "reload"} : Done(o, h) = DaemonLoads(h)
      /\ Done("start", h) = IF h.run = down THEN DaemonLoads(h) ELSE h
      /\ \A o \in {"stop", "try stop"} : Done(o, h) = [h EXCEPT !.run = down]
      /\ Done("record", h) = [h EXCEPT !.applied = new]
      /\ \A o \in {"rm applied", "try rm applied"} : Done(o, h) = [h EXCEPT !.applied = none]
  BY DEF Done
<1>3. new = Rendered(target) /\ none = NoRecord /\ down = Down /\ SameFiles(h, h)
  BY DEF SameFiles
<1> HIDE DEF new, none, down
<1>4. down \in Runnings /\ none \in Records /\ new \in Records /\ new.shape # NoFile
  BY <1>1, <1>3, Loading
<1>5. ASSUME NEW o \in {"stop", "try stop"}
      PROVE  /\ Done(o, h) \in HostRows /\ SameFiles(Done(o, h), h)
             /\ Done(o, h).applied = h.applied /\ Done(o, h).run = down
  <2>1. Done(o, h) = [h EXCEPT !.run = down]
    BY <1>2
  <2> QED
    BY <1>1, <1>4, <2>1 DEF HostRows, SameFiles
<1>6. ASSUME NEW o \in {"record", "rm applied", "try rm applied"}
      PROVE  /\ Done(o, h) \in HostRows /\ SameFiles(Done(o, h), h) /\ Done(o, h).run = h.run
             /\ Done(o, h).applied = IF o = "record" THEN new ELSE none
  <2>1. Done(o, h) = [h EXCEPT !.applied = IF o = "record" THEN new ELSE none]
    BY <1>2
  <2> QED
    BY <1>1, <1>4, <2>1 DEF HostRows, SameFiles
<1>7. ASSUME NEW o \in {"restart", "reload", "start"}
      PROVE  Done(o, h) \in HostRows /\ SameFiles(Done(o, h), h) /\ Done(o, h).applied = h.applied
  <2>1. Done(o, h) \in {DaemonLoads(h), h}
    BY <1>2
  <2>2. CASE Done(o, h) = h
    BY <1>1, <1>3, <2>2
  <2>3. CASE Done(o, h) = DaemonLoads(h)
    BY <1>1, <2>3, Loading
  <2> QED
    BY <2>1, <2>2, <2>3
<1>8. \A o \in {"restart", "reload", "start", "stop", "try stop", "record", "rm applied",
                "try rm applied"} : HostOk(Done(o, h))
  BY <1>3, <1>4, <1>5, <1>6, <1>7 DEF HostOk, SameFiles
<1> QED
  BY <1>1, <1>2, <1>3, <1>5, <1>6, <1>7, <1>8, Loading

\* The management API adds a user.
LEMMA AddEffects ==
    ASSUME NEW h, HostOk(h), Head(steps)[2] \in Credentials
    PROVE  /\ HostOk(Done("add user", h)) /\ SameFiles(Done("add user", h), h)
           /\ Done("add user", h).applied = h.applied
           /\ Done("add user", h).run.shape = h.run.shape
           /\ Done("add user", h).run.edited = h.run.edited
           /\ Done("add user", h).run.users = Added(h.run.users, Head(steps)[2])
<1>1. Done("add user", h) = [h EXCEPT !.run.users = Added(@, Head(steps)[2])]
  BY DEF Done
<1>2. h \in HostRows
  BY DEF HostOk
<1>3. Added(h.run.users, Head(steps)[2]) \in SUBSET Credentials
  BY <1>2 DEF Added, HostRows, Runnings
<1>4. [h.run EXCEPT !.users = Added(h.run.users, Head(steps)[2])] \in Runnings
  BY <1>2, <1>3 DEF HostRows, Runnings
<1>5. /\ Done("add user", h) \in HostRows /\ SameFiles(Done("add user", h), h)
      /\ Done("add user", h).applied = h.applied
      /\ Done("add user", h).run = [h.run EXCEPT !.users = Added(h.run.users, Head(steps)[2])]
  BY <1>1, <1>2, <1>4 DEF HostRows, SameFiles
<1>6. h.run \in Runnings
  BY <1>2 DEF HostRows
<1> QED
  BY <1>5, <1>6 DEF HostOk, SameFiles, Runnings

\* What a failed operation leaves behind.
LEMMA BrokenEffects ==
    ASSUME NEW h, HostOk(h), target \in Wants, kind \in Kinds, NEW o, NEW g \in Broken(o, h)
    PROVE  /\ HostOk(g) /\ g.shape = h.shape /\ g.edited = h.edited /\ g.mark = h.mark
           /\ o # "passwd" => g.users = h.users
           /\ o \notin {"restart", "start"} /\ ~(o = "reload" /\ kind = "ocserv") => g.run = h.run
           /\ g.run \in {h.run, Down}
           /\ o # "record" => g.applied = h.applied
           /\ g.applied \in {h.applied, NoRecord}
<1>1. h \in HostRows
  BY DEF HostOk
<1>2. CASE o \in {"restart", "start"} \/ (o = "reload" /\ kind = "ocserv")
  <2>1. g \in {h, [h EXCEPT !.run = Down]}
    BY <1>2 DEF Broken
  <2>2. Down \in Runnings
    BY <1>1, Loading
  <2> HIDE DEF Down
  <2>3. g.run \in {h.run, Down} /\ g.shape = h.shape /\ g.edited = h.edited /\ g.mark = h.mark
        /\ g.users = h.users /\ g.applied = h.applied /\ g \in HostRows
    BY <1>1, <2>1, <2>2 DEF HostRows
  <2> QED
    BY <1>2, <2>3 DEF HostOk
<1>3. CASE o = "record"
  <2>1. g \in {h, [h EXCEPT !.applied = NoRecord]}
    BY <1>3 DEF Broken
  <2>2. NoRecord \in Records
    BY <1>1, Loading
  <2> HIDE DEF NoRecord
  <2>3. g.applied \in {h.applied, NoRecord} /\ g.shape = h.shape /\ g.edited = h.edited
        /\ g.mark = h.mark /\ g.users = h.users /\ g.run = h.run /\ g \in HostRows
    BY <1>1, <2>1, <2>2 DEF HostRows
  <2> QED
    BY <1>3, <2>3 DEF HostOk
<1>4. CASE o = "passwd"
  <2>1. \E us \in SUBSET Credentials : g = [h EXCEPT !.users = us]
    <3>1. h.users \subseteq Credentials /\ Rendered(target).users \subseteq Credentials
      BY <1>1, Renderings DEF HostRows
    <3> DEFINE have == h.users \ NoPasswd
               wanted == Rendered(target).users
               gone == {c \in have : c[1] \notin Subjects(wanted)}
               With(add) == {c \in have : c[1] \notin Subjects(add)} \cup add
    <3>2. g \in {[h EXCEPT !.users = With(add)] : add \in SUBSET wanted}
                    \cup {[h EXCEPT !.users = With(wanted) \ r] : r \in SUBSET gone}
      BY <1>4 DEF Broken
    <3>3. \A add \in SUBSET wanted : With(add) \in SUBSET Credentials
      BY <3>1
    <3> HIDE DEF With, gone, have, wanted
    <3>4. With(wanted) \in SUBSET Credentials
      BY <3>3
    <3> QED
      BY <3>2, <3>3, <3>4
  <2> QED
    BY <1>1, <1>4, <2>1 DEF HostOk, HostRows
<1>5. CASE o \notin {"restart", "start", "record", "passwd"} /\ ~(o = "reload" /\ kind = "ocserv")
  <2>1. g = h
    BY <1>5 DEF Broken
  <2> QED
    BY <2>1
<1> QED
  BY <1>2, <1>3, <1>4, <1>5

-----------------------------------------------------------------------------
(* How far an attempt has come. *)

\* The operations that are left, by their number.
LEMMA LastOperations ==
    ASSUME NEW a, NEW b, NEW c, NEW d
    PROVE  /\ Lasts(<<a>>) = {<<a>>, <<>>}
           /\ Lasts(<<a, b>>) = {<<a, b>>, <<b>>, <<>>}
           /\ Lasts(<<a, b, c>>) = {<<a, b, c>>, <<b, c>>, <<c>>, <<>>}
           /\ Lasts(<<a, b, c, d>>) = {<<a, b, c, d>>, <<b, c, d>>, <<c, d>>, <<d>>, <<>>}
<1>1. Rest(<<>>) = <<>>
  BY DEF Rest
<1>2. Rest(<<a>>) = <<>> /\ Rest(<<b>>) = <<>> /\ Rest(<<c>>) = <<>> /\ Rest(<<d>>) = <<>>
  BY DEF Rest
<1>3. Rest(<<a, b>>) = <<b>> /\ Rest(<<b, c>>) = <<c>> /\ Rest(<<c, d>>) = <<d>>
  BY DEF Rest
<1>4. Rest(<<a, b, c>>) = <<b, c>> /\ Rest(<<b, c, d>>) = <<c, d>>
  BY DEF Rest
<1>5. Rest(<<a, b, c, d>>) = <<b, c, d>>
  BY DEF Rest
<1> QED
  BY <1>1, <1>2, <1>3, <1>4, <1>5 DEF Lasts

\* An operation has been done, and what is left are the last ones still.
LEMMA LastsShrink ==
    ASSUME NEW T, NEW q \in Seq(T), Len(q) <= 4
    PROVE  /\ q \in Lasts(q)
           /\ \A l \in Lasts(q) : l # <<>> => Tail(l) \in Lasts(q) /\ Head(l) \in T
           /\ \A l \in Lasts(q) : l \in Seq(T)
<1>1. ASSUME NEW l \in Seq(T)
      PROVE  /\ Rest(l) \in Seq(T)
             /\ l # <<>> => Len(Rest(l)) = Len(l) - 1 /\ Rest(l) = Tail(l) /\ Head(l) \in T
             /\ l = <<>> => Rest(l) = <<>>
             /\ Len(l) \in Nat /\ (Len(l) = 0 <=> l = <<>>)
  BY HeadTailProperties, EmptySeq DEF Rest
<1>2. /\ Rest(q) \in Seq(T) /\ Rest(Rest(q)) \in Seq(T) /\ Rest(Rest(Rest(q))) \in Seq(T)
      /\ Rest(Rest(Rest(Rest(q)))) = <<>>
  <2> DEFINE r == Rest(q)  rr == Rest(r)  rrr == Rest(rr)  rrrr == Rest(rrr)
  <2>1. r \in Seq(T) /\ (q # <<>> => Len(r) = Len(q) - 1) /\ (q = <<>> => r = <<>>)
    BY <1>1
  <2>2. rr \in Seq(T) /\ (r # <<>> => Len(rr) = Len(r) - 1) /\ (r = <<>> => rr = <<>>)
    BY <1>1, <2>1
  <2>3. rrr \in Seq(T) /\ (rr # <<>> => Len(rrr) = Len(rr) - 1) /\ (rr = <<>> => rrr = <<>>)
    BY <1>1, <2>2
  <2>4. rrrr \in Seq(T) /\ (rrr # <<>> => Len(rrrr) = Len(rrr) - 1) /\ (rrr = <<>> => rrrr = <<>>)
    BY <1>1, <2>3
  <2>5. /\ Len(q) \in Nat /\ Len(r) \in Nat /\ Len(rr) \in Nat /\ Len(rrr) \in Nat
        /\ Len(rrrr) \in Nat /\ (Len(rrrr) = 0 <=> rrrr = <<>>)
    BY <1>1, <2>1, <2>2, <2>3, <2>4
  <2> HIDE DEF r, rr, rrr, rrrr
  <2>6. rrrr = <<>>
    BY <2>1, <2>2, <2>3, <2>4, <2>5
  <2> QED
    BY <2>1, <2>2, <2>3, <2>6 DEF r, rr, rrr, rrrr
<1>3. \A l \in Lasts(q) : l \in Seq(T) /\ Rest(l) \in Lasts(q)
  BY <1>1, <1>2 DEF Lasts
<1> QED
  BY <1>1, <1>3 DEF Lasts

\* A step is of the adapter's, and only add_user is about a user.
LEMMA RowsOfSteps ==
    ASSUME NEW s \in StepRows, kind \in Kinds
    PROVE  /\ s[1] \in StepNames
           /\ \/ s[1] \in KindSteps /\ s[1] # "add_user"
              \/ s[1] = "add_user" /\ kind = "xray" /\ s[2] \in Credentials
<1>1. kind \in AllKinds
  BY AdaptersAssumption
<1>2. ASSUME NEW n \in KindSteps PROVE n \in StepNames /\ n # "add_user"
  <2>1. CASE kind \in {"xray", "singbox"}
    BY <1>2, <2>1 DEF KindSteps, StepNames
  <2>2. CASE kind \in {"wireguard", "hysteria2"}
    BY <1>2, <2>2 DEF KindSteps, StepNames
  <2>3. CASE kind \in {"openvpn", "ocserv", "l2tp"}
    BY <1>2, <2>3 DEF KindSteps, StepNames
  <2> QED
    BY <1>1, <2>1, <2>2, <2>3 DEF AllKinds
<1>3. ASSUME NEW n \in KindSteps, s = <<n>> PROVE s[1] \in KindSteps
  BY <1>3
<1>4. ASSUME kind = "xray", NEW c \in Credentials, s = <<"add_user", c>>
      PROVE  s[1] = "add_user" /\ s[2] \in Credentials
  BY <1>4
<1>5. (\E n \in KindSteps : s = <<n>>) \/ (kind = "xray" /\ \E c \in Credentials : s = <<"add_user", c>>)
  BY DEF StepRows
<1> QED
  BY <1>2, <1>3, <1>4, <1>5 DEF StepNames

\* The attempts at xray's steps.
LEMMA XrayAttempts ==
    ASSUME kind = "xray", NEW s, NEW d
    PROVE  /\ s[1] = "write_service" => Apply(s, d) = {<<"file", "restart", "record">>}
           /\ s[1] = "write_service_hot" => Apply(s, d) = {<<"file", "record">>}
           /\ s[1] = "restart_service" => Apply(s, d) = {<<"restart", "record">>}
           /\ s[1] = "remove_service" => Apply(s, d) = {<<"rm applied", "rm file", "restart">>}
           /\ s[1] = "write_egress" => Apply(s, d) = {<<"egress and marker", "restart">>}
           /\ s[1] = "remove_egress" => Apply(s, d) = {<<"rm egress and marker", "restart">>}
           /\ s[1] = "add_user" => Apply(s, d) = {<<"add user">>}
BY DEF Apply, XrayApply

\* Where singbox's attempts at its steps begin.
LEMMA SingboxAttempts ==
    ASSUME kind = "singbox", NEW s, NEW d
    PROVE  /\ s[1] = "write_service" => Apply(s, d) = {<<"file", "mark", "restart", "record">>}
           /\ s[1] = "restart_service" => Apply(s, d) = {<<"restart", "record">>}
           /\ s[1] = "remove_service" =>
                  Apply(s, d) = {<<"rm file", "rm mark", "rm applied", "restart">>}
           /\ s[1] = "write_egress" => Apply(s, d) = {<<"egress", "egress marker", "restart">>}
           /\ s[1] = "remove_egress" => Apply(s, d) = {<<"rm egress", "rm egress marker", "restart">>}
BY DEF Apply, SingboxApply

\* The same for wireguard and hysteria2.
LEMMA TunnelAttempts ==
    ASSUME kind \in {"wireguard", "hysteria2"}, NEW s, NEW d
    PROVE  /\ s[1] \in {"install", "restart"} =>
                  Apply(s, d) = IF kind = "wireguard" THEN {<<"stop", "file", "start", "record">>}
                                ELSE {<<"file", "restart", "record">>}
           /\ s[1] = "reload" /\ kind = "wireguard" => Apply(s, d) = {<<"file", "reload", "record">>}
           /\ s[1] = "remove" => Apply(s, d) = {<<"stop", "rm file", "try rm applied">>}
BY DEF Apply, WireguardApply, Hysteria2Apply

\* The same for openvpn and ocserv.
LEMMA LoginAttempts ==
    ASSUME kind \in {"openvpn", "ocserv"}, NEW s, NEW d
    PROVE  /\ s[1] = "install" =>
                  Apply(s, d) = IF kind = "openvpn" THEN {<<"users", "mark", "shape", "restart">>}
                                ELSE {<<"shape", "passwd", "restart">>}
           /\ s[1] = "update_config" =>
                  Apply(s, d) = IF kind = "openvpn" THEN {<<"shape", "restart">>}
                                ELSE {<<"shape", "reload">>}
           /\ s[1] = "sync_users" =>
                  Apply(s, d) = IF kind = "openvpn" THEN {<<"users", "mark">>} ELSE {<<"passwd">>}
           /\ s[1] = "remove" =>
                  Apply(s, d) = IF kind = "openvpn" THEN {<<"stop", "rm shape", "rm mark", "rm users">>}
                                ELSE {<<"stop", "rm shape", "rm users">>}
BY DEF Apply, OpenvpnApply, OcservApply

\* The same for l2tp, whose files come in either order.
LEMMA L2tpAttempts ==
    ASSUME kind = "l2tp", NEW s, NEW d \in Wants
    PROVE  /\ s[1] = "install_configs" =>
                  Apply(s, d) = IF d.valid THEN {<<"shape", "users", "start">>, <<"users", "shape", "start">>}
                                ELSE {<<"parse">>}
           /\ s[1] = "update_configs" =>
                  Apply(s, d) = IF d.valid THEN {<<"shape", "users", "start", "restart">>,
                                                 <<"users", "shape", "start", "restart">>}
                                ELSE {<<"parse">>}
           /\ s[1] = "remove_configs" => Apply(s, d) = {<<"try stop", "try rm file">>}
<1>1. d.valid \in BOOLEAN
  BY AdaptersAssumption
<1>2. Apply(s, d) = L2tpApply(s, d)
  BY DEF Apply
<1>3. CASE d.valid
  BY <1>2, <1>3 DEF L2tpApply
<1>4. CASE ~d.valid
  BY <1>2, <1>4 DEF L2tpApply
<1> QED
  BY <1>1, <1>3, <1>4

\* The operations that are not about one user.
Plain == Operations \ {"add user"}

\* An attempt has one to four operations.
LEMMA Attempts ==
    ASSUME kind \in Kinds, NEW s \in StepRows, NEW d \in Wants
    PROVE  /\ Apply(s, d) # {}
           /\ \A q \in Apply(s, d) :
                \/ q \in Seq(Plain) /\ q # <<>> /\ Len(q) <= 4
                \/ s[1] = "add_user" /\ q = <<"add user">>
<1> DEFINE Few(q) == q \in Seq(Plain) /\ q # <<>> /\ Len(q) <= 4
<1>2. kind \in AllKinds
  BY AdaptersAssumption
<1> HIDE DEF Few
<1>3. ASSUME kind = "xray", s[1] # "add_user" PROVE Apply(s, d) # {} /\ \A q \in Apply(s, d) : Few(q)
  <2>1. s[1] \in {"write_service", "write_service_hot", "restart_service", "remove_service",
                  "write_egress", "remove_egress"}
    BY <1>3, RowsOfSteps DEF KindSteps
  <2>2. Apply(s, d) # {} /\ Apply(s, d) \subseteq
            {<<"file", "restart", "record">>,
                        <<"file", "record">>,
                        <<"restart", "record">>,
                        <<"rm applied", "rm file", "restart">>,
                        <<"egress and marker", "restart">>,
                        <<"rm egress and marker", "restart">>}
    <3> DEFINE A == Apply(s, d)
    <3>1. \/ A = {<<"file", "restart", "record">>}
          \/ A = {<<"file", "record">>}
          \/ A = {<<"restart", "record">>}
          \/ A = {<<"rm applied", "rm file", "restart">>}
          \/ A = {<<"egress and marker", "restart">>}
          \/ A = {<<"rm egress and marker", "restart">>}
      BY <1>3, <2>1, XrayAttempts
    <3> HIDE DEF A
    <3>2. \E q : A = {q} /\ q \in
            {<<"file", "restart", "record">>,
                        <<"file", "record">>,
                        <<"restart", "record">>,
                        <<"rm applied", "rm file", "restart">>,
                        <<"egress and marker", "restart">>,
                        <<"rm egress and marker", "restart">>}
      BY <3>1
    <3> QED
      BY <3>2 DEF A
  <2>3. /\ Few(<<"file", "restart", "record">>)
        /\ Few(<<"file", "record">>)
        /\ Few(<<"restart", "record">>)
        /\ Few(<<"rm applied", "rm file", "restart">>)
        /\ Few(<<"egress and marker", "restart">>)
        /\ Few(<<"rm egress and marker", "restart">>)
    <3>1. Few(<<"file", "restart", "record">>)
      BY DEF Few, Plain, Operations
    <3>2. Few(<<"file", "record">>)
      BY DEF Few, Plain, Operations
    <3>3. Few(<<"restart", "record">>)
      BY DEF Few, Plain, Operations
    <3>4. Few(<<"rm applied", "rm file", "restart">>)
      BY DEF Few, Plain, Operations
    <3>5. Few(<<"egress and marker", "restart">>)
      BY DEF Few, Plain, Operations
    <3>6. Few(<<"rm egress and marker", "restart">>)
      BY DEF Few, Plain, Operations
    <3> QED
      BY <3>1, <3>2, <3>3, <3>4, <3>5, <3>6
  <2> QED
    BY <2>2, <2>3
<1>4. ASSUME kind = "singbox" PROVE Apply(s, d) # {} /\ \A q \in Apply(s, d) : Few(q)
  <2>1. s[1] \in {"write_service", "restart_service", "remove_service", "write_egress",
                  "remove_egress"}
    BY <1>4, RowsOfSteps DEF KindSteps
  <2>2. Apply(s, d) # {} /\ Apply(s, d) \subseteq
            {<<"file", "mark", "restart", "record">>,
                        <<"restart", "record">>,
                        <<"rm file", "rm mark", "rm applied", "restart">>,
                        <<"egress", "egress marker", "restart">>,
                        <<"rm egress", "rm egress marker", "restart">>}
    BY <1>4, <2>1, SingboxAttempts
  <2>3. /\ Few(<<"file", "mark", "restart", "record">>)
        /\ Few(<<"restart", "record">>)
        /\ Few(<<"rm file", "rm mark", "rm applied", "restart">>)
        /\ Few(<<"egress", "egress marker", "restart">>)
        /\ Few(<<"rm egress", "rm egress marker", "restart">>)
    <3>1. Few(<<"file", "mark", "restart", "record">>)
      BY DEF Few, Plain, Operations
    <3>2. Few(<<"restart", "record">>)
      BY DEF Few, Plain, Operations
    <3>3. Few(<<"rm file", "rm mark", "rm applied", "restart">>)
      BY DEF Few, Plain, Operations
    <3>4. Few(<<"egress", "egress marker", "restart">>)
      BY DEF Few, Plain, Operations
    <3>5. Few(<<"rm egress", "rm egress marker", "restart">>)
      BY DEF Few, Plain, Operations
    <3> QED
      BY <3>1, <3>2, <3>3, <3>4, <3>5
  <2> QED
    BY <2>2, <2>3
<1>5. ASSUME kind = "wireguard" PROVE Apply(s, d) # {} /\ \A q \in Apply(s, d) : Few(q)
  <2>1. s[1] \in {"install", "restart", "reload", "remove"}
    BY <1>5, RowsOfSteps DEF KindSteps
  <2>2. Apply(s, d) # {} /\ Apply(s, d) \subseteq
            {<<"stop", "file", "start", "record">>,
                        <<"file", "reload", "record">>,
                        <<"stop", "rm file", "try rm applied">>}
    BY <1>5, <2>1, TunnelAttempts
  <2>3. /\ Few(<<"stop", "file", "start", "record">>)
        /\ Few(<<"file", "reload", "record">>)
        /\ Few(<<"stop", "rm file", "try rm applied">>)
    <3>1. Few(<<"stop", "file", "start", "record">>)
      BY DEF Few, Plain, Operations
    <3>2. Few(<<"file", "reload", "record">>)
      BY DEF Few, Plain, Operations
    <3>3. Few(<<"stop", "rm file", "try rm applied">>)
      BY DEF Few, Plain, Operations
    <3> QED
      BY <3>1, <3>2, <3>3
  <2> QED
    BY <2>2, <2>3
<1>6. ASSUME kind = "hysteria2" PROVE Apply(s, d) # {} /\ \A q \in Apply(s, d) : Few(q)
  <2>1. s[1] \in {"install", "restart", "remove"}
    BY <1>6, RowsOfSteps DEF KindSteps
  <2>2. Apply(s, d) # {} /\ Apply(s, d) \subseteq
            {<<"file", "restart", "record">>,
                        <<"stop", "rm file", "try rm applied">>}
    BY <1>6, <2>1, TunnelAttempts
  <2>3. /\ Few(<<"file", "restart", "record">>)
        /\ Few(<<"stop", "rm file", "try rm applied">>)
    <3>1. Few(<<"file", "restart", "record">>)
      BY DEF Few, Plain, Operations
    <3>2. Few(<<"stop", "rm file", "try rm applied">>)
      BY DEF Few, Plain, Operations
    <3> QED
      BY <3>1, <3>2
  <2> QED
    BY <2>2, <2>3
<1>7. ASSUME kind = "openvpn" PROVE Apply(s, d) # {} /\ \A q \in Apply(s, d) : Few(q)
  <2>1. s[1] \in {"install", "update_config", "sync_users", "remove"}
    BY <1>7, RowsOfSteps DEF KindSteps
  <2>2. Apply(s, d) # {} /\ Apply(s, d) \subseteq
            {<<"users", "mark", "shape", "restart">>,
                        <<"shape", "restart">>,
                        <<"users", "mark">>,
                        <<"stop", "rm shape", "rm mark", "rm users">>}
    BY <1>7, <2>1, LoginAttempts
  <2>3. /\ Few(<<"users", "mark", "shape", "restart">>)
        /\ Few(<<"shape", "restart">>)
        /\ Few(<<"users", "mark">>)
        /\ Few(<<"stop", "rm shape", "rm mark", "rm users">>)
    <3>1. Few(<<"users", "mark", "shape", "restart">>)
      BY DEF Few, Plain, Operations
    <3>2. Few(<<"shape", "restart">>)
      BY DEF Few, Plain, Operations
    <3>3. Few(<<"users", "mark">>)
      BY DEF Few, Plain, Operations
    <3>4. Few(<<"stop", "rm shape", "rm mark", "rm users">>)
      BY DEF Few, Plain, Operations
    <3> QED
      BY <3>1, <3>2, <3>3, <3>4
  <2> QED
    BY <2>2, <2>3
<1>8. ASSUME kind = "ocserv" PROVE Apply(s, d) # {} /\ \A q \in Apply(s, d) : Few(q)
  <2>1. s[1] \in {"install", "update_config", "sync_users", "remove"}
    BY <1>8, RowsOfSteps DEF KindSteps
  <2>2. Apply(s, d) # {} /\ Apply(s, d) \subseteq
            {<<"shape", "passwd", "restart">>,
                        <<"shape", "reload">>,
                        <<"passwd">>,
                        <<"stop", "rm shape", "rm users">>}
    <3> DEFINE A == Apply(s, d)
    <3>1. \/ A = {<<"shape", "passwd", "restart">>}
          \/ A = {<<"shape", "reload">>}
          \/ A = {<<"passwd">>}
          \/ A = {<<"stop", "rm shape", "rm users">>}
      BY <1>8, <2>1, LoginAttempts
    <3> HIDE DEF A
    <3>2. \E q : A = {q} /\ q \in
            {<<"shape", "passwd", "restart">>,
                        <<"shape", "reload">>,
                        <<"passwd">>,
                        <<"stop", "rm shape", "rm users">>}
      BY <3>1
    <3> QED
      BY <3>2 DEF A
  <2>3. /\ Few(<<"shape", "passwd", "restart">>)
        /\ Few(<<"shape", "reload">>)
        /\ Few(<<"passwd">>)
        /\ Few(<<"stop", "rm shape", "rm users">>)
    <3>1. Few(<<"shape", "passwd", "restart">>)
      BY DEF Few, Plain, Operations
    <3>2. Few(<<"shape", "reload">>)
      BY DEF Few, Plain, Operations
    <3>3. Few(<<"passwd">>)
      BY DEF Few, Plain, Operations
    <3>4. Few(<<"stop", "rm shape", "rm users">>)
      BY DEF Few, Plain, Operations
    <3> QED
      BY <3>1, <3>2, <3>3, <3>4
  <2> QED
    BY <2>2, <2>3
<1>9. ASSUME kind = "l2tp" PROVE Apply(s, d) # {} /\ \A q \in Apply(s, d) : Few(q)
  <2>1. s[1] \in {"install_configs", "update_configs", "remove_configs"}
    BY <1>9, RowsOfSteps DEF KindSteps
  <2>2. Apply(s, d) # {} /\ Apply(s, d) \subseteq
            {<<"shape", "users", "start">>,
                        <<"users", "shape", "start">>,
                        <<"parse">>,
                        <<"shape", "users", "start", "restart">>,
                        <<"users", "shape", "start", "restart">>,
                        <<"try stop", "try rm file">>}
    BY <1>9, <2>1, L2tpAttempts
  <2>3. /\ Few(<<"shape", "users", "start">>)
        /\ Few(<<"users", "shape", "start">>)
        /\ Few(<<"parse">>)
        /\ Few(<<"shape", "users", "start", "restart">>)
        /\ Few(<<"users", "shape", "start", "restart">>)
        /\ Few(<<"try stop", "try rm file">>)
    <3>1. Few(<<"shape", "users", "start">>)
      BY DEF Few, Plain, Operations
    <3>2. Few(<<"users", "shape", "start">>)
      BY DEF Few, Plain, Operations
    <3>3. Few(<<"parse">>)
      BY DEF Few, Plain, Operations
    <3>4. Few(<<"shape", "users", "start", "restart">>)
      BY DEF Few, Plain, Operations
    <3>5. Few(<<"users", "shape", "start", "restart">>)
      BY DEF Few, Plain, Operations
    <3>6. Few(<<"try stop", "try rm file">>)
      BY DEF Few, Plain, Operations
    <3> QED
      BY <3>1, <3>2, <3>3, <3>4, <3>5, <3>6
  <2> QED
    BY <2>2, <2>3
<1>10. CASE s[1] = "add_user"
  <2>1. kind = "xray"
    BY <1>2, <1>10, RowsOfSteps DEF KindSteps, AllKinds
  <2>2. Apply(s, d) = {<<"add user">>}
    BY <1>10, <2>1, XrayAttempts
  <2> QED
    BY <1>10, <2>2
<1>11. CASE s[1] # "add_user"
  <2>1. Apply(s, d) # {} /\ \A q \in Apply(s, d) : Few(q)
    BY <1>2, <1>3, <1>4, <1>5, <1>6, <1>7, <1>8, <1>9, <1>11 DEF AllKinds
  <2> QED
    BY <2>1 DEF Few
<1> QED
  BY <1>10, <1>11

-----------------------------------------------------------------------------
(* The plans. *)

EgressPlans == {<<>>, <<<<"write_egress">>>>, <<<<"remove_egress">>>>}

\* The service's part of xray's plan, and the egress rules' part.
LEMMA XrayPlans ==
    ASSUME kind \in Kinds, kind = "xray", NEW d \in Wants, NEW h, Plan(d, h) # Refused
    PROVE  /\ d.users = Usable(d.users)
           /\ \E p, e : Plan(d, h) = p \o e /\ e \in EgressPlans /\
                \/ p = <<>> /\ d.service # "on" /\ ~XrayManaged(h)
                \/ p = <<>> /\ d.service = "on" /\ d.valid /\ SameFile(d, h) /\ h.applied = Rendered(d)
                \/ p = <<<<"remove_service">>>> /\ d.service # "on" /\ XrayManaged(h)
                \/ p = <<<<"restart_service">>>> /\ d.service = "on" /\ SameFile(d, h)
                \/ p = <<<<"write_service">>>> /\ d.service = "on" /\ ~additive(d, h)
                \/ p = AddAll(d.users) \o <<<<"write_service_hot">>>>
                        /\ d.service = "on" /\ additive(d, h) /\ ~SameFile(d, h)
<1>1. d.shape \in Nat \ {0} /\ d.valid \in BOOLEAN /\ d.service \in Services
  BY AdaptersAssumption
<1>2. PICK p : /\ XrayPlan(d, h) = WithEgress(p, d, h)
               /\ p = (CASE d.users # Usable(d.users) \/ (d.service = "on" /\ ~XrayRenders(d)) -> Refused
                 [] d.service # "on" /\ d.users = Usable(d.users) ->
                        Step("remove_service", XrayManaged(h))
                 [] d.service = "on" /\ XrayRenders(d) /\ h.shape = NoFile -> <<<<"write_service">>>>
                 [] d.service = "on" /\ h.shape = Foreign -> Refused
                 [] d.service = "on" /\ XrayRenders(d) /\ SameFile(d, h) ->
                        IF h.applied = Rendered(d) THEN <<>> ELSE <<<<"restart_service">>>>
                 [] OTHER -> IF additive(d, h)
                             THEN AddAll(d.users) \o <<<<"write_service_hot">>>>
                             ELSE <<<<"write_service">>>>)
  BY DEF XrayPlan
<1>3. Plan(d, h) = WithEgress(p, d, h)
  BY <1>2 DEF Plan
<1>4. p # Refused /\ planEgress(d, h) # Refused /\ Plan(d, h) = p \o planEgress(d, h)
  BY <1>3 DEF WithEgress
<1>5. planEgress(d, h) \in EgressPlans
  BY <1>4 DEF planEgress, EgressPlans
<1>6. d.users = Usable(d.users) /\ (d.service = "on" => XrayRenders(d))
  BY <1>2, <1>4 DEF XrayRenders
<1>7. h.shape = NoFile => ~additive(d, h) /\ h.shape # Foreign
  BY <1>1 DEF additive, NoFile, Foreign
<1>8. \/ p = <<>> /\ d.service # "on" /\ ~XrayManaged(h)
      \/ p = <<>> /\ d.service = "on" /\ d.valid /\ SameFile(d, h) /\ h.applied = Rendered(d)
      \/ p = <<<<"remove_service">>>> /\ d.service # "on" /\ XrayManaged(h)
      \/ p = <<<<"restart_service">>>> /\ d.service = "on" /\ SameFile(d, h)
      \/ p = <<<<"write_service">>>> /\ d.service = "on" /\ ~additive(d, h)
      \/ p = AddAll(d.users) \o <<<<"write_service_hot">>>>
              /\ d.service = "on" /\ additive(d, h) /\ ~SameFile(d, h)
  <2>1. CASE d.service # "on"
    <3>1. p = Step("remove_service", XrayManaged(h))
      BY <1>2, <1>6, <2>1
    <3> QED
      BY <2>1, <3>1 DEF Step
  <2>2. CASE d.service = "on"
    <3>1. d.valid /\ XrayRenders(d)
      BY <1>6, <2>2 DEF XrayRenders
    <3>2. CASE h.shape = NoFile
      <4>1. p = <<<<"write_service">>>>
        <5>1. SameFile(d, h) => h.shape = d.shape
          BY Renderings DEF SameFile, Content
        <5> QED
          BY <1>1, <1>2, <1>6, <1>7, <2>2, <3>1, <3>2, <5>1 DEF NoFile
      <4> QED
        BY <1>7, <2>2, <3>2, <4>1
    <3>3. CASE h.shape # NoFile
      <4>1. h.shape # Foreign
        <5>1. SameFile(d, h) => h.shape # Foreign
          BY <1>1, Renderings DEF SameFile, Content, Foreign
        <5> QED
          BY <1>2, <1>4, <1>6, <2>2, <3>1, <3>3, <5>1
      <4>2. CASE SameFile(d, h)
        <5>1. p = IF h.applied = Rendered(d) THEN <<>> ELSE <<<<"restart_service">>>>
          BY <1>2, <1>6, <2>2, <3>1, <3>3, <4>1, <4>2
        <5> QED
          BY <2>2, <3>1, <4>2, <5>1
      <4>3. CASE ~SameFile(d, h)
        <5>1. p = IF additive(d, h) THEN AddAll(d.users) \o <<<<"write_service_hot">>>>
                  ELSE <<<<"write_service">>>>
          BY <1>2, <1>6, <2>2, <3>1, <3>3, <4>1, <4>3
        <5> QED
          BY <2>2, <4>3, <5>1
      <4> QED
        BY <4>2, <4>3
    <3> QED
      BY <3>2, <3>3
  <2> QED
    BY <2>1, <2>2
<1> QED
  BY <1>4, <1>5, <1>6, <1>8

\* Whatever singbox plans is one of these.
LEMMA SingboxPlans ==
    ASSUME kind \in Kinds, kind = "singbox", NEW d \in Wants, NEW h, Plan(d, h) # Refused
    PROVE  /\ d.users = Usable(d.users)
           /\ \E p, e : Plan(d, h) = p \o e /\ e \in EgressPlans /\
                \/ p = <<>> /\ d.service # "on" /\ ~SingboxManaged(h)
                \/ p = <<>> /\ d.service = "on" /\ d.valid /\ SameFile(d, h) /\ h.applied = Rendered(d)
                \/ p = <<<<"remove_service">>>> /\ d.service # "on" /\ SingboxManaged(h)
                \/ p = <<<<"restart_service">>>> /\ d.service = "on" /\ SameFile(d, h) /\ h.mark
                \/ p = <<<<"write_service">>>> /\ d.service = "on"
<1>1. d.shape \in Nat \ {0} /\ d.valid \in BOOLEAN /\ d.service \in Services
  BY AdaptersAssumption
<1>2. PICK p : /\ SingboxPlan(d, h) = WithEgress(p, d, h)
               /\ p = (CASE d.users # Usable(d.users) \/ (d.service = "on" /\ ~SingboxRenders(d)) -> Refused
                  [] d.service # "on" /\ d.users = Usable(d.users) ->
                         Step("remove_service", SingboxManaged(h))
                  [] d.service = "on" /\ h.shape # NoFile /\ ~SingboxManaged(h) -> Refused
                  [] d.service = "on" /\ SingboxRenders(d) /\ SameFile(d, h) /\ h.mark ->
                         IF h.applied = Rendered(d) THEN <<>> ELSE <<<<"restart_service">>>>
                  [] OTHER -> <<<<"write_service">>>>)
  BY DEF SingboxPlan
<1>3. Plan(d, h) = WithEgress(p, d, h)
  BY <1>2 DEF Plan
<1>4. p # Refused /\ planEgress(d, h) # Refused /\ Plan(d, h) = p \o planEgress(d, h)
  BY <1>3 DEF WithEgress
<1>5. planEgress(d, h) \in EgressPlans
  BY <1>4 DEF planEgress, EgressPlans
<1>6. d.users = Usable(d.users) /\ (d.service = "on" => SingboxRenders(d))
  BY <1>2, <1>4 DEF SingboxRenders
<1>7. \/ p = <<>> /\ d.service # "on" /\ ~SingboxManaged(h)
      \/ p = <<>> /\ d.service = "on" /\ d.valid /\ SameFile(d, h) /\ h.applied = Rendered(d)
      \/ p = <<<<"remove_service">>>> /\ d.service # "on" /\ SingboxManaged(h)
      \/ p = <<<<"restart_service">>>> /\ d.service = "on" /\ SameFile(d, h) /\ h.mark
      \/ p = <<<<"write_service">>>> /\ d.service = "on"
  <2>1. CASE d.service # "on"
    <3>1. p = Step("remove_service", SingboxManaged(h))
      BY <1>2, <1>6, <2>1
    <3> QED
      BY <2>1, <3>1 DEF Step
  <2>2. CASE d.service = "on"
    <3>1. d.valid /\ SingboxRenders(d)
      BY <1>6, <2>2 DEF SingboxRenders
    <3>2. SameFile(d, h) => h.shape # NoFile
      BY <1>1, Renderings DEF SameFile, Content, NoFile
    <3>3. ~(h.shape # NoFile /\ ~SingboxManaged(h))
      BY <1>2, <1>4, <1>6, <2>2, <3>1, <3>2 DEF SingboxManaged
    <3>4. CASE SameFile(d, h) /\ h.mark
      <4>1. p = IF h.applied = Rendered(d) THEN <<>> ELSE <<<<"restart_service">>>>
        BY <1>2, <1>6, <2>2, <3>1, <3>3, <3>4
      <4> QED
        BY <2>2, <3>1, <3>4, <4>1
    <3>5. CASE ~(SameFile(d, h) /\ h.mark)
      <4>1. p = <<<<"write_service">>>>
        BY <1>2, <1>6, <2>2, <3>1, <3>3, <3>5
      <4> QED
        BY <2>2, <4>1
    <3> QED
      BY <3>4, <3>5
  <2> QED
    BY <2>1, <2>2
<1> QED
  BY <1>4, <1>5, <1>6, <1>7

\* Whatever wireguard plans is one of these.
LEMMA WireguardPlans ==
    ASSUME kind \in Kinds, kind = "wireguard", NEW d \in Wants, NEW h
    PROVE  \/ Plan(d, h) = <<>> /\ d.service = "none" /\ ~WireguardSeen(h)
           \/ Plan(d, h) = <<>> /\ ~d.valid
           \/ Plan(d, h) = <<>> /\ d.service # "none" /\ SameFile(d, h) /\ h.applied = Rendered(d)
           \/ Plan(d, h) = <<<<"remove">>>> /\ d.service = "none"
           \/ Plan(d, h) = <<<<"install">>>>
           \/ Plan(d, h) = <<<<"restart">>>>
           \/ Plan(d, h) = <<<<"reload">>>>
<1>1. d.valid \in BOOLEAN /\ d.service \in Services /\ Plan(d, h) = WireguardPlan(d, h)
  BY AdaptersAssumption DEF Plan
<1>2. CASE d.service = "none"
  <2>1. WireguardPlan(d, h) = Step("remove", WireguardSeen(h))
    BY <1>2 DEF WireguardPlan
  <2> QED
    BY <1>1, <1>2, <2>1 DEF Step
<1>3. CASE d.service # "none" /\ ~d.valid
  BY <1>1, <1>3 DEF WireguardPlan
<1>4. CASE d.service # "none" /\ d.valid
  BY <1>1, <1>4 DEF WireguardPlan
<1> QED
  BY <1>1, <1>2, <1>3, <1>4

\* Whatever hysteria2 plans is one of these.
LEMMA Hysteria2Plans ==
    ASSUME kind \in Kinds, kind = "hysteria2", NEW d \in Wants, NEW h
    PROVE  \/ Plan(d, h) = <<>> /\ d.service = "none" /\ ~Hysteria2Seen(h)
           \/ Plan(d, h) = <<>> /\ ~d.valid
           \/ Plan(d, h) = <<>> /\ d.service # "none" /\ SameFile(d, h) /\ h.applied = Rendered(d)
           \/ Plan(d, h) = <<<<"remove">>>> /\ d.service = "none"
           \/ Plan(d, h) = <<<<"install">>>>
           \/ Plan(d, h) = <<<<"restart">>>>
<1>1. d.valid \in BOOLEAN /\ d.service \in Services /\ Plan(d, h) = Hysteria2Plan(d, h)
  BY AdaptersAssumption DEF Plan
<1>2. CASE d.service = "none"
  <2>1. Hysteria2Plan(d, h) = Step("remove", Hysteria2Seen(h))
    BY <1>2 DEF Hysteria2Plan
  <2> QED
    BY <1>1, <1>2, <2>1 DEF Step
<1>3. CASE d.service # "none" /\ ~d.valid
  BY <1>1, <1>3 DEF Hysteria2Plan
<1>4. CASE d.service # "none" /\ d.valid
  BY <1>1, <1>4 DEF Hysteria2Plan
<1> QED
  BY <1>1, <1>2, <1>3, <1>4

\* openvpn's and ocserv's files are the adapter's own.
Managed(h) == IF kind = "openvpn" THEN OpenvpnManaged(h) ELSE OcservManaged(h)

\* Two steps in a row.
LEMMA Pairs ==
    ASSUME NEW a, NEW b
    PROVE  <<a>> \o <<b>> = <<a, b>>
<1>1. <<a>> \in Seq({a, b}) /\ <<b>> \in Seq({a, b}) /\ <<a, b>> \in Seq({a, b})
      /\ Len(<<a>>) = 1 /\ Len(<<b>>) = 1 /\ Len(<<a, b>>) = 2
      /\ <<a>>[1] = a /\ <<b>>[1] = b /\ <<a, b>>[1] = a /\ <<a, b>>[2] = b
  OBVIOUS
<1> DEFINE s == <<a>> \o <<b>>  u == <<a>>  v == <<b>>  w == <<a, b>>
<1> HIDE DEF u, v, w
<1>2. s = u \o v
  BY DEF u, v
<1> HIDE DEF s
<1>3. s \in Seq({a, b}) /\ Len(s) = Len(u) + Len(v)
      /\ \A i \in 1 .. Len(u) + Len(v) : s[i] = IF i <= Len(u) THEN u[i] ELSE v[i - Len(u)]
  BY <1>1, <1>2, ConcatProperties DEF u, v
<1>4. Len(s) = 2 /\ s[1] = a /\ s[2] = b
  BY <1>1, <1>3 DEF u, v
<1>5. w \in Seq({a, b}) /\ Len(w) = 2 /\ w[1] = a /\ w[2] = b
  BY <1>1 DEF w
<1>6. \A i \in 1 .. Len(s) : s[i] = w[i]
  BY <1>4, <1>5
<1>7. \A x, y \in Seq({a, b}) : Len(x) = Len(y) /\ (\A i \in 1 .. Len(x) : x[i] = y[i]) => x = y
  BY SeqEqual
<1>8. s = w
  BY <1>3, <1>4, <1>5, <1>6, <1>7
<1> QED
  BY <1>8 DEF s, w

\* Whatever openvpn and ocserv plan is one of these.
LEMMA LoginPlans ==
    ASSUME kind \in {"openvpn", "ocserv"}, NEW d \in Wants, NEW h, Plan(d, h) # Refused
    PROVE  \/ Plan(d, h) = <<>> /\ d.service # "on" /\ ~Managed(h)
           \/ Plan(d, h) = <<>> /\ d.service = "on" /\ ~Managed(h) /\ h.shape # NoFile
           \/ /\ Plan(d, h) = <<>> /\ d.service = "on" /\ Managed(h) /\ h.shape = d.shape
              /\ kind = "openvpn" => h.users = Usable(d.users)
              /\ kind = "ocserv" => Subjects(h.users \ NoPasswd) = Subjects(Usable(d.users))
           \/ Plan(d, h) = <<<<"remove">>>> /\ d.service # "on" /\ Managed(h)
           \/ Plan(d, h) = <<<<"install">>>> /\ d.service = "on"
           \/ Plan(d, h) = <<<<"update_config">>>> /\ d.service = "on" /\ Managed(h)
           \/ Plan(d, h) = <<<<"update_config">>, <<"sync_users">>>> /\ d.service = "on" /\ Managed(h)
           \/ Plan(d, h) = <<<<"sync_users">>>> /\ d.service = "on" /\ Managed(h) /\ h.shape = d.shape
<1> DEFINE stale == IF kind = "openvpn" THEN h.users # Usable(d.users)
                    ELSE Subjects(h.users \ NoPasswd) # Subjects(Usable(d.users))
           both == Step("update_config", h.shape # d.shape) \o Step("sync_users", stale)
<1>1. d.valid \in BOOLEAN /\ d.service \in Services
  BY AdaptersAssumption
<1>2. Plan(d, h) = IF d.service # "on" THEN Step("remove", Managed(h))
                   ELSE IF h.shape = NoFile THEN IF d.valid THEN <<<<"install">>>> ELSE Refused
                   ELSE IF ~Managed(h) THEN <<>> ELSE IF ~d.valid THEN Refused ELSE both
  <2>1. CASE kind = "openvpn"
    BY <1>1, <2>1 DEF Plan, OpenvpnPlan, Managed
  <2>2. CASE kind = "ocserv"
    BY <1>1, <2>2 DEF Plan, OcservPlan, Managed
  <2> QED
    BY <2>1, <2>2
<1>3. both = IF h.shape # d.shape
             THEN IF stale THEN <<<<"update_config">>, <<"sync_users">>>> ELSE <<<<"update_config">>>>
             ELSE IF stale THEN <<<<"sync_users">>>> ELSE <<>>
  <2>1. \A a, b : <<a>> \o <<b>> = <<a, b>>
    BY Pairs
  <2>2. \A a : <<a>> \o <<>> = <<a>> /\ <<>> \o <<a>> = <<a>>
    OBVIOUS
  <2>3. <<>> \o <<>> = <<>>
    OBVIOUS
  <2> QED
    BY <2>1, <2>2, <2>3 DEF Step
<1> HIDE DEF both, stale
<1>4. stale \in BOOLEAN
  BY DEF stale
<1>5. ~stale => /\ kind = "openvpn" => h.users = Usable(d.users)
                /\ kind = "ocserv" => Subjects(h.users \ NoPasswd) = Subjects(Usable(d.users))
  BY DEF stale
<1>6. CASE d.service # "on"
  BY <1>2, <1>6 DEF Step
<1>7. CASE d.service = "on"
  BY <1>2, <1>3, <1>4, <1>5, <1>7
<1> QED
  BY <1>6, <1>7

\* Whatever l2tp plans is one of these.
LEMMA L2tpPlans ==
    ASSUME kind = "l2tp", NEW d \in Wants, NEW h, Plan(d, h) # Refused
    PROVE  \/ Plan(d, h) = <<>> /\ d.service # "on" /\ L2tpFiles(h) = {}
           \/ Plan(d, h) = <<<<"remove_configs">>>> /\ d.service # "on"
           \/ Plan(d, h) = <<<<"install_configs">>>> /\ d.service = "on"
           \/ Plan(d, h) = <<<<"update_configs">>>> /\ d.service = "on"
<1>1. d.valid \in BOOLEAN /\ d.service \in Services
  BY AdaptersAssumption
<1>2. L2tpChecksum("whole", Rendered(d)) # L2tpChecksum("body", h)
  BY DEF L2tpChecksum
<1>3. CASE d.service # "on"
  BY <1>1, <1>3 DEF Plan, L2tpPlan, Step
<1>4. CASE d.service = "on" /\ L2tpFiles(h) = {}
  BY <1>1, <1>4 DEF Plan, L2tpPlan
<1>5. CASE d.service = "on" /\ L2tpFiles(h) # {}
  BY <1>1, <1>2, <1>5 DEF Plan, L2tpPlan, Step
<1> QED
  BY <1>3, <1>4, <1>5

-----------------------------------------------------------------------------
(* AddAll. *)

\* SetToSeq of a finite set lists its members, each once.
LEMMA Listing ==
    ASSUME NEW S, IsFiniteSet(S)
    PROVE  /\ SetToSeq(S) \in Seq(S)
           /\ Len(SetToSeq(S)) = Cardinality(S)
           /\ \A x \in S : \E i \in 1 .. Len(SetToSeq(S)) : SetToSeq(S)[i] = x
<1>1. Cardinality(S) \in Nat /\ Bijection(1 .. Cardinality(S), S) # {}
  BY FS_CardinalityType DEF ExistsBijection
<1>2. \E f \in [1 .. Cardinality(S) -> S] : IsInjective(f)
  BY <1>1 DEF Bijection, Injection
<1>3. SetToSeq(S) \in [1 .. Cardinality(S) -> S] /\ IsInjective(SetToSeq(S))
  BY <1>2 DEF SetToSeq
<1>4. SetToSeq(S) \in Injection(1 .. Cardinality(S), S)
  BY <1>3 DEF Injection
<1>5. IsFiniteSet(1 .. Cardinality(S)) /\ Cardinality(1 .. Cardinality(S)) = Cardinality(S)
  <2>1. \A n \in Nat : IsFiniteSet(1 .. n) /\ Cardinality(1 .. n) = n
    BY FS_Interval
  <2> QED
    BY <1>1, <2>1
<1>6. SetToSeq(S) \in Surjection(1 .. Cardinality(S), S)
  BY <1>4, <1>5, FS_Injection
<1>7. \A x \in S : \E i \in 1 .. Cardinality(S) : SetToSeq(S)[i] = x
  BY <1>6 DEF Surjection
<1>8. SetToSeq(S) \in Seq(S) /\ Len(SetToSeq(S)) = Cardinality(S)
  BY <1>1, <1>3, LenProperties
<1> QED
  BY <1>7, <1>8

\* A hot plan adds every user and then writes the file.
LEMMA HotPlans ==
    ASSUME kind = "xray", NEW S \in SUBSET Credentials, IsFiniteSet(S)
    PROVE  /\ AddAll(S) \o <<<<"write_service_hot">>>> \in Seq(StepRows)
           /\ \E n \in Nat :
                /\ Len(AddAll(S) \o <<<<"write_service_hot">>>>) = n + 1
                /\ n = 0 => S = {}
                /\ (AddAll(S) \o <<<<"write_service_hot">>>>)[n + 1] = <<"write_service_hot">>
                /\ \A i \in 1 .. n : \E c \in S :
                        (AddAll(S) \o <<<<"write_service_hot">>>>)[i] = <<"add_user", c>>
                /\ \A c \in S : \E i \in 1 .. n :
                        (AddAll(S) \o <<<<"write_service_hot">>>>)[i] = <<"add_user", c>>
<1> DEFINE list == SetToSeq(S)  n == Len(list)  adds == AddAll(S)  last == <<<<"write_service_hot">>>>
           p == adds \o last
<1>1. list \in Seq(S) /\ \A x \in S : \E i \in 1 .. n : list[i] = x
  BY Listing
<1>2. n \in Nat /\ DOMAIN list = 1 .. n /\ \A i \in 1 .. n : list[i] \in S
  BY <1>1
<1>3. <<"write_service_hot">> \in StepRows /\ \A c \in S : <<"add_user", c>> \in StepRows
  BY DEF StepRows, KindSteps
<1>4. adds = [i \in 1 .. n |-> <<"add_user", list[i]>>]
  BY <1>2 DEF AddAll
<1> HIDE DEF adds, list, n
<1>5. adds \in Seq(StepRows) /\ Len(adds) = n
  <2>1. adds \in [1 .. n -> StepRows]
    BY <1>2, <1>3, <1>4
  <2> QED
    BY <1>2, <2>1, LenProperties
<1>6. last \in Seq(StepRows) /\ Len(last) = 1 /\ last[1] = <<"write_service_hot">>
  BY <1>3
<1> HIDE DEF last
<1>7. /\ p \in Seq(StepRows) /\ Len(p) = n + 1
      /\ \A i \in 1 .. n : p[i] = adds[i]
      /\ p[n + 1] = <<"write_service_hot">>
  <2>1. p \in Seq(StepRows) /\ Len(p) = Len(adds) + Len(last)
        /\ \A i \in 1 .. Len(adds) + Len(last) :
                p[i] = IF i <= Len(adds) THEN adds[i] ELSE last[i - Len(adds)]
    BY <1>5, <1>6, ConcatProperties
  <2>2. p[n + 1] = last[(n + 1) - n]
    BY <1>2, <1>5, <1>6, <2>1
  <2> QED
    BY <1>2, <1>5, <1>6, <2>1, <2>2
<1>8. \A i \in 1 .. n : p[i] = <<"add_user", list[i]>>
  BY <1>4, <1>7
<1> HIDE DEF p
<1>9. /\ p \in Seq(StepRows) /\ Len(p) = n + 1 /\ (n = 0 => S = {})
      /\ p[n + 1] = <<"write_service_hot">>
      /\ \A i \in 1 .. n : \E c \in S : p[i] = <<"add_user", c>>
      /\ \A c \in S : \E i \in 1 .. n : p[i] = <<"add_user", c>>
  BY <1>1, <1>2, <1>7, <1>8
<1> QED
  BY <1>2, <1>9 DEF p, adds, last

\* A plan is a sequence of the adapter's steps.
LEMMA PlansAreSteps ==
    ASSUME kind \in Kinds, NEW d \in Wants, NEW h, Plan(d, h) # Refused
    PROVE  Plan(d, h) \in Seq(StepRows)
<1>1. kind \in AllKinds /\ d.users \in SUBSET Credentials /\ IsFiniteSet(d.users)
  BY Renderings, AdaptersAssumption
<1>2. \A n \in KindSteps : <<n>> \in StepRows /\ <<<<n>>>> \in Seq(StepRows)
  BY DEF StepRows
<1>3. <<>> \in Seq(StepRows)
  OBVIOUS
<1>4. CASE kind \in {"xray", "singbox"}
  <2>1. PICK p, e : Plan(d, h) = p \o e /\ e \in EgressPlans /\
           (\/ p \in {<<>>, <<<<"remove_service">>>>, <<<<"restart_service">>>>,
                      <<<<"write_service">>>>}
            \/ kind = "xray" /\ p = AddAll(d.users) \o <<<<"write_service_hot">>>>)
    <3>1. CASE kind = "xray"
      BY <3>1, XrayPlans
    <3>2. CASE kind = "singbox"
      BY <3>2, SingboxPlans
    <3> QED
      BY <1>4, <3>1, <3>2
  <2>2. {"remove_service", "restart_service", "write_service", "write_egress", "remove_egress"}
            \subseteq KindSteps
    BY <1>4 DEF KindSteps
  <2>3. e \in Seq(StepRows)
    BY <1>2, <1>3, <2>1, <2>2 DEF EgressPlans
  <2>4. p \in Seq(StepRows)
    <3>1. kind = "xray" => AddAll(d.users) \o <<<<"write_service_hot">>>> \in Seq(StepRows)
      BY <1>1, HotPlans
    <3> QED
      BY <1>2, <1>3, <2>1, <2>2, <3>1
  <2> QED
    BY <2>1, <2>3, <2>4, ConcatProperties
<1>5. CASE kind = "wireguard"
  <2>1. Plan(d, h) = <<>> \/ \E n \in {"install", "restart", "reload", "remove"} : Plan(d, h) = <<<<n>>>>
    BY <1>5, WireguardPlans
  <2> QED
    BY <1>2, <1>3, <1>5, <2>1 DEF KindSteps
<1>6. CASE kind = "hysteria2"
  <2>1. Plan(d, h) = <<>> \/ \E n \in {"install", "restart", "remove"} : Plan(d, h) = <<<<n>>>>
    BY <1>6, Hysteria2Plans
  <2> QED
    BY <1>2, <1>3, <1>6, <2>1 DEF KindSteps
<1>7. CASE kind \in {"openvpn", "ocserv"}
  <2>1. \/ Plan(d, h) = <<>>
        \/ \E n \in {"install", "update_config", "sync_users", "remove"} : Plan(d, h) = <<<<n>>>>
        \/ Plan(d, h) = <<<<"update_config">>, <<"sync_users">>>>
    BY <1>7, LoginPlans
  <2>2. {"install", "update_config", "sync_users", "remove"} \subseteq KindSteps
    BY <1>7 DEF KindSteps
  <2>3. <<<<"update_config">>, <<"sync_users">>>> \in Seq(StepRows)
    <3>1. \A a, b \in StepRows : <<a, b>> \in Seq(StepRows)
      OBVIOUS
    <3>2. <<"update_config">> \in StepRows /\ <<"sync_users">> \in StepRows
      BY <1>2, <2>2
    <3> QED
      BY <3>1, <3>2
  <2> QED
    BY <1>2, <1>3, <2>1, <2>2, <2>3
<1>8. CASE kind = "l2tp"
  <2>1. \/ Plan(d, h) = <<>>
        \/ \E n \in {"install_configs", "update_configs", "remove_configs"} : Plan(d, h) = <<<<n>>>>
    BY <1>8, L2tpPlans
  <2> QED
    BY <1>2, <1>3, <1>8, <2>1 DEF KindSteps
<1> QED
  BY <1>1, <1>4, <1>5, <1>6, <1>7, <1>8 DEF AllKinds

-----------------------------------------------------------------------------
(* The type invariant. *)

\* The next operation is one the adapter knows, and add_user's is about a user.
LEMMA Underway ==
    ASSUME AdTypes, ops # <<>>
    PROVE  /\ ~Idle /\ Head(steps) \in StepRows /\ kind \in Kinds
           /\ Head(ops) \in Operations
           /\ Head(ops) = "add user" => Head(steps)[1] = "add_user" /\ Head(steps)[2] \in Credentials
           /\ \A q \in Apply(Head(steps), target) : ops \in Lasts(q) => Tail(ops) \in Lasts(q)
<1>1. ~Idle /\ steps \in Seq(StepRows) /\ steps # <<>> /\ target \in Wants /\ kind \in Kinds
  BY DEF AdTypes, Idle
<1>2. Head(steps) \in StepRows
  BY <1>1
<1>3. ASSUME NEW q \in Apply(Head(steps), target), ops \in Lasts(q)
      PROVE  /\ Tail(ops) \in Lasts(q)
             /\ \/ Head(ops) \in Plain
                \/ Head(ops) = "add user" /\ Head(steps)[1] = "add_user"
  <2>1. CASE q \in Seq(Plain) /\ Len(q) <= 4
    BY <1>3, <2>1, LastsShrink
  <2>2. CASE Head(steps)[1] = "add_user" /\ q = <<"add user">>
    <3>1. \A a : Lasts(<<a>>) = {<<a>>, <<>>} /\ Tail(<<a>>) = <<>> /\ Head(<<a>>) = a
      BY DEF Lasts, Rest
    <3>2. Lasts(q) = {q, <<>>} /\ Tail(q) = <<>> /\ Head(q) = "add user"
      BY <2>2, <3>1
    <3> QED
      BY <1>3, <2>2, <3>2
  <2> QED
    BY <1>1, <1>2, <1>3, <2>1, <2>2, Attempts
<1>4. \E q \in Apply(Head(steps), target) : ops \in Lasts(q)
  BY <1>1 DEF AdTypes
<1>5. Head(ops) \in Plain \/ (Head(ops) = "add user" /\ Head(steps)[1] = "add_user")
  BY <1>3, <1>4
<1>6. Head(steps)[1] = "add_user" => Head(steps)[2] \in Credentials
  BY <1>1, <1>2, RowsOfSteps DEF KindSteps
<1> QED
  BY <1>1, <1>2, <1>3, <1>5, <1>6 DEF Plain, Operations

\* An operation that is done keeps the host what it must be.
LEMMA DoneIsOk ==
    ASSUME AdTypes, ops # <<>>, CanBeDone(Head(ops), host)
    PROVE  HostOk(Done(Head(ops), host))
<1>1. HostOk(host) /\ target \in Wants /\ kind \in Kinds
  BY DEF AdTypes
<1>2. Head(ops) \in Operations \ {"parse"}
      /\ (Head(ops) = "add user" => Head(steps)[2] \in Credentials)
  BY Underway DEF CanBeDone
<1>3. CASE Head(ops) \in FilesOps
  BY <1>1, <1>3, FileEffects
<1>4. CASE Head(ops) \in EgressOps
  BY <1>1, <1>4, EgressEffects
<1>5. CASE Head(ops) \in {"restart", "reload", "start", "stop", "try stop", "record", "rm applied",
                          "try rm applied"}
  BY <1>1, <1>5, DaemonEffects
<1>6. CASE Head(ops) = "add user"
  BY <1>1, <1>2, <1>6, AddEffects
<1> QED
  BY <1>2, <1>3, <1>4, <1>5, <1>6 DEF Operations, FilesOps, FileOps, DropOps, MarkOps, EgressOps

\* A plan that is not empty is begun.
LEMMA Beginnings ==
    ASSUME kind \in Kinds, NEW d \in Wants, NEW p \in Seq(StepRows), p # <<>>, Begin(p, d)
    PROVE  /\ steps' = p /\ tries' = 1 /\ p # <<>>
           /\ \E q \in Apply(Head(p), d) : ops' \in Lasts(q)
<1>1. steps' = p /\ tries' = 1 /\ ops' \in Apply(Head(p), d)
  BY DEF Begin
<1>2. Head(p) \in StepRows
  OBVIOUS
<1>3. ops' \in Lasts(ops')
  BY DEF Lasts
<1> QED
  BY <1>1, <1>3

\* What is left of a sequence of two or more.
LEMMA TailIsLeft ==
    ASSUME NEW T, NEW s \in Seq(T), Len(s) > 1
    PROVE  Tail(s) \in Seq(T) /\ Tail(s) # <<>> /\ Len(Tail(s)) = Len(s) - 1
<1>1. s # <<>> /\ Len(s) \in Nat
  BY EmptySeq
<1>2. Tail(s) \in Seq(T) /\ Len(Tail(s)) = Len(s) - 1
  BY <1>1, HeadTailProperties
<1>3. Len(Tail(s)) # 0
  BY <1>1, <1>2
<1>4. Tail(s) # <<>>
  BY <1>2, <1>3, EmptySeq
<1> QED
  BY <1>2, <1>4

\* The invariant, of the variables that have changed.
LEMMA StepIsDone ==
    ASSUME AdTypes, ~Idle, NEW bad \in BOOLEAN, NextStep(bad)
    PROVE  /\ steps' \in Seq(StepRows) /\ tries' \in 0 .. MaxRetries
           /\ failed' \in BOOLEAN /\ outcome' \in Outcomes
           /\ steps' = <<>> => ops' = <<>>
           /\ steps' # <<>> => tries' # 0 /\ \E q \in Apply(Head(steps'), target) : ops' \in Lasts(q)
<1>1. /\ steps \in Seq(StepRows) /\ steps # <<>> /\ target \in Wants /\ kind \in Kinds
      /\ MaxRetries \in Nat \ {0} /\ outcome \in Outcomes
  BY AdaptersAssumption DEF AdTypes, Idle
<1>2. CASE Len(steps) > 1
  <2>1. Tail(steps) \in Seq(StepRows) /\ Tail(steps) # <<>>
    BY <1>1, <1>2, TailIsLeft
  <2>2. Begin(Tail(steps), target) /\ failed' = bad /\ outcome' = outcome
    BY <1>2 DEF NextStep
  <2>3. /\ steps' = Tail(steps) /\ tries' = 1
        /\ \E q \in Apply(Head(Tail(steps)), target) : ops' \in Lasts(q)
    BY <1>1, <2>1, <2>2, Beginnings
  <2> QED
    BY <1>1, <2>1, <2>2, <2>3
<1>3. CASE ~(Len(steps) > 1)
  <2>1. steps' = <<>> /\ ops' = <<>> /\ tries' = 0 /\ failed' = FALSE /\ <<>> \in Seq(StepRows)
    BY <1>3 DEF NextStep
  <2>2. outcome' \in {"failed", "converged", "error", "outstanding"}
    <3> DEFINE p == Plan(target, host')
    <3>1. outcome' = CASE bad -> "failed"
                       [] ~bad /\ p = <<>> -> "converged"
                       [] ~bad /\ p = Refused -> "error"
                       [] OTHER -> "outstanding"
      BY <1>3 DEF NextStep
    <3> HIDE DEF p
    <3>2. Refused # <<>>
      BY DEF Refused
    <3> QED
      BY <3>1, <3>2
  <2>3. tries' \in 0 .. MaxRetries /\ steps' \in Seq(StepRows)
    BY <1>1, <2>1
  <2>4. outcome' \in Outcomes
    BY <2>2 DEF Outcomes
  <2> QED
    BY <2>1, <2>3, <2>4
<1> QED
  BY <1>2, <1>3

\* One fault more is within the bound.
LEMMA FaultsBound ==
    ASSUME AdTypes, Fault \/ UNCHANGED faults
    PROVE  faults' \in 0 .. MaxFaults
BY AdaptersAssumption DEF AdTypes, Fault

\* What depends on the adapter alone does not change.
LEMMA KindStays ==
    ASSUME kind' = kind
    PROVE  /\ \A s, d : Apply(s, d)' = Apply(s, d)
           /\ \A q : Lasts(q)' = Lasts(q)
           /\ StepRows' = StepRows
           /\ \A h : HostOk(h)' = HostOk(h)
<1>1. \A s, d : Apply(s, d)' = Apply(s, d)
  BY DEF Apply, XrayApply, SingboxApply, WireguardApply, Hysteria2Apply, OpenvpnApply, OcservApply,
         L2tpApply
<1>2. \A q : Lasts(q)' = Lasts(q)
  BY DEF Lasts, Rest
<1>3. StepRows' = StepRows
  BY DEF StepRows, KindSteps
<1>4. \A h : HostOk(h)' = HostOk(h)
  BY DEF HostOk, HostRows
<1> QED
  BY <1>1, <1>2, <1>3, <1>4

\* The invariant after a step, part by part.
LEMMA TypesAfter ==
    ASSUME kind \in Kinds, kind' = kind, desired' \in Wants, target' \in Wants, HostOk(host'),
           steps' \in Seq(StepRows), tries' \in 0 .. MaxRetries,
           failed' \in BOOLEAN, torn' \in BOOLEAN, excused' \in BOOLEAN,
           outcome' \in Outcomes, wants' \in 0 .. MaxWants, faults' \in 0 .. MaxFaults,
           steps' = <<>> => ops' = <<>>,
           steps' # <<>> => tries' # 0 /\ \E q \in Apply(Head(steps'), target') : ops' \in Lasts(q)
    PROVE  AdTypes'
<1>1. StepRows' = StepRows /\ HostOk(host)' 
  BY KindStays
<1>2. (~Idle => tries # 0 /\ \E q \in Apply(Head(steps), target) : ops \in Lasts(q))'
  BY KindStays DEF Idle
<1> QED
  BY <1>1, <1>2 DEF AdTypes, Idle

\* The types hold on a fresh host.
LEMMA AdTypesInit ==
    ASSUME AdInit
    PROVE  AdTypes
<1>1. kind \in Kinds /\ desired \in Wants /\ target \in Wants /\ MaxRetries \in Nat \ {0}
      /\ MaxWants \in Nat \ {0} /\ MaxFaults \in Nat
  BY AdaptersAssumption DEF AdInit
<1>2. HostOk(FreshHost)
  <2>1. NoPasswd \in SUBSET Credentials /\ Down \in Runnings /\ NoRecord \in Records
    BY DEF NoPasswd, Credentials, Down, Runnings, NoRecord, Records, NoFile
  <2> HIDE DEF NoPasswd, Down, NoRecord
  <2>2. FreshHost \in HostRows /\ FreshHost.shape = 0 /\ ~FreshHost.edited
        /\ FreshHost.applied = NoRecord
    BY <2>1 DEF FreshHost, HostRows, NoFile
  <2> QED
    BY <2>2 DEF HostOk, Foreign
<1>3. steps \in Seq(StepRows) /\ wants \in 0 .. MaxWants /\ faults \in 0 .. MaxFaults
      /\ tries \in 0 .. MaxRetries /\ outcome \in Outcomes
  BY <1>1 DEF AdInit, Outcomes
<1>4. HostOk(host)
  BY <1>2 DEF AdInit
<1> QED
  BY <1>1, <1>3, <1>4 DEF AdInit, AdTypes, Idle

\* Every step of the adapter keeps the types.
LEMMA AdTypesKept ==
    ASSUME AdTypes, [AdNext]_adVars
    PROVE  AdTypes'
<1>1. CASE Publish
  <2>1. wants' \in 0 .. MaxWants
    BY <1>1, AdaptersAssumption DEF Publish, AdTypes
  <2> QED
    BY <1>1, <2>1, TypesAfter DEF Publish, AdTypes, Idle
<1>2. CASE Converge
  <2> DEFINE plan == Plan(desired, host)
  <2>1. /\ Idle /\ target' = desired /\ failed' = FALSE /\ Idle /\ steps = <<>> /\ ops = <<>>
        /\ UNCHANGED <<kind, desired, host, wants, torn, excused>>
        /\ tries \in 0 .. MaxRetries
    BY <1>2 DEF Converge, AdTypes, Idle
  <2>2. Fault \/ UNCHANGED faults
    BY <1>2 DEF Converge
  <2>3. \/ outcome' \in {"error", "converged", "deferred"} /\ UNCHANGED <<steps, ops, tries>>
        \/ plan \notin {<<>>, Refused} /\ Begin(plan, desired) /\ outcome' = "running"
    BY <1>2 DEF Converge
  <2>4. faults' \in 0 .. MaxFaults
    BY <2>2, FaultsBound
  <2>5. CASE outcome' \in {"error", "converged", "deferred"} /\ UNCHANGED <<steps, ops, tries>>
    BY <2>1, <2>4, <2>5, TypesAfter DEF AdTypes, Idle, Outcomes
  <2>6. CASE plan \notin {<<>>, Refused} /\ Begin(plan, desired) /\ outcome' = "running"
    <3>1. plan \in Seq(StepRows) /\ plan # <<>>
      BY <2>6, PlansAreSteps DEF AdTypes
    <3> HIDE DEF plan
    <3>2. steps' = plan /\ tries' = 1 /\ \E q \in Apply(Head(plan), desired) : ops' \in Lasts(q)
      BY <2>6, <3>1, Beginnings DEF AdTypes
    <3>3. 1 \in 0 .. MaxRetries
      BY AdaptersAssumption
    <3>4. /\ steps' \in Seq(StepRows) /\ steps' # <<>> /\ tries' # 0 /\ tries' \in 0 .. MaxRetries
          /\ \E q \in Apply(Head(steps'), target') : ops' \in Lasts(q)
      BY <2>1, <3>1, <3>2, <3>3
    <3>5. outcome' \in Outcomes /\ failed' \in BOOLEAN /\ HostOk(host') /\ target' \in Wants
          /\ desired' \in Wants /\ torn' \in BOOLEAN /\ excused' \in BOOLEAN
          /\ wants' \in 0 .. MaxWants /\ kind \in Kinds /\ kind' = kind
      BY <2>1, <2>6 DEF AdTypes, Outcomes
    <3> QED
      BY <2>4, <3>4, <3>5, TypesAfter
  <2> QED
    BY <2>3, <2>5, <2>6
<1>3. CASE Operate
  <2>1. /\ ops # <<>> /\ CanBeDone(Head(ops), host) /\ host' = Done(Head(ops), host) /\ ops' = Tail(ops)
        /\ torn' = (torn /\ ~Restarted) /\ excused' = (excused /\ ~Restarted)
        /\ UNCHANGED <<kind, desired, target, steps, tries, failed, outcome, wants, faults>>
    BY <1>3 DEF Operate
  <2>2. ~Idle /\ HostOk(host')
    BY <2>1, Underway, DoneIsOk
  <2>3. torn' \in BOOLEAN /\ excused' \in BOOLEAN
    BY <2>1
  <2>4. tries # 0 /\ \E q \in Apply(Head(steps), target) : ops' \in Lasts(q)
    BY <2>1, <2>2, Underway DEF AdTypes
  <2> QED
    BY <2>1, <2>2, <2>3, <2>4, TypesAfter DEF AdTypes, Idle
<1>4. CASE FinishStep
  <2>1. /\ ~Idle /\ UNCHANGED host /\ NextStep(failed)
        /\ UNCHANGED <<kind, desired, target, wants, faults, torn, excused>>
    BY <1>4 DEF FinishStep
  <2>2. failed \in BOOLEAN
    BY DEF AdTypes
  <2> QED
    BY <2>1, <2>2, StepIsDone, TypesAfter DEF AdTypes
<1>5. CASE OperationFails
  <2>1. /\ ops # <<>> /\ host' \in Broken(Head(ops), host) /\ torn' = TRUE
        /\ excused' = (excused \/ Unrecorded(Head(ops)) \/ desired # target)
        /\ UNCHANGED <<kind, desired, target, wants>>
        /\ Fault \/ UNCHANGED faults
    BY <1>5 DEF OperationFails
  <2>2. ~Idle /\ HostOk(host') /\ torn' \in BOOLEAN /\ excused' \in BOOLEAN
    BY <2>1, Underway, BrokenEffects DEF AdTypes
  <2>3. faults' \in 0 .. MaxFaults
    BY <2>1, FaultsBound
  <2>4. CASE ops' = Tail(ops) /\ UNCHANGED <<steps, tries, failed, outcome>>
    <3>1. tries # 0 /\ \E q \in Apply(Head(steps), target) : ops' \in Lasts(q)
      BY <2>1, <2>2, <2>4, Underway DEF AdTypes
    <3> QED
      BY <2>1, <2>2, <2>3, <2>4, <3>1, TypesAfter DEF AdTypes, Idle
  <2>5. CASE MayTryAgain /\ tries' = tries + 1 /\ ops' \in Apply(Head(steps), target)
             /\ UNCHANGED <<steps, failed, outcome>>
    <3>1. tries' \in 0 .. MaxRetries /\ tries' # 0
      BY <2>5, AdaptersAssumption DEF AdTypes, MayTryAgain
    <3>2. \E q \in Apply(Head(steps), target) : ops' \in Lasts(q)
      BY <2>5 DEF Lasts
    <3> QED
      BY <2>1, <2>2, <2>3, <2>5, <3>1, <3>2, TypesAfter DEF AdTypes, Idle
  <2>6. CASE NextStep(TRUE)
    <3>1. TRUE \in BOOLEAN
      OBVIOUS
    <3> QED
      BY <2>1, <2>2, <2>3, <2>6, <3>1, StepIsDone, TypesAfter DEF AdTypes
  <2> QED
    BY <1>5, <2>4, <2>5, <2>6 DEF OperationFails
<1>6. CASE AgentDies
  <2>1. /\ ops # <<>> /\ Fault /\ torn' = TRUE
        /\ steps' = <<>> /\ ops' = <<>> /\ tries' = 0 /\ failed' = FALSE /\ outcome' = "none"
        /\ excused' = (excused \/ Unrecorded(Head(ops)) \/ desired # target)
        /\ UNCHANGED <<kind, desired, target, wants>>
    BY <1>6 DEF AgentDies
  <2>2. \/ host' = host \/ host' \in Broken(Head(ops), host)
        \/ CanBeDone(Head(ops), host) /\ host' = Done(Head(ops), host)
    BY <1>6 DEF AgentDies
  <2>3. HostOk(host')
    <3>1. host' \in Broken(Head(ops), host) => HostOk(host')
      BY BrokenEffects DEF AdTypes
    <3> QED
      BY <2>1, <2>2, <3>1, DoneIsOk DEF AdTypes
  <2>4. faults' \in 0 .. MaxFaults /\ 0 \in 0 .. MaxRetries /\ <<>> \in Seq(StepRows)
    BY <2>1, FaultsBound, AdaptersAssumption
  <2> QED
    BY <2>1, <2>3, <2>4, TypesAfter DEF AdTypes, Outcomes
<1>7. CASE HandEdit
  <2>1. /\ Idle /\ Fault /\ excused' = (excused \/ torn)
        /\ UNCHANGED <<kind, desired, target, steps, ops, tries, failed, outcome, wants, torn>>
        /\ \/ host.shape \notin {NoFile, Foreign} /\ host' = [host EXCEPT !.edited = TRUE]
           \/ host.shape = NoFile /\ host' = [host EXCEPT !.shape = Foreign]
    BY <1>7 DEF HandEdit
  <2>2. HostOk(host')
    <3> DEFINE yes == TRUE  theirs == Foreign
    <3>1. /\ host \in HostRows /\ host.shape >= Foreign /\ yes \in BOOLEAN /\ theirs \in Int
          /\ theirs >= Foreign
          /\ host.edited => host.shape \notin {NoFile, Foreign}
          /\ host.applied = NoRecord \/ host.applied.shape # NoFile
      BY DEF AdTypes, HostOk, Foreign
    <3>2. \/ host.shape \notin {NoFile, Foreign} /\ host' = [host EXCEPT !.edited = yes]
          \/ host.shape = NoFile /\ host' = [host EXCEPT !.shape = theirs]
      BY <2>1
    <3> HIDE DEF yes, theirs
    <3> QED
      BY <3>1, <3>2 DEF HostOk, HostRows
  <2>3. faults' \in 0 .. MaxFaults
    BY <2>1, FaultsBound
  <2> QED
    BY <2>1, <2>2, <2>3, TypesAfter DEF AdTypes, Idle
<1>8. CASE StopSkipped
  <2>1. /\ ops # <<>> /\ Fault /\ ops' = Tail(ops)
        /\ excused' = (excused \/ Head(steps)[1] = "remove")
        /\ UNCHANGED <<kind, desired, target, host, steps, tries, failed, outcome, wants, torn>>
    BY <1>8 DEF StopSkipped
  <2>2. ~Idle /\ HostOk(host') /\ excused' \in BOOLEAN
    BY <2>1, Underway DEF AdTypes
  <2>3. tries # 0 /\ \E q \in Apply(Head(steps), target) : ops' \in Lasts(q)
    BY <2>1, <2>2, Underway DEF AdTypes
  <2>4. faults' \in 0 .. MaxFaults
    BY <2>1, FaultsBound
  <2> QED
    BY <2>1, <2>2, <2>3, <2>4, TypesAfter DEF AdTypes, Idle
<1>9. CASE UNCHANGED adVars
  BY <1>9, TypesAfter DEF adVars, AdTypes, Idle
<1> QED
  BY <1>1, <1>2, <1>3, <1>4, <1>5, <1>6, <1>7, <1>8, <1>9 DEF AdNext, AdPass

\* What the run checks follows.
LEMMA TypesAreTypes ==
    ASSUME AdTypes
    PROVE  AdTypeOK
<1>1. DOMAIN host = DOMAIN FreshHost
  BY DEF AdTypes, HostOk, HostRows, FreshHost
<1>2. \A i \in DOMAIN steps : steps[i][1] \in StepNames
  <2>1. ASSUME NEW i \in DOMAIN steps PROVE steps[i] \in StepRows
    BY DEF AdTypes
  <2> QED
    BY <2>1, RowsOfSteps DEF AdTypes
<1>3. ops \in Seq(Operations)
  <2>1. CASE Idle
    BY <2>1 DEF AdTypes
  <2>2. CASE ~Idle
    <3>1. PICK q \in Apply(Head(steps), target) : ops \in Lasts(q)
      BY <2>2 DEF AdTypes
    <3>2. Head(steps) \in StepRows
      BY <2>2 DEF AdTypes, Idle
    <3>3. q \in Seq(Operations) /\ Len(q) <= 4
      <4>1. Plain \subseteq Operations /\ "add user" \in Operations
        BY DEF Plain, Operations
      <4>2. \A a \in Operations : <<a>> \in Seq(Operations) /\ Len(<<a>>) <= 4
        OBVIOUS
      <4>3. \A r \in Seq(Plain) : r \in Seq(Operations)
        <5>1. ASSUME NEW r \in Seq(Plain) PROVE r \in Seq(Operations)
          <6>1. Len(r) \in Nat /\ r \in [1 .. Len(r) -> Plain]
            OBVIOUS
          <6>2. r \in [1 .. Len(r) -> Operations]
            BY <4>1, <6>1
          <6> QED
            BY <6>1, <6>2
        <5> QED
          BY <5>1
      <4>4. \/ q \in Seq(Plain) /\ Len(q) <= 4
            \/ q = <<"add user">>
        BY <3>1, <3>2, Attempts DEF AdTypes
      <4> QED
        BY <4>1, <4>2, <4>3, <4>4
    <3> QED
      BY <3>1, <3>3, LastsShrink
  <2> QED
    BY <2>1, <2>2
<1> QED
  BY <1>1, <1>2, <1>3 DEF AdTypes, AdTypeOK

\* The types of the adapters hold in every state.
LEMMA AdTypesAlways == AdInit /\ [][AdNext]_adVars => []AdTypes
<1>1. AdInit => AdTypes
  BY AdTypesInit
<1>2. AdTypes /\ [AdNext]_adVars => AdTypes'
  BY AdTypesKept
<1> QED
  BY <1>1, <1>2, PTL

\* Whatever the adapter observes, plans and does, and wherever it fails (the
\* packages of internal/node/adapter, reconcile.go), every variable stays in its
\* type: a step is one of its own, and so are the operations left of an attempt.
THEOREM AdTypeCorrect == AdSpec => []AdTypeOK
<1>1. AdTypes => AdTypeOK
  BY TypesAreTypes
<1> QED
  BY <1>1, AdTypesAlways, PTL DEF AdSpec

-----------------------------------------------------------------------------
(* Adapters: what a pass that converges has left behind. *)

\* The operation an attempt is at.
At(o) == IF o = <<>> THEN "end" ELSE Head(o)

Recording == {"xray", "singbox", "wireguard", "hysteria2"}
Logins == {"openvpn", "ocserv"}
Hot == {"add_user", "write_service_hot"}
Rules == {"write_egress", "remove_egress"}
Filing == {"write_service", "write_service_hot", "install", "restart", "reload"}
Rewriting == {"write_service", "restart_service", "install", "restart", "reload"}
Recorders == {"write_service", "write_service_hot", "restart_service", "install", "restart", "reload"}

\* In a plan the hot path comes first, the rules come last.
Next2(n) == CASE n = "add_user" -> Hot
              [] n = "update_config" -> {"sync_users"}
              [] n \notin {"add_user", "update_config"} /\ kind \in {"xray", "singbox"} -> Rules
              [] OTHER -> {}
Planned(t, p) ==
    /\ \A i \in 1 .. Len(p) - 1 : p[i + 1][1] \in Next2(p[i][1])
    /\ p # <<>> => p[Len(p)][1] # "add_user"
    /\ \A i \in 1 .. Len(p) : p[i][1] = "add_user" =>
           p[i][2] \in t.users /\ \A j \in 1 .. i : p[j][1] = "add_user"

\* What step s has done when it is at operation a, for an adapter with a record.
WriteNow(t, s, a, h) ==
    /\ kind = "xray" /\ s[1] = "write_service" => ~additive(t, h) \/ SameFile(t, h)
    /\ s[1] = "restart_service" => SameFile(t, h) /\ (kind = "singbox" => h.mark)
    /\ s[1] \in Filing
            /\ a \in {"mark", "start", "reload", "restart", "record", "end"} => SameFile(t, h)
    /\ kind = "singbox" /\ s[1] = "write_service" /\ a \in {"restart", "record", "end"} => h.mark
    /\ s[1] \in Rewriting /\ a \in {"record", "end"} => Fresh(h)
    /\ s[1] \in Recorders /\ a = "end" => h.applied = Rendered(t)
StopNow(s, a, h) ==
    s[1] = "remove" /\ a \in {"try rm applied", "end"} => h.shape = NoFile /\ ~h.edited
RemoveNow(s, a, h) ==
    /\ s[1] = "remove_service" /\ a \in {"rm mark", "restart", "end"} => h.shape = NoFile /\ ~h.edited
    /\ s[1] = "remove_service" /\ kind = "singbox" /\ a = "rm applied" => h.shape = NoFile /\ ~h.edited
    /\ s[1] = "remove_service" /\ a \in {"restart", "end"} => h.applied = NoRecord
    /\ s[1] = "remove_service" /\ kind = "xray" /\ a = "rm file" => h.applied = NoRecord
    /\ s[1] = "remove_service" /\ a = "end" => Fresh(h)
    /\ s[1] = "add_user" /\ a = "end" => s[2][1] \in Subjects(h.run.users)
RecordingNow(t, s, a, h) == WriteNow(t, s, a, h) /\ StopNow(s, a, h) /\ RemoveNow(s, a, h)

\* The same for openvpn, ocserv and l2tp.
LoginNow(t, s, a, h) ==
    /\ s[1] \in {"install", "update_config"} /\ a \in {"passwd", "restart", "reload", "end"} =>
           h.shape = t.shape /\ ~h.edited
    /\ s[1] \in {"install", "update_config"} /\ a = "end" =>
           h.run.shape = h.shape /\ h.run.edited = h.edited
    /\ s[1] = "remove" /\ a \in {"rm shape", "rm mark", "rm users", "end"} => h.run = Down
    /\ s[1] = "remove" /\ a \in {"rm mark", "rm users", "end"} => h.shape = NoFile /\ ~h.edited

\* l2tp writes its two files in either order; with these left it has written the first.
ShapeWritten == {<<"users", "start">>, <<"users", "start", "restart">>, <<"start">>,
                 <<"start", "restart">>, <<"restart">>, <<>>}
L2tpNow(t, s, o, h) ==
    s[1] \in {"install_configs", "update_configs"} /\ o \in ShapeWritten => h.shape = t.shape

\* o are the operations left of the attempt.
Now(t, s, o, h) ==
    /\ kind \in Recording => RecordingNow(t, s, At(o), h)
    /\ kind \in Logins => LoginNow(t, s, At(o), h)
    /\ kind = "l2tp" => L2tpNow(t, s, o, h)

\* Without a service's file the daemon serves nothing.
Gone(h) == CASE kind \in {"wireguard", "hysteria2"} -> h.shape \in {NoFile, Foreign}
             [] kind = "l2tp" -> h.shape = NoFile /\ h.users = NoPasswd
             [] OTHER -> h.shape = NoFile
NothingRuns(h) == Gone(h) => h.run.shape = NoFile /\ ~h.run.edited

\* The daemon serves what c, a record or the rendering of a document, says.
Runs(h, c) ==
    /\ h.run.shape = c.shape /\ ~h.run.edited
    /\ IF kind = "xray" THEN Subjects(h.run.users) = Subjects(c.users) ELSE h.run.users = c.users

\* With nothing torn the record is true; otherwise one of the target still is.
RecordTrue(t, w, h) ==
    (~w /\ h.applied # NoRecord) \/ h.applied = Rendered(t) =>
        Content(h) = h.applied /\ Runs(h, h.applied)

\* Whenever the next plan may take the hot path, the daemon is one it may be used on.
Among(t, h) == h.run.shape = t.shape /\ ~h.run.edited /\ Subjects(h.run.users) \subseteq Subjects(t.users)
HotReady(t, h) ==
    kind = "xray" /\ additive(t, h) /\ ~SameFile(t, h) =>
        /\ Content(h) = h.applied /\ Among(t, h)
        /\ Subjects(h.applied.users) \subseteq Subjects(h.run.users)

\* On the hot path every user of the target is there or is still to be added.
Adding(t, p, h) ==
    /\ Among(t, h)
    /\ \A c \in t.users : \/ c[1] \in Subjects(h.run.users)
                          \/ \E i \in 1 .. Len(p) : p[i] = <<"add_user", c>>
    /\ \/ SameFile(t, h)
       \/ Content(h) = h.applied /\ Subjects(h.applied.users) \subseteq Subjects(h.run.users)

\* singbox has marked its file, unless it was stopped in between.
Marked(w, h) == kind = "singbox" /\ ~w => h.mark \/ h.shape \in {NoFile, Foreign}

\* What is kept while no failure has gone unrecorded: d the document held, t the
\* target, p the steps left, a the operation, h the host, w whether a step was torn.
RecordingKept(d, t, p, a, h, w) ==
    /\ w => ~h.edited /\ d = t
    /\ p = <<>> \/ p[1][1] # "remove_service" => NothingRuns(h) /\ HotReady(t, h)
    /\ p = <<>> \/ p[1][1] \in Rules => RecordTrue(t, w, h)
    /\ p = <<>> \/ p[1][1] \in Rules => Marked(w, h)
    /\ p # <<>> /\ p[1][1] \in Rules => ~h.edited
    /\ p # <<>> /\ p[1][1] \in Hot => Adding(t, p, h)
    /\ p # <<>> /\ p[1][1] = "remove" /\ a = "end" =>
           (w /\ h.applied # Rendered(t)) \/ h.applied = NoRecord
    /\ p # <<>> /\ p[1][1] = "remove" /\ a # "stop" => h.run = Down

LoginKept(p, h, w) ==
    /\ ~w
    /\ p = <<>> => NothingRuns(h) /\ (Managed(h) => h.run.shape = h.shape /\ ~h.run.edited)
    /\ p # <<>> /\ p[1][1] = "sync_users" => h.run.shape = h.shape /\ ~h.run.edited

L2tpKept(p, a, h) ==
    /\ p = <<>> => NothingRuns(h)
    /\ p # <<>> /\ p[1][1] = "remove_configs" /\ a \in {"try rm file", "end"} => h.run = Down

Kept(d, t, p, a, h, w) ==
    /\ kind \in Recording => RecordingKept(d, t, p, a, h, w)
    /\ kind \in Logins => LoginKept(p, h, w)
    /\ kind = "l2tp" => L2tpKept(p, a, h)

\* No record has the placeholder of a host without users in it.
CleanRecord(h) == h.applied = NoRecord \/ <<0, 0>> \notin h.applied.users

AdInv ==
    /\ AdTypes
    /\ CleanRecord(host)
    /\ Planned(target, steps)
    /\ ~Idle => Now(target, steps[1], ops, host)
    /\ ~excused => Kept(desired, target, steps, At(ops), host, torn)
    /\ ConvergedIsServed

\* The promises depend on the adapter and on their arguments.
LEMMA PromisesStay ==
    ASSUME kind' = kind
    PROVE  /\ \A t, p : Planned(t, p)' = Planned(t, p)
           /\ \A t, s, o, h : Now(t, s, o, h)' = Now(t, s, o, h)
           /\ \A d, t, p, a, h, w : Kept(d, t, p, a, h, w)' = Kept(d, t, p, a, h, w)
           /\ \A h : CleanRecord(h)' = CleanRecord(h)
<1>1. /\ \A d : Rendered(d)' = Rendered(d)
      /\ \A h : Managed(h)' = Managed(h) /\ NothingRuns(h)' = NothingRuns(h)
      /\ \A h, c : Runs(h, c)' = Runs(h, c)
  BY DEF Rendered, XrayGenerate, SingboxGenerate, WireguardGenerate, Hysteria2Generate, OpenvpnRender,
         OcservRender, L2tpRender, Managed, NothingRuns, Gone, Runs
<1>2. /\ \A t, h : SameFile(t, h)' = SameFile(t, h)
      /\ \A t, w, h : RecordTrue(t, w, h)' = RecordTrue(t, w, h)
  BY <1>1 DEF SameFile, RecordTrue
<1>3. /\ \A t, h : HotReady(t, h)' = HotReady(t, h)
      /\ \A t, p, h : Adding(t, p, h)' = Adding(t, p, h)
  BY <1>2 DEF HotReady, Adding, Among
<1>3a. /\ \A t, h : additive(t, h)' = additive(t, h)
       /\ \A h : Fresh(h)' = Fresh(h)
       /\ \A w, h : Marked(w, h)' = Marked(w, h)
  BY DEF additive, Fresh, Marked
<1>4. /\ \A s, a, h : StopNow(s, a, h)' = StopNow(s, a, h)
      /\ \A s, a, h : RemoveNow(s, a, h)' = RemoveNow(s, a, h)
  BY <1>3a DEF StopNow, RemoveNow
<1>4w. \A t, s, a, h : WriteNow(t, s, a, h)' = WriteNow(t, s, a, h)
  BY <1>1, <1>2, <1>3a DEF WriteNow
<1>4r. \A t, s, a, h : RecordingNow(t, s, a, h)' = RecordingNow(t, s, a, h)
  BY <1>4, <1>4w DEF RecordingNow
<1>4a. /\ \A t, s, a, h : LoginNow(t, s, a, h)' = LoginNow(t, s, a, h)
       /\ \A t, s, o, h : L2tpNow(t, s, o, h)' = L2tpNow(t, s, o, h)
  BY DEF LoginNow, L2tpNow
<1>5. \A d, t, p, a, h, w : RecordingKept(d, t, p, a, h, w)' = RecordingKept(d, t, p, a, h, w)
  BY <1>1, <1>2, <1>3, <1>3a DEF RecordingKept
<1>5a. /\ \A p, h, w : LoginKept(p, h, w)' = LoginKept(p, h, w)
       /\ \A p, a, h : L2tpKept(p, a, h)' = L2tpKept(p, a, h)
  BY <1>1 DEF LoginKept, L2tpKept
<1>6. \A t, p : Planned(t, p)' = Planned(t, p)
  BY DEF Planned, Next2
<1> QED
  BY <1>4r, <1>4a, <1>5, <1>5a, <1>6 DEF Now, Kept, CleanRecord

\* The invariant after a step, part by part.
LEMMA InvAfter ==
    ASSUME AdTypes', kind' = kind, CleanRecord(host'), Planned(target', steps'),
           steps' # <<>> => Now(target', steps'[1], ops', host'),
           ~excused' => Kept(desired', target', steps', At(ops'), host', torn'),
           ConvergedIsServed'
    PROVE  AdInv'
<1>1. Planned(target, steps)' /\ CleanRecord(host)'
  BY PromisesStay
<1>2. (~Idle => Now(target, steps[1], ops, host))'
  BY PromisesStay DEF Idle, At
<1>3. (~excused => Kept(desired, target, steps, At(ops), host, torn))'
  BY PromisesStay DEF At
<1> QED
  BY <1>1, <1>2, <1>3 DEF AdInv

-----------------------------------------------------------------------------
(* Hosts with the same files. *)

\* What is said of a host is said of its service files, its record and its daemon.
LEMMA Copies ==
    ASSUME NEW g, NEW h, SameFiles(g, h)
    PROVE  /\ Content(g) = Content(h) /\ g.shape = h.shape /\ g.edited = h.edited /\ g.users = h.users
           /\ \A t : SameFile(t, g) = SameFile(t, h)
           /\ g.run = h.run => Fresh(g) = Fresh(h) /\ NothingRuns(g) = NothingRuns(h)
           /\ g.applied = h.applied => \A t : additive(t, g) = additive(t, h)
           /\ g.applied = h.applied /\ g.run = h.run =>
                 /\ \A t : HotReady(t, g) = HotReady(t, h)
                 /\ \A t, p : Adding(t, p, g) = Adding(t, p, h)
                 /\ \A t, w : RecordTrue(t, w, g) = RecordTrue(t, w, h)
<1>1. g.shape = h.shape /\ g.users = h.users /\ g.edited = h.edited /\ Content(g) = Content(h)
  BY DEF SameFiles, Content
<1>2. \A t : SameFile(t, g) = SameFile(t, h)
  BY <1>1 DEF SameFile
<1>3. g.run = h.run => Fresh(g) = Fresh(h) /\ NothingRuns(g) = NothingRuns(h)
  BY <1>1 DEF Fresh, NothingRuns, Gone
<1>4. g.applied = h.applied => \A t : additive(t, g) = additive(t, h)
  BY <1>1 DEF additive
<1>5. g.applied = h.applied /\ g.run = h.run =>
                 /\ \A t : HotReady(t, g) = HotReady(t, h)
                 /\ \A t, p : Adding(t, p, g) = Adding(t, p, h)
                 /\ \A t, w : RecordTrue(t, w, g) = RecordTrue(t, w, h)
  BY <1>1, <1>2, <1>4 DEF HotReady, Adding, Among, RecordTrue, Runs
<1> QED
  BY <1>1, <1>2, <1>3, <1>4, <1>5

\* The target's file has been written.
LEMMA FileWritten ==
    ASSUME NEW h, HostOk(h), target \in Wants, kind \in Kinds
    PROVE  /\ SameFile(target, Done("file", h)) /\ Done("file", h).run = h.run
           /\ Done("file", h).applied = h.applied
<1>0. Done("file", h).run = h.run /\ Done("file", h).applied = h.applied
  <2>1. "file" \in FilesOps
    BY DEF FilesOps, FileOps
  <2> QED
    BY <2>1, OnlyFiles
<1>1. /\ Done("file", h).shape = target.shape /\ Done("file", h).users = Rendered(target).users
      /\ ~Done("file", h).edited
  BY FileEffects
<1>2. Rendered(target) = [shape |-> target.shape, users |-> Rendered(target).users]
  BY Renderings
<1> QED
  BY <1>0, <1>1, <1>2 DEF SameFile, Content

\* Where the target's file is, there is a file and the plan is not to be hot.
LEMMA FileThere ==
    ASSUME NEW h, target \in Wants, kind \in Kinds, SameFile(target, h)
    PROVE  /\ h.shape = target.shape /\ h.shape \in Nat \ {0} /\ ~h.edited
           /\ h.users = Rendered(target).users /\ h.users \ NoPasswd = h.users
           /\ NothingRuns(h) /\ HotReady(target, h)
<1>1. target.shape \in Nat \ {0} /\ Rendered(target).shape = target.shape
      /\ Rendered(target).users \ NoPasswd = Rendered(target).users
  BY Renderings
<1>2. h.shape = target.shape /\ h.users = Rendered(target).users /\ ~h.edited
  BY <1>1 DEF SameFile, Content
<1>3. NothingRuns(h)
  BY <1>1, <1>2 DEF NothingRuns, Gone, NoFile, Foreign
<1>4. HotReady(target, h)
  BY DEF HotReady
<1> QED
  BY <1>1, <1>2, <1>3, <1>4

\* The daemon has read the target's file and the record says so.
LEMMA RecordIsTrue ==
    ASSUME NEW h, target \in Wants, kind \in Kinds, SameFile(target, h), Fresh(h),
           h.applied = Rendered(target), NEW w
    PROVE  RecordTrue(target, w, h)
<1>1. Content(h) = h.applied /\ h.users \ NoPasswd = h.applied.users
      /\ h.shape = h.applied.shape /\ ~h.edited
  BY FileThere, Renderings DEF SameFile
<1>2. Runs(h, h.applied)
  BY <1>1 DEF Runs, Fresh
<1> QED
  BY <1>1, <1>2 DEF RecordTrue

-----------------------------------------------------------------------------
(* The moves of an attempt, from operation to operation. *)

\* An attempt of at most four operations passes from each to the one after it.
LEMMA Moves ==
    ASSUME ops # <<>>
    PROVE  /\ \A a : ops \in Lasts(<<a>>) => At(ops) = a /\ At(Tail(ops)) = "end"
           /\ \A a, b : ops \in Lasts(<<a, b>>) =>
                \/ At(ops) = a /\ At(Tail(ops)) = b
                \/ At(ops) = b /\ At(Tail(ops)) = "end"
           /\ \A a, b, c : ops \in Lasts(<<a, b, c>>) =>
                \/ At(ops) = a /\ At(Tail(ops)) = b
                \/ At(ops) = b /\ At(Tail(ops)) = c
                \/ At(ops) = c /\ At(Tail(ops)) = "end"
           /\ \A a, b, c, d : ops \in Lasts(<<a, b, c, d>>) =>
                \/ At(ops) = a /\ At(Tail(ops)) = b
                \/ At(ops) = b /\ At(Tail(ops)) = c
                \/ At(ops) = c /\ At(Tail(ops)) = d
                \/ At(ops) = d /\ At(Tail(ops)) = "end"
<1>0. \A a, b, c, d :
        /\ Lasts(<<a>>) = {<<a>>, <<>>}
        /\ Lasts(<<a, b>>) = {<<a, b>>, <<b>>, <<>>}
        /\ Lasts(<<a, b, c>>) = {<<a, b, c>>, <<b, c>>, <<c>>, <<>>}
        /\ Lasts(<<a, b, c, d>>) = {<<a, b, c, d>>, <<b, c, d>>, <<c, d>>, <<d>>, <<>>}
  BY LastOperations
<1>a. \A a : At(<<a>>) = a /\ At(Tail(<<a>>)) = "end"
  BY DEF At
<1>b. \A a, b : At(<<a, b>>) = a /\ Tail(<<a, b>>) = <<b>>
  BY DEF At
<1>c. \A a, b, c : At(<<a, b, c>>) = a /\ Tail(<<a, b, c>>) = <<b, c>>
  BY DEF At
<1>d. \A a, b, c, d : At(<<a, b, c, d>>) = a /\ Tail(<<a, b, c, d>>) = <<b, c, d>>
  BY DEF At
<1>1. ASSUME NEW a, ops \in Lasts(<<a>>)
      PROVE  At(ops) = a /\ At(Tail(ops)) = "end"
  <2>1. ops = <<a>>
    BY <1>1, <1>0
  <2> QED
    BY <2>1, <1>a, <1>b, <1>c, <1>d
<1>2. ASSUME NEW a, NEW b, ops \in Lasts(<<a, b>>)
      PROVE  \/ At(ops) = a /\ At(Tail(ops)) = b
             \/ At(ops) = b /\ At(Tail(ops)) = "end"
  <2>1. ops = <<a, b>> \/ ops = <<b>>
    BY <1>2, <1>0
  <2>2. CASE ops = <<a, b>>
    BY <2>2, <1>a, <1>b, <1>c, <1>d
  <2>3. CASE ops = <<b>>
    BY <2>3, <1>a, <1>b, <1>c, <1>d
  <2> QED
    BY <2>1, <2>2, <2>3
<1>3. ASSUME NEW a, NEW b, NEW c, ops \in Lasts(<<a, b, c>>)
      PROVE  \/ At(ops) = a /\ At(Tail(ops)) = b
             \/ At(ops) = b /\ At(Tail(ops)) = c
             \/ At(ops) = c /\ At(Tail(ops)) = "end"
  <2>1. ops = <<a, b, c>> \/ ops = <<b, c>> \/ ops = <<c>>
    BY <1>3, <1>0
  <2>2. CASE ops = <<a, b, c>>
    BY <2>2, <1>a, <1>b, <1>c, <1>d
  <2>3. CASE ops = <<b, c>>
    BY <2>3, <1>a, <1>b, <1>c, <1>d
  <2>4. CASE ops = <<c>>
    BY <2>4, <1>a, <1>b, <1>c, <1>d
  <2> QED
    BY <2>1, <2>2, <2>3, <2>4
<1>4. ASSUME NEW a, NEW b, NEW c, NEW d, ops \in Lasts(<<a, b, c, d>>)
      PROVE  \/ At(ops) = a /\ At(Tail(ops)) = b
             \/ At(ops) = b /\ At(Tail(ops)) = c
             \/ At(ops) = c /\ At(Tail(ops)) = d
             \/ At(ops) = d /\ At(Tail(ops)) = "end"
  <2>1. ops = <<a, b, c, d>> \/ ops = <<b, c, d>> \/ ops = <<c, d>> \/ ops = <<d>>
    BY <1>4, <1>0
  <2>2. CASE ops = <<a, b, c, d>>
    BY <2>2, <1>a, <1>b, <1>c, <1>d
  <2>3. CASE ops = <<b, c, d>>
    BY <2>3, <1>a, <1>b, <1>c, <1>d
  <2>4. CASE ops = <<c, d>>
    BY <2>4, <1>a, <1>b, <1>c, <1>d
  <2>5. CASE ops = <<d>>
    BY <2>5, <1>a, <1>b, <1>c, <1>d
  <2> QED
    BY <2>1, <2>2, <2>3, <2>4, <2>5
<1> QED
  BY <1>1, <1>2, <1>3, <1>4

\* The operations of each of xray's steps, one after the other.
LEMMA XrayMoves ==
    ASSUME AdTypes, kind = "xray", ops # <<>>, NEW s, s = Head(steps)
    PROVE  /\ s[1] = "write_service" =>
                \/ At(ops) = "file" /\ At(Tail(ops)) = "restart"
                \/ At(ops) = "restart" /\ At(Tail(ops)) = "record"
                \/ At(ops) = "record" /\ At(Tail(ops)) = "end"
           /\ s[1] = "write_service_hot" =>
                \/ At(ops) = "file" /\ At(Tail(ops)) = "record"
                \/ At(ops) = "record" /\ At(Tail(ops)) = "end"
           /\ s[1] = "restart_service" =>
                \/ At(ops) = "restart" /\ At(Tail(ops)) = "record"
                \/ At(ops) = "record" /\ At(Tail(ops)) = "end"
           /\ s[1] = "remove_service" =>
                \/ At(ops) = "rm applied" /\ At(Tail(ops)) = "rm file"
                \/ At(ops) = "rm file" /\ At(Tail(ops)) = "restart"
                \/ At(ops) = "restart" /\ At(Tail(ops)) = "end"
           /\ s[1] \in Rules =>
                \/ At(ops) \in {"egress and marker", "rm egress and marker"} /\ At(Tail(ops)) = "restart"
                \/ At(ops) = "restart" /\ At(Tail(ops)) = "end"
           /\ s[1] = "add_user" => At(ops) = "add user" /\ At(Tail(ops)) = "end"
<1>1. PICK q \in Apply(s, target) : ops \in Lasts(q)
  BY Underway DEF AdTypes
<1>2. CASE s[1] = "write_service"
  <2>1. ops \in Lasts(<<"file", "restart", "record">>)
    BY <1>1, <1>2, XrayAttempts
  <2> QED
    BY <1>2, <2>1, Moves DEF Rules
<1>3. CASE s[1] = "write_service_hot"
  <2>1. ops \in Lasts(<<"file", "record">>)
    BY <1>1, <1>3, XrayAttempts
  <2> QED
    BY <1>3, <2>1, Moves DEF Rules
<1>4. CASE s[1] = "restart_service"
  <2>1. ops \in Lasts(<<"restart", "record">>)
    BY <1>1, <1>4, XrayAttempts
  <2> QED
    BY <1>4, <2>1, Moves DEF Rules
<1>5. CASE s[1] = "remove_service"
  <2>1. ops \in Lasts(<<"rm applied", "rm file", "restart">>)
    BY <1>1, <1>5, XrayAttempts
  <2> QED
    BY <1>5, <2>1, Moves DEF Rules
<1>6. CASE s[1] \in Rules
  <2>1. \/ ops \in Lasts(<<"egress and marker", "restart">>)
        \/ ops \in Lasts(<<"rm egress and marker", "restart">>)
    BY <1>1, <1>6, XrayAttempts DEF Rules
  <2> QED
    BY <1>6, <2>1, Moves DEF Rules
<1>7. CASE s[1] = "add_user"
  <2>1. ops \in Lasts(<<"add user">>)
    BY <1>1, <1>7, XrayAttempts
  <2> QED
    BY <1>7, <2>1, Moves DEF Rules
<1> QED
  BY <1>2, <1>3, <1>4, <1>5, <1>6, <1>7 DEF Rules

\* The operations of each of singbox's steps.
LEMMA SingboxMoves ==
    ASSUME AdTypes, kind = "singbox", ops # <<>>, NEW s, s = Head(steps)
    PROVE  /\ s[1] = "write_service" =>
                \/ At(ops) = "file" /\ At(Tail(ops)) = "mark"
                \/ At(ops) = "mark" /\ At(Tail(ops)) = "restart"
                \/ At(ops) = "restart" /\ At(Tail(ops)) = "record"
                \/ At(ops) = "record" /\ At(Tail(ops)) = "end"
           /\ s[1] = "restart_service" =>
                \/ At(ops) = "restart" /\ At(Tail(ops)) = "record"
                \/ At(ops) = "record" /\ At(Tail(ops)) = "end"
           /\ s[1] = "remove_service" =>
                \/ At(ops) = "rm file" /\ At(Tail(ops)) = "rm mark"
                \/ At(ops) = "rm mark" /\ At(Tail(ops)) = "rm applied"
                \/ At(ops) = "rm applied" /\ At(Tail(ops)) = "restart"
                \/ At(ops) = "restart" /\ At(Tail(ops)) = "end"
           /\ s[1] = "write_egress" =>
                \/ At(ops) = "egress" /\ At(Tail(ops)) = "egress marker"
                \/ At(ops) = "egress marker" /\ At(Tail(ops)) = "restart"
                \/ At(ops) = "restart" /\ At(Tail(ops)) = "end"
           /\ s[1] = "remove_egress" =>
                \/ At(ops) = "rm egress" /\ At(Tail(ops)) = "rm egress marker"
                \/ At(ops) = "rm egress marker" /\ At(Tail(ops)) = "restart"
                \/ At(ops) = "restart" /\ At(Tail(ops)) = "end"
<1>1. PICK q \in Apply(s, target) : ops \in Lasts(q)
  BY Underway DEF AdTypes
<1>2. CASE s[1] = "write_service"
  <2>1. ops \in Lasts(<<"file", "mark", "restart", "record">>)
    BY <1>1, <1>2, SingboxAttempts
  <2> QED
    BY <1>2, <2>1, Moves
<1>3. CASE s[1] = "restart_service"
  <2>1. ops \in Lasts(<<"restart", "record">>)
    BY <1>1, <1>3, SingboxAttempts
  <2> QED
    BY <1>3, <2>1, Moves
<1>4. CASE s[1] = "remove_service"
  <2>1. ops \in Lasts(<<"rm file", "rm mark", "rm applied", "restart">>)
    BY <1>1, <1>4, SingboxAttempts
  <2> QED
    BY <1>4, <2>1, Moves
<1>5. CASE s[1] = "write_egress"
  <2>1. ops \in Lasts(<<"egress", "egress marker", "restart">>)
    BY <1>1, <1>5, SingboxAttempts
  <2> QED
    BY <1>5, <2>1, Moves
<1>6. CASE s[1] = "remove_egress"
  <2>1. ops \in Lasts(<<"rm egress", "rm egress marker", "restart">>)
    BY <1>1, <1>6, SingboxAttempts
  <2> QED
    BY <1>6, <2>1, Moves
<1> QED
  BY <1>2, <1>3, <1>4, <1>5, <1>6

\* The operations of each of wireguard's steps.
LEMMA WireguardMoves ==
    ASSUME AdTypes, kind = "wireguard", ops # <<>>, NEW s, s = Head(steps)
    PROVE  /\ s[1] \in {"install", "restart"} =>
                \/ At(ops) = "stop" /\ At(Tail(ops)) = "file"
                \/ At(ops) = "file" /\ At(Tail(ops)) = "start"
                \/ At(ops) = "start" /\ At(Tail(ops)) = "record"
                \/ At(ops) = "record" /\ At(Tail(ops)) = "end"
           /\ s[1] = "reload" =>
                \/ At(ops) = "file" /\ At(Tail(ops)) = "reload"
                \/ At(ops) = "reload" /\ At(Tail(ops)) = "record"
                \/ At(ops) = "record" /\ At(Tail(ops)) = "end"
           /\ s[1] = "remove" =>
                \/ At(ops) = "stop" /\ At(Tail(ops)) = "rm file"
                \/ At(ops) = "rm file" /\ At(Tail(ops)) = "try rm applied"
                \/ At(ops) = "try rm applied" /\ At(Tail(ops)) = "end"
<1>1. PICK q \in Apply(s, target) : ops \in Lasts(q)
  BY Underway DEF AdTypes
<1>2. CASE s[1] \in {"install", "restart"}
  <2>1. ops \in Lasts(<<"stop", "file", "start", "record">>)
    BY <1>1, <1>2, TunnelAttempts
  <2> QED
    BY <1>2, <2>1, Moves
<1>3. CASE s[1] = "reload"
  <2>1. ops \in Lasts(<<"file", "reload", "record">>)
    BY <1>1, <1>3, TunnelAttempts
  <2> QED
    BY <1>3, <2>1, Moves
<1>4. CASE s[1] = "remove"
  <2>1. ops \in Lasts(<<"stop", "rm file", "try rm applied">>)
    BY <1>1, <1>4, TunnelAttempts
  <2> QED
    BY <1>4, <2>1, Moves
<1> QED
  BY <1>2, <1>3, <1>4

\* The operations of each of hysteria2's steps.
LEMMA Hysteria2Moves ==
    ASSUME AdTypes, kind = "hysteria2", ops # <<>>, NEW s, s = Head(steps)
    PROVE  /\ s[1] \in {"install", "restart"} =>
                \/ At(ops) = "file" /\ At(Tail(ops)) = "restart"
                \/ At(ops) = "restart" /\ At(Tail(ops)) = "record"
                \/ At(ops) = "record" /\ At(Tail(ops)) = "end"
           /\ s[1] = "remove" =>
                \/ At(ops) = "stop" /\ At(Tail(ops)) = "rm file"
                \/ At(ops) = "rm file" /\ At(Tail(ops)) = "try rm applied"
                \/ At(ops) = "try rm applied" /\ At(Tail(ops)) = "end"
<1>1. PICK q \in Apply(s, target) : ops \in Lasts(q)
  BY Underway DEF AdTypes
<1>2. CASE s[1] \in {"install", "restart"}
  <2>1. ops \in Lasts(<<"file", "restart", "record">>)
    BY <1>1, <1>2, TunnelAttempts
  <2> QED
    BY <1>2, <2>1, Moves
<1>3. CASE s[1] = "remove"
  <2>1. ops \in Lasts(<<"stop", "rm file", "try rm applied">>)
    BY <1>1, <1>3, TunnelAttempts
  <2> QED
    BY <1>3, <2>1, Moves
<1> QED
  BY <1>2, <1>3

\* The operations of each of openvpn's steps.
LEMMA OpenvpnMoves ==
    ASSUME AdTypes, kind = "openvpn", ops # <<>>, NEW s, s = Head(steps)
    PROVE  /\ s[1] = "install" =>
                \/ At(ops) = "users" /\ At(Tail(ops)) = "mark"
                \/ At(ops) = "mark" /\ At(Tail(ops)) = "shape"
                \/ At(ops) = "shape" /\ At(Tail(ops)) = "restart"
                \/ At(ops) = "restart" /\ At(Tail(ops)) = "end"
           /\ s[1] = "update_config" =>
                \/ At(ops) = "shape" /\ At(Tail(ops)) = "restart"
                \/ At(ops) = "restart" /\ At(Tail(ops)) = "end"
           /\ s[1] = "sync_users" =>
                \/ At(ops) = "users" /\ At(Tail(ops)) = "mark"
                \/ At(ops) = "mark" /\ At(Tail(ops)) = "end"
           /\ s[1] = "remove" =>
                \/ At(ops) = "stop" /\ At(Tail(ops)) = "rm shape"
                \/ At(ops) = "rm shape" /\ At(Tail(ops)) = "rm mark"
                \/ At(ops) = "rm mark" /\ At(Tail(ops)) = "rm users"
                \/ At(ops) = "rm users" /\ At(Tail(ops)) = "end"
<1>1. PICK q \in Apply(s, target) : ops \in Lasts(q)
  BY Underway DEF AdTypes
<1>2. CASE s[1] = "install"
  <2>1. ops \in Lasts(<<"users", "mark", "shape", "restart">>)
    BY <1>1, <1>2, LoginAttempts
  <2> QED
    BY <1>2, <2>1, Moves
<1>3. CASE s[1] = "update_config"
  <2>1. ops \in Lasts(<<"shape", "restart">>)
    BY <1>1, <1>3, LoginAttempts
  <2> QED
    BY <1>3, <2>1, Moves
<1>4. CASE s[1] = "sync_users"
  <2>1. ops \in Lasts(<<"users", "mark">>)
    BY <1>1, <1>4, LoginAttempts
  <2> QED
    BY <1>4, <2>1, Moves
<1>5. CASE s[1] = "remove"
  <2>1. ops \in Lasts(<<"stop", "rm shape", "rm mark", "rm users">>)
    BY <1>1, <1>5, LoginAttempts
  <2> QED
    BY <1>5, <2>1, Moves
<1> QED
  BY <1>2, <1>3, <1>4, <1>5

\* The operations of each of ocserv's steps.
LEMMA OcservMoves ==
    ASSUME AdTypes, kind = "ocserv", ops # <<>>, NEW s, s = Head(steps)
    PROVE  /\ s[1] = "install" =>
                \/ At(ops) = "shape" /\ At(Tail(ops)) = "passwd"
                \/ At(ops) = "passwd" /\ At(Tail(ops)) = "restart"
                \/ At(ops) = "restart" /\ At(Tail(ops)) = "end"
           /\ s[1] = "update_config" =>
                \/ At(ops) = "shape" /\ At(Tail(ops)) = "reload"
                \/ At(ops) = "reload" /\ At(Tail(ops)) = "end"
           /\ s[1] = "sync_users" =>
                \/ At(ops) = "passwd" /\ At(Tail(ops)) = "end"
           /\ s[1] = "remove" =>
                \/ At(ops) = "stop" /\ At(Tail(ops)) = "rm shape"
                \/ At(ops) = "rm shape" /\ At(Tail(ops)) = "rm users"
                \/ At(ops) = "rm users" /\ At(Tail(ops)) = "end"
<1>1. PICK q \in Apply(s, target) : ops \in Lasts(q)
  BY Underway DEF AdTypes
<1>2. CASE s[1] = "install"
  <2>1. ops \in Lasts(<<"shape", "passwd", "restart">>)
    BY <1>1, <1>2, LoginAttempts
  <2> QED
    BY <1>2, <2>1, Moves
<1>3. CASE s[1] = "update_config"
  <2>1. ops \in Lasts(<<"shape", "reload">>)
    BY <1>1, <1>3, LoginAttempts
  <2> QED
    BY <1>3, <2>1, Moves
<1>4. CASE s[1] = "sync_users"
  <2>1. ops \in Lasts(<<"passwd">>)
    BY <1>1, <1>4, LoginAttempts
  <2> QED
    BY <1>4, <2>1, Moves
<1>5. CASE s[1] = "remove"
  <2>1. ops \in Lasts(<<"stop", "rm shape", "rm users">>)
    BY <1>1, <1>5, LoginAttempts
  <2> QED
    BY <1>5, <2>1, Moves
<1> QED
  BY <1>2, <1>3, <1>4, <1>5

\* The operations of each of l2tp's steps.
LEMMA L2tpMoves ==
    ASSUME AdTypes, kind = "l2tp", ops # <<>>, NEW s, s = Head(steps)
    PROVE  /\ s[1] = "install_configs" =>
                \/ At(ops) = "shape" /\ At(Tail(ops)) = "users"
                \/ At(ops) = "users" /\ At(Tail(ops)) = "start"
                \/ At(ops) = "start" /\ At(Tail(ops)) = "end"
                \/ At(ops) = "users" /\ At(Tail(ops)) = "shape"
                \/ At(ops) = "shape" /\ At(Tail(ops)) = "start"
                \/ At(ops) = "parse" /\ At(Tail(ops)) = "end"
           /\ s[1] = "update_configs" =>
                \/ At(ops) = "shape" /\ At(Tail(ops)) = "users"
                \/ At(ops) = "users" /\ At(Tail(ops)) = "start"
                \/ At(ops) = "start" /\ At(Tail(ops)) = "restart"
                \/ At(ops) = "restart" /\ At(Tail(ops)) = "end"
                \/ At(ops) = "users" /\ At(Tail(ops)) = "shape"
                \/ At(ops) = "shape" /\ At(Tail(ops)) = "start"
                \/ At(ops) = "parse" /\ At(Tail(ops)) = "end"
           /\ s[1] = "remove_configs" =>
                \/ At(ops) = "try stop" /\ At(Tail(ops)) = "try rm file"
                \/ At(ops) = "try rm file" /\ At(Tail(ops)) = "end"
<1>1. PICK q \in Apply(s, target) : ops \in Lasts(q)
  BY Underway DEF AdTypes
<1>0. target \in Wants
  BY DEF AdTypes
<1>2. CASE s[1] = "install_configs"
  <2>1. \/ ops \in Lasts(<<"shape", "users", "start">>)
        \/ ops \in Lasts(<<"users", "shape", "start">>)
        \/ ops \in Lasts(<<"parse">>)
    BY <1>1, <1>2, <1>0, L2tpAttempts
  <2> QED
    BY <1>2, <2>1, Moves
<1>3. CASE s[1] = "update_configs"
  <2>1. \/ ops \in Lasts(<<"shape", "users", "start", "restart">>)
        \/ ops \in Lasts(<<"users", "shape", "start", "restart">>)
        \/ ops \in Lasts(<<"parse">>)
    BY <1>1, <1>3, <1>0, L2tpAttempts
  <2> QED
    BY <1>3, <2>1, Moves
<1>4. CASE s[1] = "remove_configs"
  <2>1. ops \in Lasts(<<"try stop", "try rm file">>)
    BY <1>1, <1>4, <1>0, L2tpAttempts
  <2> QED
    BY <1>4, <2>1, Moves
<1> QED
  BY <1>2, <1>3, <1>4

-----------------------------------------------------------------------------
(* The host after the operation an attempt is at. *)

\* What the operations on the daemon, the record and the rules leave.
LEMMA DaemonAfter ==
    ASSUME AdTypes, NEW g
    PROVE  /\ g = Done("restart", host) \/ g = Done("reload", host) =>
                SameFiles(g, host) /\ Fresh(g) /\ g.applied = host.applied
           /\ g = Done("start", host) =>
                SameFiles(g, host) /\ g.applied = host.applied /\ (host.run = Down => Fresh(g))
           /\ g = Done("stop", host) \/ g = Done("try stop", host) =>
                SameFiles(g, host) /\ g.run = Down /\ g.applied = host.applied
           /\ g = Done("record", host) =>
                SameFiles(g, host) /\ g.run = host.run /\ g.applied = Rendered(target)
           /\ g = Done("rm applied", host) \/ g = Done("try rm applied", host) =>
                SameFiles(g, host) /\ g.run = host.run /\ g.applied = NoRecord
           /\ \A o \in EgressOps : g = Done(o, host) =>
                SameFiles(g, host) /\ g.run = host.run /\ g.applied = host.applied
<1>1. HostOk(host) /\ target \in Wants /\ kind \in Kinds
  BY DEF AdTypes
<1>2. /\ \A o \in {"restart", "reload", "start", "stop", "try stop"} :
           SameFiles(Done(o, host), host) /\ Done(o, host).applied = host.applied
      /\ \A o \in {"record", "rm applied", "try rm applied"} :
           SameFiles(Done(o, host), host) /\ Done(o, host).run = host.run
      /\ \A o \in {"restart", "reload"} : Fresh(Done(o, host))
      /\ host.run = Down => Fresh(Done("start", host))
      /\ \A o \in {"stop", "try stop"} : Done(o, host).run = Down
      /\ Done("record", host).applied = Rendered(target)
      /\ \A o \in {"rm applied", "try rm applied"} : Done(o, host).applied = NoRecord
  BY <1>1, DaemonEffects
<1>3. \A o \in EgressOps :
           /\ SameFiles(Done(o, host), host)
           /\ Done(o, host).run = host.run /\ Done(o, host).applied = host.applied
  BY <1>1, EgressEffects
<1> QED
  BY <1>2, <1>3

\* What the operations on the service's file and its marker leave.
LEMMA FilesAfter ==
    ASSUME AdTypes, NEW g
    PROVE  /\ g = Done("file", host) =>
                SameFile(target, g) /\ g.run = host.run /\ g.applied = host.applied /\ g.mark = host.mark
           /\ g = Done("mark", host) =>
                /\ g.shape = host.shape /\ g.users = host.users /\ g.edited = host.edited /\ g.mark
                /\ g.run = host.run /\ g.applied = host.applied
           /\ g = Done("rm file", host) \/ g = Done("try rm file", host) =>
                /\ g.shape = NoFile /\ g.users = NoPasswd /\ ~g.edited
                /\ g.run = host.run /\ g.applied = host.applied
           /\ g = Done("rm mark", host) =>
                /\ g.shape = host.shape /\ g.users = host.users /\ g.edited = host.edited
                /\ g.run = host.run /\ g.applied = host.applied
<1>1. HostOk(host) /\ target \in Wants /\ kind \in Kinds
  BY DEF AdTypes
<1>2. \A o \in FilesOps : Done(o, host).run = host.run /\ Done(o, host).applied = host.applied
  BY <1>1, OnlyFiles
<1>3. /\ "file" \in FilesOps /\ "mark" \in FilesOps /\ "rm file" \in FilesOps
      /\ "try rm file" \in FilesOps /\ "rm mark" \in FilesOps
  BY DEF FilesOps, FileOps, DropOps, MarkOps
<1>4. SameFile(target, Done("file", host)) /\ Done("file", host).mark = host.mark
  BY <1>1, FileWritten, FileEffects
<1>5. \A o \in {"rm file", "try rm file"} :
            /\ Done(o, host).shape = NoFile /\ ~Done(o, host).edited
            /\ Done(o, host).users = NoPasswd /\ Done(o, host).mark = host.mark
  BY <1>1, FileEffects
<1>6. \A o \in {"rm users", "mark", "rm mark"} :
            Done(o, host).shape = host.shape /\ Done(o, host).edited = host.edited
  BY <1>1, FileEffects
<1>7. (\A o \in {"mark", "rm mark"} : Done(o, host).users = host.users) /\ Done("mark", host).mark
  BY <1>1, FileEffects
<1> QED
  BY <1>2, <1>3, <1>4, <1>5, <1>6, <1>7

\* What the operations on the files of openvpn, ocserv and l2tp leave.
LEMMA LoginAfter ==
    ASSUME AdTypes, NEW g
    PROVE  /\ g = Done("shape", host) =>
                g.shape = target.shape /\ ~g.edited /\ g.run = host.run
           /\ g = Done("users", host) \/ g = Done("passwd", host) =>
                g.shape = host.shape /\ g.edited = host.edited /\ g.run = host.run
           /\ g = Done("rm shape", host) => g.shape = NoFile /\ ~g.edited /\ g.run = host.run
           /\ g = Done("rm users", host) \/ g = Done("mark", host) \/ g = Done("rm mark", host) =>
                g.shape = host.shape /\ g.edited = host.edited /\ g.run = host.run
<1>1. HostOk(host) /\ target \in Wants /\ kind \in Kinds
  BY DEF AdTypes
<1>2. \A o \in FilesOps : Done(o, host).run = host.run
  BY <1>1, OnlyFiles
<1>3. /\ "shape" \in FilesOps /\ "users" \in FilesOps /\ "passwd" \in FilesOps
      /\ "rm shape" \in FilesOps /\ "rm users" \in FilesOps
      /\ "mark" \in FilesOps /\ "rm mark" \in FilesOps
  BY DEF FilesOps, FileOps, DropOps, MarkOps
<1>4. Done("shape", host).shape = target.shape /\ ~Done("shape", host).edited
  BY <1>1, FileEffects
<1>5. \A o \in {"users", "passwd"} :
            /\ Done(o, host).users = Rendered(target).users /\ Done(o, host).shape = host.shape
            /\ Done(o, host).edited = host.edited /\ Done(o, host).mark = host.mark
  BY <1>1, FileEffects
<1>6. Done("rm shape", host).shape = NoFile /\ ~Done("rm shape", host).edited
  BY <1>1, FileEffects
<1>7. \A o \in {"rm users", "mark", "rm mark"} :
            Done(o, host).shape = host.shape /\ Done(o, host).edited = host.edited
  BY <1>1, FileEffects
<1> QED
  BY <1>2, <1>3, <1>4, <1>5, <1>6, <1>7

\* The management API has been told of one more user.
LEMMA UserAfter ==
    ASSUME AdTypes, Head(steps)[2] \in Credentials, NEW g, g = Done("add user", host)
    PROVE  /\ SameFiles(g, host) /\ g.applied = host.applied
           /\ g.run.shape = host.run.shape /\ g.run.edited = host.run.edited
           /\ \A c : c \in Subjects(g.run.users) <=>
                c \in Subjects(host.run.users) \/ c = Head(steps)[2][1]
<1>1. HostOk(host)
  BY DEF AdTypes
<1>2. /\ SameFiles(g, host) /\ g.applied = host.applied
      /\ g.run.shape = host.run.shape /\ g.run.edited = host.run.edited
      /\ g.run.users = Added(host.run.users, Head(steps)[2])
  BY <1>1, AddEffects
<1>3. ASSUME NEW u, NEW x
      PROVE  \A c : c \in Subjects(Added(u, x)) <=> c \in Subjects(u) \/ c = x[1]
  BY DEF Subjects, Added
<1> QED
  BY <1>2, <1>3

-----------------------------------------------------------------------------
(* What a step has done stays done. *)

\* The next operation of an xray step adds to what the step has done.
LEMMA XrayStays ==
    ASSUME AdTypes, kind = "xray", ops # <<>>, NEW s, s = Head(steps), NEW g, g = Done(Head(ops), host),
           RecordingNow(target, s, At(ops), host)
    PROVE  RecordingNow(target, s, At(Tail(ops)), g)
<1>1. /\ HostOk(host) /\ target \in Wants /\ kind \in Kinds /\ At(ops) = Head(ops)
      /\ g = Done(At(ops), host)
      /\ WriteNow(target, s, At(ops), host) /\ RemoveNow(s, At(ops), host)
  BY DEF AdTypes, At, RecordingNow
<1>c. SameFiles(g, host) =>
        /\ SameFile(target, g) <=> SameFile(target, host)
        /\ g.run = host.run => (Fresh(g) <=> Fresh(host))
        /\ g.shape = host.shape /\ g.edited = host.edited
  BY Copies
<1>2. s[1] \in {"write_service", "write_service_hot", "restart_service", "remove_service",
                "write_egress", "remove_egress", "add_user"}
  <2>1. s \in StepRows
    BY Underway
  <2> QED
    BY <1>1, <2>1, RowsOfSteps DEF KindSteps
<1> DEFINE a == At(ops)  b == At(Tail(ops))
<1> HIDE DEF a, b
<1>3. CASE s[1] = "write_service"
  <2>1. \/ a = "file" /\ b = "restart"
        \/ a = "restart" /\ b = "record"
        \/ a = "record" /\ b = "end"
    BY <1>3, XrayMoves DEF a, b
  <2>2. CASE a = "file"
    <3>1. SameFile(target, g)
      BY <1>1, <2>2, FilesAfter DEF a
    <3> QED
      BY <1>3, <2>1, <2>2, <3>1 DEF RecordingNow, WriteNow, StopNow, RemoveNow, Filing, Rewriting,
                                    Recorders, b
  <2>3. CASE a = "restart"
    <3>1. SameFile(target, g) /\ Fresh(g)
      BY <1>1, <1>3, <2>3, DaemonAfter, <1>c DEF a, WriteNow, Filing
    <3> QED
      BY <1>3, <2>1, <2>3, <3>1 DEF RecordingNow, WriteNow, StopNow, RemoveNow, Filing, Rewriting,
                                    Recorders, b
  <2>4. CASE a = "record"
    <3>1. SameFile(target, g) /\ Fresh(g) /\ g.applied = Rendered(target)
      BY <1>1, <1>3, <2>4, DaemonAfter, <1>c DEF a, WriteNow, Filing, Rewriting
    <3> QED
      BY <1>3, <2>1, <2>4, <3>1 DEF RecordingNow, WriteNow, StopNow, RemoveNow, Filing, Rewriting,
                                    Recorders, b
  <2> QED
    BY <2>1, <2>2, <2>3, <2>4
<1>4. CASE s[1] = "write_service_hot"
  <2>1. \/ a = "file" /\ b = "record"
        \/ a = "record" /\ b = "end"
    BY <1>4, XrayMoves DEF a, b
  <2>2. SameFile(target, g) /\ (a = "record" => g.applied = Rendered(target))
    BY <1>1, <1>4, <2>1, FilesAfter, DaemonAfter, <1>c DEF a, WriteNow, Filing
  <2> QED
    BY <1>4, <2>1, <2>2 DEF RecordingNow, WriteNow, StopNow, RemoveNow, Filing, Rewriting, Recorders, b
<1>5. CASE s[1] = "restart_service"
  <2>1. \/ a = "restart" /\ b = "record"
        \/ a = "record" /\ b = "end"
    BY <1>5, XrayMoves DEF a, b
  <2>2. SameFile(target, g) /\ Fresh(g) /\ (a = "record" => g.applied = Rendered(target))
    BY <1>1, <1>5, <2>1, DaemonAfter, <1>c DEF a, WriteNow, Rewriting
  <2> QED
    BY <1>1, <1>5, <2>1, <2>2 DEF RecordingNow, WriteNow, StopNow, RemoveNow, Filing, Rewriting,
                                  Recorders, b
<1>6. CASE s[1] = "remove_service"
  <2>1. \/ a = "rm applied" /\ b = "rm file"
        \/ a = "rm file" /\ b = "restart"
        \/ a = "restart" /\ b = "end"
    BY <1>6, XrayMoves DEF a, b
  <2>2. /\ g.applied = NoRecord
        /\ a # "rm applied" => g.shape = NoFile /\ ~g.edited
        /\ a = "restart" => Fresh(g)
    BY <1>1, <1>6, <2>1, FilesAfter, DaemonAfter, <1>c DEF a, RemoveNow
  <2> QED
    BY <1>1, <1>6, <2>1, <2>2 DEF RecordingNow, WriteNow, StopNow, RemoveNow, Filing, Rewriting,
                                  Recorders, b
<1>7. CASE s[1] \in Rules
  BY <1>7 DEF RecordingNow, WriteNow, StopNow, RemoveNow, Filing, Rewriting, Recorders, Rules
<1>8. CASE s[1] = "add_user"
  <2>1. Head(steps)[2] \in Credentials /\ a = "add user"
    BY <1>8, Underway, XrayMoves DEF a, At
  <2>2. s[2][1] \in Subjects(g.run.users)
    BY <1>1, <2>1, UserAfter DEF a
  <2> QED
    BY <1>8, <2>2 DEF RecordingNow, WriteNow, StopNow, RemoveNow, Filing, Rewriting, Recorders
<1> QED
  BY <1>2, <1>3, <1>4, <1>5, <1>6, <1>7, <1>8 DEF Rules

\* The same for singbox.
LEMMA SingboxStays ==
    ASSUME AdTypes, kind = "singbox", ops # <<>>, NEW s, s = Head(steps), NEW g,
           g = Done(Head(ops), host), RecordingNow(target, s, At(ops), host)
    PROVE  RecordingNow(target, s, At(Tail(ops)), g)
<1>1. /\ HostOk(host) /\ target \in Wants /\ kind \in Kinds /\ At(ops) = Head(ops)
      /\ g = Done(At(ops), host)
      /\ WriteNow(target, s, At(ops), host) /\ RemoveNow(s, At(ops), host)
  BY DEF AdTypes, At, RecordingNow
<1>c. SameFiles(g, host) =>
        /\ SameFile(target, g) <=> SameFile(target, host)
        /\ g.run = host.run => (Fresh(g) <=> Fresh(host))
        /\ g.shape = host.shape /\ g.edited = host.edited /\ g.mark = host.mark
  BY Copies DEF SameFiles
<1>2. s[1] \in {"write_service", "restart_service", "remove_service", "write_egress", "remove_egress"}
  <2>1. s \in StepRows
    BY Underway
  <2> QED
    BY <1>1, <2>1, RowsOfSteps DEF KindSteps
<1> DEFINE a == At(ops)  b == At(Tail(ops))
<1> HIDE DEF a, b
<1>3. CASE s[1] = "write_service"
  <2>1. \/ a = "file" /\ b = "mark"
        \/ a = "mark" /\ b = "restart"
        \/ a = "restart" /\ b = "record"
        \/ a = "record" /\ b = "end"
    BY <1>3, SingboxMoves DEF a, b
  <2>2. CASE a = "file"
    <3>1. SameFile(target, g)
      BY <1>1, <2>2, FilesAfter DEF a
    <3> QED
      BY <1>1, <1>3, <2>1, <2>2, <3>1
      DEF RecordingNow, WriteNow, StopNow, RemoveNow, Filing, Rewriting, Recorders, b
  <2>3. CASE a = "mark"
    <3>1. SameFile(target, host)
      BY <1>1, <1>3, <2>3 DEF a, WriteNow, Filing
    <3>2. g.mark /\ Content(g) = Content(host) /\ g.edited = host.edited
      BY <1>1, <2>3, FilesAfter DEF a, Content
    <3>3. SameFile(target, g)
      BY <3>1, <3>2 DEF SameFile
    <3> QED
      BY <1>1, <1>3, <2>1, <2>3, <3>2, <3>3
      DEF RecordingNow, WriteNow, StopNow, RemoveNow, Filing, Rewriting, Recorders, b
  <2>4. CASE a = "restart"
    <3>1. SameFile(target, g) /\ Fresh(g) /\ g.mark
      BY <1>1, <1>3, <2>4, DaemonAfter, <1>c DEF a, WriteNow, Filing
    <3> QED
      BY <1>1, <1>3, <2>1, <2>4, <3>1
      DEF RecordingNow, WriteNow, StopNow, RemoveNow, Filing, Rewriting, Recorders, b
  <2>5. CASE a = "record"
    <3>1. SameFile(target, g) /\ Fresh(g) /\ g.mark /\ g.applied = Rendered(target)
      BY <1>1, <1>3, <2>5, DaemonAfter, <1>c DEF a, WriteNow, Filing, Rewriting
    <3> QED
      BY <1>1, <1>3, <2>1, <2>5, <3>1
      DEF RecordingNow, WriteNow, StopNow, RemoveNow, Filing, Rewriting, Recorders, b
  <2> QED
    BY <2>1, <2>2, <2>3, <2>4, <2>5
<1>5. CASE s[1] = "restart_service"
  <2>1. \/ a = "restart" /\ b = "record"
        \/ a = "record" /\ b = "end"
    BY <1>5, SingboxMoves DEF a, b
  <2>2. SameFile(target, g) /\ Fresh(g) /\ g.mark /\ (a = "record" => g.applied = Rendered(target))
    BY <1>1, <1>5, <2>1, DaemonAfter, <1>c DEF a, WriteNow, Rewriting
  <2> QED
    BY <1>1, <1>5, <2>1, <2>2 DEF RecordingNow, WriteNow, StopNow, RemoveNow, Filing, Rewriting,
                                  Recorders, b
<1>6. CASE s[1] = "remove_service"
  <2>1. \/ a = "rm file" /\ b = "rm mark"
        \/ a = "rm mark" /\ b = "rm applied"
        \/ a = "rm applied" /\ b = "restart"
        \/ a = "restart" /\ b = "end"
    BY <1>6, SingboxMoves DEF a, b
  <2>2. /\ g.shape = NoFile /\ ~g.edited
        /\ a \in {"rm applied", "restart"} => g.applied = NoRecord
        /\ a = "restart" => Fresh(g)
    BY <1>1, <1>6, <2>1, FilesAfter, DaemonAfter, <1>c DEF a, RemoveNow
  <2> QED
    BY <1>1, <1>6, <2>1, <2>2 DEF RecordingNow, WriteNow, StopNow, RemoveNow, Filing, Rewriting,
                                  Recorders, b
<1>7. CASE s[1] \in Rules
  BY <1>7 DEF RecordingNow, WriteNow, StopNow, RemoveNow, Filing, Rewriting, Recorders, Rules
<1> QED
  BY <1>2, <1>3, <1>5, <1>6, <1>7 DEF Rules

\* The same for wireguard and hysteria2.
LEMMA TunnelStays ==
    ASSUME AdTypes, kind \in {"wireguard", "hysteria2"}, ops # <<>>, CanBeDone(Head(ops), host),
           NEW s, s = Head(steps), NEW g, g = Done(Head(ops), host),
           RecordingNow(target, s, At(ops), host)
    PROVE  RecordingNow(target, s, At(Tail(ops)), g)
<1>1. /\ HostOk(host) /\ target \in Wants /\ kind \in Kinds /\ At(ops) = Head(ops)
      /\ g = Done(At(ops), host)
      /\ At(ops) = "start" /\ kind = "wireguard" => host.run = Down
      /\ WriteNow(target, s, At(ops), host) /\ StopNow(s, At(ops), host)
  BY DEF AdTypes, At, RecordingNow, CanBeDone
<1>c. SameFiles(g, host) =>
        /\ SameFile(target, g) <=> SameFile(target, host)
        /\ g.run = host.run => (Fresh(g) <=> Fresh(host))
        /\ g.shape = host.shape /\ g.edited = host.edited
  BY Copies
<1>2. s[1] \in {"install", "restart", "reload", "remove"}
      /\ (s[1] = "reload" => kind = "wireguard")
  <2>1. s \in StepRows
    BY Underway
  <2> QED
    BY <1>1, <2>1, RowsOfSteps DEF KindSteps
<1> DEFINE a == At(ops)  b == At(Tail(ops))
<1> HIDE DEF a, b
<1>3. CASE s[1] \in {"install", "restart", "reload"}
  <2>1. \/ a = "stop" /\ b = "file" /\ kind = "wireguard" /\ s[1] # "reload"
        \/ a = "file" /\ b = "start" /\ kind = "wireguard" /\ s[1] # "reload"
        \/ a = "start" /\ b = "record" /\ kind = "wireguard" /\ s[1] # "reload"
        \/ a = "file" /\ b \in {"reload", "restart"} /\ (s[1] = "reload" \/ kind # "wireguard")
        \/ a \in {"reload", "restart"} /\ b = "record" /\ (s[1] = "reload" \/ kind # "wireguard")
        \/ a = "record" /\ b = "end"
    BY <1>2, <1>3, WireguardMoves, Hysteria2Moves DEF a, b
  <2>2. CASE a = "stop"
    BY <1>3, <2>1, <2>2
    DEF RecordingNow, WriteNow, StopNow, RemoveNow, Filing, Rewriting, Recorders, b
  <2>3. CASE a = "file"
    <3>1. SameFile(target, g)
      BY <1>1, <2>3, FilesAfter DEF a
    <3> QED
      BY <1>3, <2>1, <2>3, <3>1
      DEF RecordingNow, WriteNow, StopNow, RemoveNow, Filing, Rewriting, Recorders, b
  <2>4. CASE a \in {"start", "reload", "restart"}
    <3>1. a = "start" => host.run = Down
      BY <1>1, <2>1 DEF a
    <3>2. SameFile(target, host)
      BY <1>1, <1>3, <2>4 DEF a, WriteNow, Filing
    <3>3. SameFile(target, g) /\ Fresh(g)
      BY <1>1, <1>c, <2>4, <3>1, <3>2, DaemonAfter DEF a
    <3> QED
      BY <1>3, <2>1, <2>4, <3>3
      DEF RecordingNow, WriteNow, StopNow, RemoveNow, Filing, Rewriting, Recorders, b
  <2>5. CASE a = "record"
    <3>1. SameFile(target, g) /\ Fresh(g) /\ g.applied = Rendered(target)
      BY <1>1, <1>3, <2>5, DaemonAfter, <1>c DEF a, WriteNow, Filing, Rewriting
    <3> QED
      BY <1>3, <2>1, <2>5, <3>1
      DEF RecordingNow, WriteNow, StopNow, RemoveNow, Filing, Rewriting, Recorders, b
  <2> QED
    BY <2>1, <2>2, <2>3, <2>4, <2>5
<1>4. CASE s[1] = "remove"
  <2>1. \/ a = "stop" /\ b = "rm file"
        \/ a = "rm file" /\ b = "try rm applied"
        \/ a = "try rm applied" /\ b = "end"
    BY <1>4, WireguardMoves, Hysteria2Moves DEF a, b
  <2>2. a # "stop" => g.shape = NoFile /\ ~g.edited
    BY <1>1, <1>4, <1>c, <2>1, FilesAfter, DaemonAfter DEF a, StopNow
  <2> QED
    BY <1>4, <2>1, <2>2 DEF RecordingNow, WriteNow, StopNow, RemoveNow, Filing, Rewriting, Recorders, b
<1> QED
  BY <1>2, <1>3, <1>4

\* The same for openvpn and ocserv.
LEMMA LoginStays ==
    ASSUME AdTypes, kind \in Logins, ops # <<>>, NEW s, s = Head(steps), NEW g,
           g = Done(Head(ops), host), LoginNow(target, s, At(ops), host)
    PROVE  LoginNow(target, s, At(Tail(ops)), g)
<1>1. /\ HostOk(host) /\ target \in Wants /\ kind \in Kinds /\ At(ops) = Head(ops)
      /\ g = Done(At(ops), host)
  BY DEF AdTypes, At
<1>c. SameFiles(g, host) => g.shape = host.shape /\ g.edited = host.edited
  BY DEF SameFiles
<1>2. s[1] \in {"install", "update_config", "sync_users", "remove"}
  <2>1. s \in StepRows
    BY Underway
  <2> QED
    BY <1>1, <2>1, RowsOfSteps DEF KindSteps, Logins
<1> DEFINE a == At(ops)  b == At(Tail(ops))
<1> HIDE DEF a, b
<1>3. CASE s[1] \in {"install", "update_config"}
  <2>1. \/ a = "users" /\ b = "mark"
        \/ a = "mark" /\ b = "shape"
        \/ a = "shape" /\ b \in {"restart", "reload", "passwd"}
        \/ a = "passwd" /\ b = "restart"
        \/ a \in {"restart", "reload"} /\ b = "end"
    BY <1>3, OpenvpnMoves, OcservMoves DEF a, b, Logins
  <2>2. CASE a \in {"users", "mark"}
    BY <1>3, <2>1, <2>2 DEF LoginNow, b
  <2>3. CASE a = "shape"
    <3>1. g.shape = target.shape /\ ~g.edited
      BY <1>1, <2>3, LoginAfter DEF a
    <3> QED
      BY <1>3, <2>1, <2>3, <3>1 DEF LoginNow, b
  <2>4. CASE a = "passwd"
    <3>1. g.shape = target.shape /\ ~g.edited
      BY <1>1, <1>3, <2>4, LoginAfter DEF a, LoginNow
    <3> QED
      BY <1>3, <2>1, <2>4, <3>1 DEF LoginNow, b
  <2>5. CASE a \in {"restart", "reload"}
    <3>1. g.shape = target.shape /\ ~g.edited /\ Fresh(g)
      BY <1>1, <1>3, <1>c, <2>5, DaemonAfter DEF a, LoginNow
    <3> QED
      BY <1>3, <2>1, <2>5, <3>1 DEF LoginNow, b, Fresh
  <2> QED
    BY <2>1, <2>2, <2>3, <2>4, <2>5
<1>4. CASE s[1] = "sync_users"
  BY <1>4 DEF LoginNow
<1>5. CASE s[1] = "remove"
  <2>1. \/ a = "stop" /\ b = "rm shape"
        \/ a = "rm shape" /\ b \in {"rm mark", "rm users"}
        \/ a = "rm mark" /\ b = "rm users"
        \/ a = "rm users" /\ b = "end"
    BY <1>5, OpenvpnMoves, OcservMoves DEF a, b, Logins
  <2>2. g.run = Down
    BY <1>1, <1>5, <2>1, LoginAfter, DaemonAfter DEF a, LoginNow
  <2>3. a # "stop" => g.shape = NoFile /\ ~g.edited
    BY <1>1, <1>5, <2>1, LoginAfter DEF a, LoginNow
  <2> QED
    BY <1>5, <2>1, <2>2, <2>3 DEF LoginNow, b
<1> QED
  BY <1>2, <1>3, <1>4, <1>5

\* The same for l2tp.
LEMMA L2tpStays ==
    ASSUME AdTypes, kind = "l2tp", ops # <<>>, CanBeDone(Head(ops), host), NEW s, s = Head(steps), NEW g,
           g = Done(Head(ops), host), L2tpNow(target, s, ops, host)
    PROVE  L2tpNow(target, s, Tail(ops), g)
<1>1. target \in Wants /\ Head(ops) # "parse" /\ (SameFiles(g, host) => g.shape = host.shape)
  BY DEF AdTypes, CanBeDone, SameFiles
<1>2. ASSUME s[1] \in {"install_configs", "update_configs"}, Tail(ops) \in ShapeWritten
      PROVE  g.shape = target.shape
  <2>1. PICK q \in Apply(s, target) : ops \in Lasts(q)
    BY Underway DEF AdTypes
  <2>2. q \in {<<"shape", "users", "start">>, <<"users", "shape", "start">>,
              <<"shape", "users", "start", "restart">>, <<"users", "shape", "start", "restart">>,
              <<"parse">>}
    BY <1>1, <1>2, <2>1, L2tpAttempts
  <2>3. \/ ops \in {<<"shape", "users", "start">>, <<"shape", "start">>,
                    <<"shape", "users", "start", "restart">>, <<"shape", "start", "restart">>}
        \/ ops \in {<<"users", "start">>, <<"start">>, <<"users", "start", "restart">>,
                    <<"start", "restart">>, <<"restart">>}
        \/ ops \in {<<"users", "shape", "start">>, <<"users", "shape", "start", "restart">>}
        \/ ops = <<"parse">>
    <3>1. \A a, b, c, d :
            /\ Lasts(<<a>>) = {<<a>>, <<>>}
            /\ Lasts(<<a, b>>) = {<<a, b>>, <<b>>, <<>>}
            /\ Lasts(<<a, b, c>>) = {<<a, b, c>>, <<b, c>>, <<c>>, <<>>}
            /\ Lasts(<<a, b, c, d>>) = {<<a, b, c, d>>, <<b, c, d>>, <<c, d>>, <<d>>, <<>>}
      BY LastOperations
    <3>2. /\ Lasts(<<"shape", "users", "start">>) =
                {<<"shape", "users", "start">>, <<"users", "start">>, <<"start">>, <<>>}
          /\ Lasts(<<"users", "shape", "start">>) =
                {<<"users", "shape", "start">>, <<"shape", "start">>, <<"start">>, <<>>}
          /\ Lasts(<<"shape", "users", "start", "restart">>) =
                {<<"shape", "users", "start", "restart">>, <<"users", "start", "restart">>,
                 <<"start", "restart">>, <<"restart">>, <<>>}
          /\ Lasts(<<"users", "shape", "start", "restart">>) =
                {<<"users", "shape", "start", "restart">>, <<"shape", "start", "restart">>,
                 <<"start", "restart">>, <<"restart">>, <<>>}
          /\ Lasts(<<"parse">>) = {<<"parse">>, <<>>}
      BY <3>1
    <3> QED
      BY <2>1, <2>2, <3>2
  <2>4. CASE ops \in {<<"shape", "users", "start">>, <<"shape", "start">>,
                     <<"shape", "users", "start", "restart">>, <<"shape", "start", "restart">>}
    <3>1. Head(ops) = "shape"
      BY <2>4
    <3> QED
      BY <3>1, LoginAfter
  <2>5. CASE ops \in {<<"users", "start">>, <<"start">>, <<"users", "start", "restart">>,
                     <<"start", "restart">>, <<"restart">>}
    <3>1. host.shape = target.shape
      BY <1>2, <2>5 DEF L2tpNow, ShapeWritten
    <3>2. Head(ops) \in {"users", "start", "restart"}
      BY <2>5
    <3>3. CASE Head(ops) = "users"
      BY <3>1, <3>3, LoginAfter
    <3>4. CASE Head(ops) \in {"start", "restart"}
      BY <1>1, <3>1, <3>4, DaemonAfter
    <3> QED
      BY <3>2, <3>3, <3>4
  <2>6. CASE ops \in {<<"users", "shape", "start">>, <<"users", "shape", "start", "restart">>}
    <3>1. Tail(ops) = <<"shape", "start">> \/ Tail(ops) = <<"shape", "start", "restart">>
      <4>1. \A a, b, c, d : Tail(<<a, b, c>>) = <<b, c>> /\ Tail(<<a, b, c, d>>) = <<b, c, d>>
        OBVIOUS
      <4>2. CASE ops = <<"users", "shape", "start">>
        BY <4>1, <4>2
      <4>3. CASE ops = <<"users", "shape", "start", "restart">>
        BY <4>1, <4>3
      <4> QED
        BY <2>6, <4>2, <4>3
    <3>2. <<"shape", "start">> \notin ShapeWritten /\ <<"shape", "start", "restart">> \notin ShapeWritten
      BY DEF ShapeWritten
    <3> QED
      BY <1>2, <3>1, <3>2
  <2> QED
    BY <1>1, <2>3, <2>4, <2>5, <2>6
<1> QED
  BY <1>2 DEF L2tpNow

\* What the step under way has done, after one more of its operations.
LEMMA NowStays ==
    ASSUME AdTypes, ops # <<>>, CanBeDone(Head(ops), host), Now(target, Head(steps), ops, host),
           NEW g, g = Done(Head(ops), host)
    PROVE  Now(target, Head(steps), Tail(ops), g)
<1>1. kind \in Recording => RecordingNow(target, Head(steps), At(Tail(ops)), g)
  BY XrayStays, SingboxStays, TunnelStays DEF Now, Recording
<1>2. kind \in Logins => LoginNow(target, Head(steps), At(Tail(ops)), g)
  BY LoginStays DEF Now
<1>3. kind = "l2tp" => L2tpNow(target, Head(steps), Tail(ops), g)
  BY L2tpStays DEF Now
<1> QED
  BY <1>1, <1>2, <1>3 DEF Now

-----------------------------------------------------------------------------
(* The beginning of an attempt. *)

\* Where the attempts at a removal begin.
LEMMA LongAttempts ==
    /\ \A q : q = <<"rm file", "rm mark", "rm applied", "restart">> => q # <<>> /\ At(q) = "rm file"
    /\ \A q : q = <<"stop", "rm shape", "rm mark", "rm users">> => q # <<>> /\ At(q) = "stop"
    /\ \A q : q = <<"stop", "rm shape", "rm users">> => q # <<>> /\ At(q) = "stop"
<1>1. \A a, b, c, d : <<a, b, c, d>> # <<>> /\ At(<<a, b, c, d>>) = a
  BY DEF At
<1>2. \A a, b, c : <<a, b, c>> # <<>> /\ At(<<a, b, c>>) = a
  BY DEF At
<1>3. ASSUME NEW q, q = <<"rm file", "rm mark", "rm applied", "restart">>
      PROVE  q # <<>> /\ At(q) = "rm file"
  BY <1>1, <1>3
<1>4. ASSUME NEW q, q = <<"stop", "rm shape", "rm mark", "rm users">>
      PROVE  q # <<>> /\ At(q) = "stop"
  BY <1>1, <1>4
<1>5. ASSUME NEW q, q = <<"stop", "rm shape", "rm users">>
      PROVE  q # <<>> /\ At(q) = "stop"
  BY <1>2, <1>5
<1> QED
  BY <1>3, <1>4, <1>5

\* Where an attempt begins.
LEMMA FirstOperations ==
    ASSUME kind \in Kinds, NEW s \in StepRows, NEW t \in Wants, NEW q \in Apply(s, t)
    PROVE  /\ q # <<>> /\ At(q) # "end"
           /\ s[1] \in Filing /\ kind # "l2tp" /\ kind \notin Logins => At(q) \in {"file", "stop"}
           /\ kind = "wireguard" /\ s[1] \in {"install", "restart"} => At(q) = "stop"
           /\ s[1] = "restart_service" => At(q) = "restart"
           /\ s[1] = "remove" => At(q) = "stop"
           /\ s[1] = "remove_service" =>
                At(q) = IF kind = "xray" THEN "rm applied" ELSE "rm file"
           /\ s[1] = "add_user" => At(q) = "add user"
           /\ s[1] \in {"install", "update_config"} => At(q) \notin {"passwd", "restart", "reload"}
           /\ s[1] = "remove_configs" => At(q) = "try stop"
           /\ s[1] \in {"install_configs", "update_configs"} => q \notin ShapeWritten
<1>0. /\ \A a : <<a>> # <<>> /\ At(<<a>>) = a
      /\ \A a, b : <<a, b>> # <<>> /\ At(<<a, b>>) = a
      /\ \A a, b, c : <<a, b, c>> # <<>> /\ At(<<a, b, c>>) = a
      /\ \A a, b, c, d : <<a, b, c, d>> # <<>> /\ At(<<a, b, c, d>>) = a
  BY DEF At
<1>1. /\ kind \in AllKinds
      /\ \/ s[1] \in KindSteps /\ s[1] # "add_user"
         \/ s[1] = "add_user" /\ kind = "xray"
  BY RowsOfSteps, AdaptersAssumption
<1>2. CASE kind = "xray"
  <2>1. s[1] \in {"write_service", "write_service_hot", "restart_service", "remove_service",
                  "write_egress", "remove_egress", "add_user"}
    BY <1>1, <1>2 DEF KindSteps
  <2>2. ASSUME s[1] = "write_service"
        PROVE  q # <<>> /\ (At(q) = "file")
    <3>1. q \in {<<"file", "restart", "record">>}
      BY <1>2, <2>2, XrayAttempts
    <3>2. q = <<"file", "restart", "record">>
      BY <3>1
    <3> QED
      BY <3>2, <1>0
  <2>3. ASSUME s[1] = "write_service_hot"
        PROVE  q # <<>> /\ (At(q) = "file")
    <3>1. q \in {<<"file", "record">>}
      BY <1>2, <2>3, XrayAttempts
    <3>2. q = <<"file", "record">>
      BY <3>1
    <3> QED
      BY <3>2, <1>0
  <2>4. ASSUME s[1] = "restart_service"
        PROVE  q # <<>> /\ (At(q) = "restart")
    <3>1. q \in {<<"restart", "record">>}
      BY <1>2, <2>4, XrayAttempts
    <3>2. q = <<"restart", "record">>
      BY <3>1
    <3> QED
      BY <3>2, <1>0
  <2>5. ASSUME s[1] = "remove_service"
        PROVE  q # <<>> /\ (At(q) = "rm applied")
    <3>1. q \in {<<"rm applied", "rm file", "restart">>}
      BY <1>2, <2>5, XrayAttempts
    <3>2. q = <<"rm applied", "rm file", "restart">>
      BY <3>1
    <3> QED
      BY <3>2, <1>0
  <2>6. ASSUME s[1] = "write_egress"
        PROVE  q # <<>> /\ (At(q) = "egress and marker")
    <3>1. q \in {<<"egress and marker", "restart">>}
      BY <1>2, <2>6, XrayAttempts
    <3>2. q = <<"egress and marker", "restart">>
      BY <3>1
    <3> QED
      BY <3>2, <1>0
  <2>7. ASSUME s[1] = "remove_egress"
        PROVE  q # <<>> /\ (At(q) = "rm egress and marker")
    <3>1. q \in {<<"rm egress and marker", "restart">>}
      BY <1>2, <2>7, XrayAttempts
    <3>2. q = <<"rm egress and marker", "restart">>
      BY <3>1
    <3> QED
      BY <3>2, <1>0
  <2>8. ASSUME s[1] = "add_user"
        PROVE  q # <<>> /\ (At(q) = "add user")
    <3>1. q \in {<<"add user">>}
      BY <1>2, <2>8, XrayAttempts
    <3>2. q = <<"add user">>
      BY <3>1
    <3> QED
      BY <3>2, <1>0
  <2> QED
    BY <1>2, <2>1, <2>2, <2>3, <2>4, <2>5, <2>6, <2>7, <2>8 DEF Filing, Logins
<1>3. CASE kind = "singbox"
  <2>1. s[1] \in {"write_service", "restart_service", "remove_service", "write_egress",
                  "remove_egress"}
    BY <1>1, <1>3 DEF KindSteps
  <2>2. ASSUME s[1] = "write_service"
        PROVE  q # <<>> /\ (At(q) = "file")
    <3>1. q \in {<<"file", "mark", "restart", "record">>}
      BY <1>3, <2>2, SingboxAttempts
    <3>2. q = <<"file", "mark", "restart", "record">>
      BY <3>1
    <3> QED
      BY <3>2, <1>0
  <2>3. ASSUME s[1] = "restart_service"
        PROVE  q # <<>> /\ (At(q) = "restart")
    <3>1. q \in {<<"restart", "record">>}
      BY <1>3, <2>3, SingboxAttempts
    <3>2. q = <<"restart", "record">>
      BY <3>1
    <3> QED
      BY <3>2, <1>0
  <2>4. ASSUME s[1] = "remove_service"
        PROVE  q # <<>> /\ (At(q) = "rm file")
    <3>1. q \in {<<"rm file", "rm mark", "rm applied", "restart">>}
      BY <1>3, <2>4, SingboxAttempts
    <3>2. q = <<"rm file", "rm mark", "rm applied", "restart">>
      BY <3>1
    <3> QED
      BY <3>2, LongAttempts
  <2>5. ASSUME s[1] = "write_egress"
        PROVE  q # <<>> /\ (At(q) = "egress")
    <3>1. q \in {<<"egress", "egress marker", "restart">>}
      BY <1>3, <2>5, SingboxAttempts
    <3>2. q = <<"egress", "egress marker", "restart">>
      BY <3>1
    <3> QED
      BY <3>2, <1>0
  <2>6. ASSUME s[1] = "remove_egress"
        PROVE  q # <<>> /\ (At(q) = "rm egress")
    <3>1. q \in {<<"rm egress", "rm egress marker", "restart">>}
      BY <1>3, <2>6, SingboxAttempts
    <3>2. q = <<"rm egress", "rm egress marker", "restart">>
      BY <3>1
    <3> QED
      BY <3>2, <1>0
  <2> QED
    BY <1>3, <2>1, <2>2, <2>3, <2>4, <2>5, <2>6 DEF Filing, Logins
<1>4. CASE kind \in {"wireguard", "hysteria2"}
  <2>1. s[1] \in {"install", "restart", "reload", "remove"} /\ (s[1] = "reload" => kind = "wireguard")
    BY <1>1, <1>4 DEF KindSteps
  <2>2. ASSUME s[1] \in {"install", "restart"} /\ kind = "wireguard"
        PROVE  q # <<>> /\ (At(q) = "stop")
    <3>1. q \in {<<"stop", "file", "start", "record">>}
      BY <1>4, <2>2, TunnelAttempts
    <3>2. q = <<"stop", "file", "start", "record">>
      BY <3>1
    <3> QED
      BY <3>2, <1>0
  <2>3. ASSUME s[1] \in {"install", "restart"} /\ kind = "hysteria2"
        PROVE  q # <<>> /\ (At(q) = "file")
    <3>1. q \in {<<"file", "restart", "record">>}
      BY <1>4, <2>3, TunnelAttempts
    <3>2. q = <<"file", "restart", "record">>
      BY <3>1
    <3> QED
      BY <3>2, <1>0
  <2>4. ASSUME s[1] = "reload" /\ kind = "wireguard"
        PROVE  q # <<>> /\ (At(q) = "file")
    <3>1. q \in {<<"file", "reload", "record">>}
      BY <1>4, <2>4, TunnelAttempts
    <3>2. q = <<"file", "reload", "record">>
      BY <3>1
    <3> QED
      BY <3>2, <1>0
  <2>5. ASSUME s[1] = "remove"
        PROVE  q # <<>> /\ (At(q) = "stop")
    <3>1. q \in {<<"stop", "rm file", "try rm applied">>}
      BY <1>4, <2>5, TunnelAttempts
    <3>2. q = <<"stop", "rm file", "try rm applied">>
      BY <3>1
    <3> QED
      BY <3>2, <1>0
  <2> QED
    BY <1>4, <2>1, <2>2, <2>3, <2>4, <2>5 DEF Filing, Logins
<1>5. CASE kind \in {"openvpn", "ocserv"}
  <2>1. s[1] \in {"install", "update_config", "sync_users", "remove"}
    BY <1>1, <1>5 DEF KindSteps
  <2>2. ASSUME s[1] = "install" /\ kind = "openvpn"
        PROVE  q # <<>> /\ (At(q) = "users")
    <3>1. q \in {<<"users", "mark", "shape", "restart">>}
      BY <1>5, <2>2, LoginAttempts
    <3>2. q = <<"users", "mark", "shape", "restart">>
      BY <3>1
    <3> QED
      BY <3>2, <1>0
  <2>3. ASSUME s[1] = "install" /\ kind = "ocserv"
        PROVE  q # <<>> /\ (At(q) = "shape")
    <3>1. q \in {<<"shape", "passwd", "restart">>}
      BY <1>5, <2>3, LoginAttempts
    <3>2. q = <<"shape", "passwd", "restart">>
      BY <3>1
    <3> QED
      BY <3>2, <1>0
  <2>4. ASSUME s[1] = "update_config"
        PROVE  q # <<>> /\ (At(q) = "shape")
    <3>1. q \in {<<"shape", "restart">>} \/ q \in {<<"shape", "reload">>}
      BY <1>5, <2>4, LoginAttempts
    <3>2. q = <<"shape", "restart">> \/ q = <<"shape", "reload">>
      BY <3>1
    <3> QED
      BY <3>2, <1>0
  <2>5. ASSUME s[1] = "sync_users"
        PROVE  q # <<>> /\ (At(q) = "users" \/ At(q) = "passwd")
    <3>1. q \in {<<"users", "mark">>} \/ q \in {<<"passwd">>}
      BY <1>5, <2>5, LoginAttempts
    <3>2. q = <<"users", "mark">> \/ q = <<"passwd">>
      BY <3>1
    <3> QED
      BY <3>2, <1>0
  <2>6. ASSUME s[1] = "remove"
        PROVE  q # <<>> /\ (At(q) = "stop")
    <3>1. \/ q \in {<<"stop", "rm shape", "rm mark", "rm users">>}
          \/ q \in {<<"stop", "rm shape", "rm users">>}
      BY <1>5, <2>6, LoginAttempts
    <3>2. q = <<"stop", "rm shape", "rm mark", "rm users">> \/ q = <<"stop", "rm shape", "rm users">>
      BY <3>1
    <3> QED
      BY <3>2, LongAttempts
  <2> QED
    BY <1>5, <2>1, <2>2, <2>3, <2>4, <2>5, <2>6 DEF Filing, Logins
<1>6. CASE kind = "l2tp"
  <2>1. s[1] \in {"install_configs", "update_configs", "remove_configs"}
    BY <1>1, <1>6 DEF KindSteps
  <2>2. ASSUME s[1] \in {"install_configs", "update_configs"}
        PROVE  q # <<>> /\ (At(q) = "shape" \/ At(q) = "users" \/ At(q) = "parse")
    <3>1. \/ q \in {<<"shape", "users", "start">>}
          \/ q \in {<<"users", "shape", "start">>}
          \/ q \in {<<"shape", "users", "start", "restart">>}
          \/ q \in {<<"users", "shape", "start", "restart">>}
          \/ q \in {<<"parse">>}
      BY <1>6, <2>2, L2tpAttempts
    <3>2. \/ q = <<"shape", "users", "start">>
          \/ q = <<"users", "shape", "start">>
          \/ q = <<"shape", "users", "start", "restart">>
          \/ q = <<"users", "shape", "start", "restart">>
          \/ q = <<"parse">>
      BY <3>1
    <3> QED
      BY <3>2, <1>0
  <2>3. ASSUME s[1] = "remove_configs"
        PROVE  q # <<>> /\ (At(q) = "try stop")
    <3>1. q \in {<<"try stop", "try rm file">>}
      BY <1>6, <2>3, L2tpAttempts
    <3>2. q = <<"try stop", "try rm file">>
      BY <3>1
    <3> QED
      BY <3>2, <1>0
  <2>4. ASSUME s[1] \in {"install_configs", "update_configs"}
        PROVE  q \notin ShapeWritten
    <3>1. q \in {<<"shape", "users", "start">>, <<"users", "shape", "start">>,
                <<"shape", "users", "start", "restart">>, <<"users", "shape", "start", "restart">>,
                <<"parse">>}
      BY <1>6, <2>4, L2tpAttempts
    <3> QED
      BY <3>1 DEF ShapeWritten
  <2> QED
    BY <1>6, <2>1, <2>2, <2>3, <2>4 DEF Filing, Logins
<1> QED
  BY <1>1, <1>2, <1>3, <1>4, <1>5, <1>6 DEF AllKinds, Logins

\* The plan is what lets a step begin.
Begun(t, s, h) ==
    /\ kind = "xray" /\ s[1] = "write_service" => ~additive(t, h) \/ SameFile(t, h)
    /\ s[1] = "restart_service" => SameFile(t, h) /\ (kind = "singbox" => h.mark)

\* An attempt that may begin has nothing to show yet.
LEMMA NowBegins ==
    ASSUME kind \in Kinds, NEW s \in StepRows, NEW t \in Wants, NEW q \in Apply(s, t), NEW h, Begun(t, s, h)
    PROVE  Now(t, s, q, h)
<1>1. kind \in Recording => RecordingNow(t, s, At(q), h)
  BY FirstOperations DEF RecordingNow, WriteNow, StopNow, RemoveNow, Begun, Recording, Logins,
                         Filing, Rewriting, Recorders
<1>2. kind \in Logins => LoginNow(t, s, At(q), h)
  BY FirstOperations DEF LoginNow
<1>3. kind = "l2tp" => L2tpNow(t, s, q, h)
  BY FirstOperations DEF L2tpNow
<1> QED
  BY <1>1, <1>2, <1>3 DEF Now

-----------------------------------------------------------------------------
(* What is kept while a step goes on. *)

\* The adapter edits no file by hand.
LEMMA NotEdited ==
    ASSUME AdTypes, ops # <<>>, CanBeDone(Head(ops), host), ~host.edited, NEW g, g = Done(Head(ops), host)
    PROVE  ~g.edited
<1>1. Head(ops) \in Operations /\ Head(ops) # "parse"
      /\ (Head(ops) = "add user" => Head(steps)[2] \in Credentials)
      /\ HostOk(host) /\ target \in Wants /\ kind \in Kinds
  BY Underway DEF AdTypes, CanBeDone
<1>2. SameFiles(g, host) => ~g.edited
  BY DEF SameFiles
<1>3. CASE Head(ops) \in EgressOps
  BY <1>2, <1>3, DaemonAfter
<1>4. CASE Head(ops) \in {"restart", "reload", "start", "stop", "try stop", "record", "rm applied",
                          "try rm applied"}
  BY <1>2, <1>4, DaemonAfter
<1>5. CASE Head(ops) = "file"
  <2>1. SameFile(target, g)
    BY <1>5, FilesAfter
  <2> QED
    BY <2>1 DEF SameFile
<1>6. CASE Head(ops) \in {"mark", "rm file", "try rm file", "rm mark"}
  BY <1>6, FilesAfter
<1>7. CASE Head(ops) \in {"shape", "users", "passwd", "rm shape", "rm users"}
  BY <1>7, LoginAfter
<1>8. CASE Head(ops) = "add user"
  BY <1>1, <1>2, <1>8, UserAfter
<1> QED
  BY <1>1, <1>3, <1>4, <1>5, <1>6, <1>7, <1>8 DEF Operations, EgressOps

\* The first of the steps.
LEMMA FirstStep ==
    ASSUME AdTypes, ~Idle
    PROVE  /\ steps # <<>> /\ steps \in Seq(StepRows) /\ Len(steps) \in Nat \ {0}
           /\ Head(steps) = steps[1] /\ Head(steps) \in StepRows
  BY DEF AdTypes, Idle

\* A daemon that reads an unedited file the record is true of serves what the record says.
LEMMA ReloadedIsTrue ==
    ASSUME NEW g, NEW h, SameFiles(g, h), g.applied = h.applied, Fresh(g), ~h.edited, CleanRecord(h),
           Content(h) = h.applied, h.applied # NoRecord
    PROVE  Content(g) = g.applied /\ Runs(g, g.applied) /\ g.run.users = g.applied.users
<1>1. /\ g.shape = h.shape /\ g.users = h.users /\ g.edited = h.edited /\ Content(g) = Content(h)
      /\ h.shape = h.applied.shape /\ h.users = h.applied.users
  BY Copies DEF Content
<1>2. h.users \ NoPasswd = h.users
  BY <1>1 DEF CleanRecord, NoPasswd
<1> QED
  BY <1>1, <1>2 DEF Fresh, Runs

\* Without a file a daemon that has read what there is serves nothing.
LEMMA FreshRunsNothing ==
    ASSUME NEW g, HostOk(g), Fresh(g), kind \in {"xray", "singbox"}
    PROVE  NothingRuns(g)
<1>1. g.shape = NoFile => ~g.edited
  BY DEF HostOk
<1> QED
  BY <1>1 DEF NothingRuns, Gone, Fresh

\* The rules' steps of xray and singbox.
LEMMA RulesKeep ==
    ASSUME AdTypes, kind \in {"xray", "singbox"}, ops # <<>>, steps[1][1] \in Rules,
           NEW w, NEW a, NEW b, CleanRecord(host),
           RecordingKept(desired, target, steps, a, host, w),
           NEW g, HostOk(g), SameFiles(g, host), g.applied = host.applied, g.run = host.run \/ Fresh(g)
    PROVE  RecordingKept(desired, target, steps, b, g, w)
<1>1. /\ NothingRuns(host) /\ HotReady(target, host) /\ RecordTrue(target, w, host)
      /\ Marked(w, host) /\ ~host.edited /\ (w => desired = target) /\ steps # <<>>
  BY Underway DEF RecordingKept, Rules, Idle
<1>2. /\ g.shape = host.shape /\ g.users = host.users /\ g.edited = host.edited /\ g.mark = host.mark
      /\ Content(g) = Content(host) /\ (SameFile(target, g) <=> SameFile(target, host))
  BY Copies DEF SameFiles
<1>3. Marked(w, g)
  BY <1>1, <1>2 DEF Marked
<1>4. CASE g.run = host.run
  <2>1. NothingRuns(g) /\ HotReady(target, g) /\ RecordTrue(target, w, g)
    BY <1>1, <1>4, Copies
  <2> QED
    BY <1>1, <1>2, <1>3, <2>1 DEF RecordingKept, Rules, Hot
<1>5. CASE Fresh(g)
  <2>1. NothingRuns(g)
    BY <1>5, FreshRunsNothing
  <2>2. RecordTrue(target, w, g)
    <3>1. target \in Wants /\ kind \in Kinds
      BY DEF AdTypes
    <3>2. Rendered(target) # NoRecord
      BY <3>1, Renderings
    <3>3. ASSUME (~w /\ g.applied # NoRecord) \/ g.applied = Rendered(target)
          PROVE  Content(g) = g.applied /\ Runs(g, g.applied)
      <4>1. Content(host) = host.applied /\ host.applied # NoRecord
        BY <1>1, <3>2, <3>3 DEF RecordTrue
      <4> QED
        BY <1>1, <1>5, <4>1, ReloadedIsTrue
    <3> QED
      BY <3>3 DEF RecordTrue
  <2>3. HotReady(target, g)
    <3>1. ASSUME kind = "xray", additive(target, g), ~SameFile(target, g)
          PROVE  /\ Content(g) = g.applied /\ Among(target, g)
                 /\ Subjects(g.applied.users) \subseteq Subjects(g.run.users)
      <4>1. additive(target, host)
        BY <1>2, <3>1 DEF additive
      <4>2. Content(host) = host.applied /\ host.applied # NoRecord
        BY <1>1, <1>2, <3>1, <4>1 DEF HotReady, additive
      <4>3. Content(g) = g.applied /\ Runs(g, g.applied) /\ g.run.users = g.applied.users
        BY <1>1, <1>5, <4>2, ReloadedIsTrue
      <4>4. g.run.shape = target.shape /\ ~g.run.edited
        BY <1>1, <1>2, <1>5, <3>1 DEF Fresh, additive
      <4> QED
        BY <3>1, <4>3, <4>4 DEF Among, additive
    <3> QED
      BY <3>1 DEF HotReady
  <2> QED
    BY <1>1, <1>2, <1>3, <2>1, <2>2, <2>3 DEF RecordingKept, Rules, Hot
<1> QED
  BY <1>4, <1>5

\* One more user of the target's has been added on the hot path.
LEMMA UserKeeps ==
    ASSUME AdTypes, kind = "xray", ops # <<>>, steps[1][1] = "add_user", At(ops) = "add user",
           steps[1][2] \in target.users,
           NEW w, NEW a, NEW b, RecordingKept(desired, target, steps, a, host, w),
           NEW g, g = Done("add user", host)
    PROVE  RecordingKept(desired, target, steps, b, g, w)
<1>1. /\ NothingRuns(host) /\ HotReady(target, host) /\ Adding(target, steps, host)
      /\ (w => ~host.edited /\ desired = target) /\ steps # <<>>
  BY Underway DEF RecordingKept, Rules, Hot, Idle
<1>2. Head(steps) = steps[1] /\ Head(steps)[2] \in Credentials
  BY Underway, FirstStep DEF At
<1>3. /\ SameFiles(g, host) /\ g.applied = host.applied
      /\ g.run.shape = host.run.shape /\ g.run.edited = host.run.edited
      /\ \A c : c \in Subjects(g.run.users) <=>
           c \in Subjects(host.run.users) \/ c = steps[1][2][1]
  BY <1>2, UserAfter
<1>4. /\ g.shape = host.shape /\ g.edited = host.edited /\ Content(g) = Content(host)
      /\ (SameFile(target, g) <=> SameFile(target, host))
      /\ (additive(target, g) <=> additive(target, host))
  <2>1. SameFiles(g, host) /\ g.applied = host.applied
    BY <1>3
  <2>2. Content(g) = Content(host) /\ g.edited = host.edited /\ g.shape = host.shape
    BY <2>1 DEF SameFiles, Content
  <2>3. SameFile(target, g) <=> SameFile(target, host)
    BY <2>2 DEF SameFile
  <2>4. additive(target, g) <=> additive(target, host)
    BY <2>1, <2>2 DEF additive
  <2> QED
    BY <2>2, <2>3, <2>4
<1>5. steps[1][2][1] \in Subjects(target.users)
  BY DEF Subjects
<1>6. /\ Subjects(host.run.users) \subseteq Subjects(g.run.users)
      /\ Subjects(host.run.users) \subseteq Subjects(target.users) =>
             Subjects(g.run.users) \subseteq Subjects(target.users)
  BY <1>3, <1>5
<1>7. NothingRuns(g)
  BY <1>1, <1>3, <1>4 DEF NothingRuns, Gone
<1>8. HotReady(target, g)
  BY <1>1, <1>3, <1>4, <1>6 DEF HotReady, Among
<1>9. Adding(target, steps, g)
  BY <1>1, <1>3, <1>4, <1>6 DEF Adding, Among
<1> QED
  BY <1>1, <1>4, <1>7, <1>8, <1>9 DEF RecordingKept, Rules, Hot

\* A step that has written the target's file.
LEMMA WrittenKeeps ==
    ASSUME AdTypes, steps # <<>>, steps[1][1] \in Rewriting,
           NEW w, w => desired = target, NEW b, NEW g, SameFile(target, g)
    PROVE  RecordingKept(desired, target, steps, b, g, w)
<1>1. NothingRuns(g) /\ HotReady(target, g) /\ ~g.edited
  BY FileThere DEF AdTypes
<1> QED
  BY <1>1 DEF RecordingKept, Rewriting, Rules, Hot

\* An operation of an xray step keeps what must hold while it is under way.
LEMMA XrayKeeps ==
    ASSUME AdTypes, kind = "xray", ops # <<>>, CanBeDone(Head(ops), host), CleanRecord(host),
           Planned(target, steps), RecordingNow(target, Head(steps), At(ops), host),
           RecordingKept(desired, target, steps, At(ops), host, torn),
           NEW g, g = Done(Head(ops), host), NEW w, w => torn,
           steps[1][1] \in Rules => w = torn
    PROVE  RecordingKept(desired, target, steps, At(Tail(ops)), g, w)
<1> DEFINE s == Head(steps)  a == At(ops)  b == At(Tail(ops))
<1>1. /\ HostOk(host) /\ target \in Wants /\ kind \in Kinds /\ At(ops) = Head(ops)
      /\ g = Done(At(ops), host) /\ steps # <<>> /\ ~Idle
  BY Underway DEF AdTypes, At, Idle
<1>2. s = steps[1] /\ Len(steps) \in Nat \ {0}
  BY <1>1, FirstStep
<1>3. s[1] \in {"write_service", "write_service_hot", "restart_service", "remove_service",
                "write_egress", "remove_egress", "add_user"}
  <2>1. s \in StepRows
    BY Underway
  <2> QED
    BY <1>1, <2>1, RowsOfSteps DEF KindSteps
<1>4. RecordingNow(target, s, b, g)
  BY XrayStays
<1>5. w => ~g.edited /\ desired = target
  BY NotEdited DEF RecordingKept
<1>6. CASE s[1] \in {"write_service", "restart_service"}
  <2>1. SameFile(target, g)
    <3>1. s[1] = "write_service" => b \in {"restart", "record", "end"}
      BY XrayMoves
    <3> QED
      BY <1>4, <1>6, <3>1 DEF RecordingNow, WriteNow, Filing
  <2> QED
    BY <1>1, <1>2, <1>5, <1>6, <2>1, WrittenKeeps DEF Rewriting
<1>7. CASE s[1] = "write_service_hot"
  <2>1. a \in {"file", "record"} /\ b \in {"record", "end"}
    BY <1>7, XrayMoves
  <2>2. SameFile(target, g)
    BY <1>4, <1>7, <2>1 DEF RecordingNow, WriteNow, Filing
  <2>3. g.run = host.run
    BY <1>1, <2>1, FilesAfter, DaemonAfter
  <2>4. NothingRuns(g) /\ HotReady(target, g)
    BY <1>1, <2>2, FileThere
  <2>5. Adding(target, steps, g)
    <3>1. Adding(target, steps, host)
      BY <1>1, <1>2, <1>7 DEF RecordingKept, Hot
    <3> QED
      BY <2>2, <2>3, <3>1 DEF Adding, Among
  <2> QED
    BY <1>2, <1>5, <1>7, <2>4, <2>5 DEF RecordingKept, Rules
<1>8. CASE s[1] = "remove_service"
  BY <1>1, <1>2, <1>5, <1>8 DEF RecordingKept, Rules, Hot
<1>9. CASE s[1] \in Rules
  <2>1. \/ a \in {"egress and marker", "rm egress and marker"}
        \/ a = "restart"
    BY <1>9, XrayMoves
  <2>2. /\ SameFiles(g, host) /\ g.applied = host.applied
        /\ g.run = host.run \/ Fresh(g)
    BY <1>1, <2>1, DaemonAfter DEF EgressOps
  <2>3. HostOk(g) /\ w = torn
    BY <1>2, <1>9, DoneIsOk
  <2> HIDE DEF a, b
  <2> QED
    BY <1>2, <1>9, <2>2, <2>3, RulesKeep DEF a
<1>10. CASE s[1] = "add_user"
  <2>1. a = "add user"
    BY <1>10, XrayMoves
  <2>2. steps[1][2] \in target.users
    BY <1>2, <1>10 DEF Planned
  <2>3. RecordingKept(desired, target, steps, b, g, torn)
    BY <1>1, <1>2, <1>10, <2>1, <2>2, UserKeeps
  <2> QED
    BY <1>2, <1>10, <2>3, <1>5 DEF RecordingKept, Rules, Hot
<1> QED
  BY <1>3, <1>6, <1>7, <1>8, <1>9, <1>10 DEF Rules

\* The same for singbox.
LEMMA SingboxKeeps ==
    ASSUME AdTypes, kind = "singbox", ops # <<>>, CanBeDone(Head(ops), host), CleanRecord(host),
           RecordingNow(target, Head(steps), At(ops), host),
           RecordingKept(desired, target, steps, At(ops), host, torn),
           NEW g, g = Done(Head(ops), host), NEW w, w => torn,
           steps[1][1] \in Rules => w = torn
    PROVE  RecordingKept(desired, target, steps, At(Tail(ops)), g, w)
<1> DEFINE s == Head(steps)  a == At(ops)  b == At(Tail(ops))
<1>1. /\ HostOk(host) /\ target \in Wants /\ kind \in Kinds /\ At(ops) = Head(ops)
      /\ g = Done(At(ops), host) /\ steps # <<>> /\ ~Idle
  BY Underway DEF AdTypes, At, Idle
<1>2. s = steps[1] /\ Len(steps) \in Nat \ {0}
  BY <1>1, FirstStep
<1>3. s[1] \in {"write_service", "restart_service", "remove_service", "write_egress", "remove_egress"}
  <2>1. s \in StepRows
    BY Underway
  <2> QED
    BY <1>1, <2>1, RowsOfSteps DEF KindSteps
<1>4. RecordingNow(target, s, b, g)
  BY SingboxStays
<1>5. w => ~g.edited /\ desired = target
  BY NotEdited DEF RecordingKept
<1>6. CASE s[1] \in {"write_service", "restart_service"}
  <2>1. SameFile(target, g)
    <3>1. s[1] = "write_service" => b \in {"mark", "restart", "record", "end"}
      BY SingboxMoves
    <3> QED
      BY <1>4, <1>6, <3>1 DEF RecordingNow, WriteNow, Filing
  <2> QED
    BY <1>1, <1>2, <1>5, <1>6, <2>1, WrittenKeeps DEF Rewriting
<1>8. CASE s[1] = "remove_service"
  BY <1>1, <1>2, <1>5, <1>8 DEF RecordingKept, Rules, Hot
<1>9. CASE s[1] \in Rules
  <2>1. \/ a \in {"egress", "egress marker", "rm egress", "rm egress marker"}
        \/ a = "restart"
    BY <1>9, SingboxMoves DEF Rules
  <2>2. /\ SameFiles(g, host) /\ g.applied = host.applied
        /\ g.run = host.run \/ Fresh(g)
    BY <1>1, <2>1, DaemonAfter DEF EgressOps
  <2>3. HostOk(g) /\ w = torn
    BY <1>2, <1>9, DoneIsOk
  <2> HIDE DEF a, b
  <2> QED
    BY <1>2, <1>9, <2>2, <2>3, RulesKeep DEF a
<1> QED
  BY <1>3, <1>6, <1>8, <1>9 DEF Rules

\* The same for wireguard and hysteria2.
LEMMA TunnelKeeps ==
    ASSUME AdTypes, kind \in {"wireguard", "hysteria2"}, ops # <<>>, CanBeDone(Head(ops), host),
           RecordingNow(target, Head(steps), At(ops), host),
           RecordingKept(desired, target, steps, At(ops), host, torn),
           NEW g, g = Done(Head(ops), host), NEW w, w => torn
    PROVE  RecordingKept(desired, target, steps, At(Tail(ops)), g, w)
<1> DEFINE s == Head(steps)  a == At(ops)  b == At(Tail(ops))
<1>1. /\ HostOk(host) /\ target \in Wants /\ kind \in Kinds /\ At(ops) = Head(ops)
      /\ g = Done(At(ops), host) /\ steps # <<>> /\ ~Idle
  BY Underway DEF AdTypes, At, Idle
<1>2. s = steps[1] /\ Len(steps) \in Nat \ {0}
  BY <1>1, FirstStep
<1>3. s[1] \in {"install", "restart", "reload", "remove"} /\ (s[1] = "reload" => kind = "wireguard")
  <2>1. s \in StepRows
    BY Underway
  <2> QED
    BY <1>1, <2>1, RowsOfSteps DEF KindSteps
<1>4. RecordingNow(target, s, b, g)
  BY TunnelStays
<1>5. w => ~g.edited /\ desired = target
  BY NotEdited DEF RecordingKept
<1>6. CASE s[1] \in {"install", "restart", "reload"}
  <2>1. CASE a = "stop"
    <3>1. g.run = Down
      BY <1>1, <2>1, DaemonAfter
    <3>2. NothingRuns(g) /\ HotReady(target, g)
      BY <3>1 DEF NothingRuns, HotReady, Down
    <3> QED
      BY <1>2, <1>5, <1>6, <3>2 DEF RecordingKept, Rules, Hot
  <2>2. CASE a # "stop"
    <3>1. b \in {"start", "reload", "restart", "record", "end"}
      BY <1>3, <1>6, <2>2, WireguardMoves, Hysteria2Moves
    <3>2. SameFile(target, g)
      BY <1>4, <1>6, <3>1 DEF RecordingNow, WriteNow, Filing
    <3> QED
      BY <1>1, <1>2, <1>5, <1>6, <3>2, WrittenKeeps DEF Rewriting
  <2> QED
    BY <2>1, <2>2
<1>7. CASE s[1] = "remove"
  <2>1. /\ a \in {"stop", "rm file", "try rm applied"} /\ b # "stop"
        /\ b = "end" => a = "try rm applied"
    BY <1>7, WireguardMoves, Hysteria2Moves
  <2>2. g.run = Down
    <3>1. a # "stop" => host.run = Down
      BY <1>1, <1>2, <1>7 DEF RecordingKept
    <3>2. a \in {"stop", "rm file", "try rm applied"}
      BY <2>1
    <3> QED
      BY <1>1, <3>1, <3>2, FilesAfter, DaemonAfter
  <2>3. NothingRuns(g) /\ HotReady(target, g)
    BY <2>2 DEF NothingRuns, HotReady, Down
  <2>4. b = "end" => g.applied = NoRecord
    BY <1>1, <2>1, DaemonAfter
  <2> QED
    BY <1>2, <1>5, <1>7, <2>2, <2>3, <2>4 DEF RecordingKept, Rules, Hot
<1> QED
  BY <1>3, <1>6, <1>7

\* A restart that is over makes up for whatever went unrecorded before it.
LEMMA RestartKeeps ==
    ASSUME AdTypes, kind \in Recording, ops # <<>>, CanBeDone(Head(ops), host), Restarted,
           Now(target, Head(steps), ops, host), NEW g, g = Done(Head(ops), host)
    PROVE  RecordingKept(desired, target, steps, At(Tail(ops)), g, FALSE)
<1> DEFINE s == Head(steps)  a == At(ops)  b == At(Tail(ops))
<1>1. /\ target \in Wants /\ kind \in Kinds /\ a = Head(ops) /\ steps # <<>> /\ ~Idle
      /\ s \in StepRows
  BY Underway DEF AdTypes, At, Idle
<1>2. s = steps[1]
  BY <1>1, FirstStep
<1>3. RecordingNow(target, s, b, g)
  BY NowStays DEF Now
<1>4. CASE a = "restart" /\ s[1] = "remove_service"
  BY <1>1, <1>2, <1>4 DEF RecordingKept, Rules, Hot
<1>5. CASE a = "record" /\ s[1] \notin {"write_service_hot", "reload"}
  <2>1. s[1] \in {"write_service", "restart_service", "install", "restart"} /\ b = "end"
    <3>1. CASE kind = "xray"
      <4>1. s[1] \in {"write_service", "write_service_hot", "restart_service", "remove_service",
                "write_egress", "remove_egress", "add_user"}
        BY <1>1, <3>1, RowsOfSteps DEF KindSteps
      <4> QED
        BY <1>5, <3>1, <4>1, XrayMoves DEF Rules
    <3>2. CASE kind = "singbox"
      <4>1. s[1] \in {"write_service", "restart_service", "remove_service",
                "write_egress", "remove_egress"}
        BY <1>1, <3>2, RowsOfSteps DEF KindSteps
      <4> QED
        BY <1>5, <3>2, <4>1, SingboxMoves
    <3>3. CASE kind \in {"wireguard", "hysteria2"}
      <4>1. s[1] \in {"install", "restart", "reload", "remove"}
        BY <1>1, <3>3, RowsOfSteps DEF KindSteps
      <4> QED
        BY <1>5, <3>3, <4>1, WireguardMoves, Hysteria2Moves
    <3> QED
      BY <3>1, <3>2, <3>3 DEF Recording
  <2>2. SameFile(target, g)
    BY <1>3, <2>1 DEF RecordingNow, WriteNow, Filing
  <2> QED
    BY <1>1, <1>2, <2>1, <2>2, WrittenKeeps DEF Rewriting
<1> QED
  BY <1>1, <1>4, <1>5 DEF Restarted, Recording

\* The same for openvpn and ocserv, where a restart ends every excuse.
LEMMA LoginKeeps ==
    ASSUME AdTypes, kind \in Logins, ops # <<>>, LoginKept(steps, host, FALSE),
           NEW g, g = Done(Head(ops), host)
    PROVE  LoginKept(steps, g, FALSE)
<1>1. /\ kind \in Kinds /\ At(ops) = Head(ops) /\ steps # <<>> /\ ~Idle /\ Head(steps) = steps[1]
  BY Underway, FirstStep DEF AdTypes, At, Idle
<1>2. ASSUME steps[1][1] = "sync_users"
      PROVE  g.run.shape = g.shape /\ ~g.run.edited
  <2>1. At(ops) \in {"users", "mark", "passwd"}
    BY <1>1, <1>2, OpenvpnMoves, OcservMoves DEF Logins
  <2>2. host.run.shape = host.shape /\ ~host.run.edited
    BY <1>1, <1>2 DEF LoginKept
  <2>3. g.shape = host.shape /\ g.run = host.run
    BY <1>1, <2>1, LoginAfter
  <2> QED
    BY <2>2, <2>3
<1> QED
  BY <1>1, <1>2 DEF LoginKept

\* The same for l2tp.
LEMMA L2tpKeeps ==
    ASSUME AdTypes, kind = "l2tp", ops # <<>>, L2tpKept(steps, At(ops), host),
           NEW g, g = Done(Head(ops), host)
    PROVE  L2tpKept(steps, At(Tail(ops)), g)
<1>1. /\ kind \in Kinds /\ At(ops) = Head(ops) /\ steps # <<>> /\ ~Idle /\ Head(steps) = steps[1]
  BY Underway, FirstStep DEF AdTypes, At, Idle
<1>2. ASSUME steps[1][1] = "remove_configs"
      PROVE  g.run = Down
  <2>1. At(ops) \in {"try stop", "try rm file"}
    BY <1>1, <1>2, L2tpMoves
  <2>2. CASE At(ops) = "try stop"
    BY <1>1, <2>2, DaemonAfter
  <2>3. CASE At(ops) = "try rm file"
    <3>1. host.run = Down
      BY <1>1, <1>2, <2>3 DEF L2tpKept
    <3>2. g.run = host.run
      BY <1>1, <2>3, FilesAfter
    <3> QED
      BY <3>1, <3>2
  <2> QED
    BY <2>1, <2>2, <2>3
<1> QED
  BY <1>1, <1>2 DEF L2tpKept

\* What is kept, after one more operation of the step under way.
LEMMA KeptStays ==
    ASSUME AdTypes, ops # <<>>, CanBeDone(Head(ops), host), CleanRecord(host), Planned(target, steps),
           Now(target, Head(steps), ops, host), ~excused \/ Restarted,
           ~excused => Kept(desired, target, steps, At(ops), host, torn),
           NEW g, g = Done(Head(ops), host), NEW w, w = (torn /\ ~Restarted)
    PROVE  Kept(desired, target, steps, At(Tail(ops)), g, w)
<1>1. /\ kind \in Kinds /\ kind \in AllKinds /\ torn \in BOOLEAN /\ steps # <<>> /\ ~Idle
      /\ Head(steps) = steps[1]
  BY Underway, FirstStep, AdaptersAssumption DEF AdTypes, Idle
<1>2. CASE kind \in Recording
  <2>1. CASE Restarted
    <3>1. RecordingKept(desired, target, steps, At(Tail(ops)), g, FALSE)
      BY <1>2, <2>1, RestartKeeps
    <3>2. w = FALSE
      BY <2>1
    <3> QED
      BY <1>2, <3>1, <3>2 DEF Kept, Recording, Logins
  <2>2. CASE ~Restarted
    <3>1. w = torn
      BY <1>1, <2>2
    <3>2. /\ RecordingKept(desired, target, steps, At(ops), host, torn)
          /\ RecordingNow(target, Head(steps), At(ops), host)
      BY <1>2, <2>2 DEF Kept, Now
    <3>3. RecordingKept(desired, target, steps, At(Tail(ops)), g, torn)
      BY <1>2, <3>2, XrayKeeps, SingboxKeeps, TunnelKeeps DEF Recording
    <3> QED
      BY <1>2, <3>1, <3>3 DEF Kept, Recording, Logins
  <2> QED
    BY <2>1, <2>2
<1>3. CASE kind \in Logins
  <2>1. w = FALSE
    <3>1. ~excused => LoginKept(steps, host, torn)
      BY <1>3 DEF Kept
    <3> QED
      BY <1>1, <3>1 DEF LoginKept
  <2>2. CASE ~excused
    <3>1. LoginKept(steps, host, FALSE)
      BY <1>1, <1>3, <2>2 DEF Kept, LoginKept
    <3> QED
      BY <1>3, <2>1, <3>1, LoginKeeps DEF Kept, Recording, Logins
  <2>3. CASE Restarted
    <3>1. steps[1][1] # "sync_users"
      <4>1. ASSUME steps[1][1] = "sync_users" PROVE FALSE
        <5>1. Head(ops) \in {"users", "mark", "passwd"}
          BY <1>1, <1>3, <4>1, OpenvpnMoves, OcservMoves DEF Logins, At
        <5> QED
          BY <2>3, <5>1 DEF Restarted
      <4> QED
        BY <4>1
    <3>2. LoginKept(steps, g, FALSE)
      BY <1>1, <3>1 DEF LoginKept
    <3> QED
      BY <1>3, <2>1, <3>2 DEF Kept, Recording, Logins
  <2> QED
    BY <2>2, <2>3
<1>4. CASE kind = "l2tp"
  <2>1. ~Restarted
    <3>1. Head(ops) \in Operations
      BY Underway
    <3>2. ASSUME Restarted PROVE FALSE
      <4>1. Head(ops) \in {"shape", "users", "start", "restart", "parse", "try stop", "try rm file"}
            /\ Head(steps)[1] # "remove_service"
        <5>1. Head(steps)[1] \in {"install_configs", "update_configs", "remove_configs"}
          <6>1. Head(steps) \in StepRows
            BY Underway
          <6> QED
            BY <1>1, <1>4, <6>1, RowsOfSteps DEF KindSteps
        <5> QED
          BY <1>4, <5>1, L2tpMoves DEF At
      <4> QED
        BY <1>4, <3>2, <4>1 DEF Restarted
    <3> QED
      BY <3>2
  <2>2. L2tpKept(steps, At(ops), host)
    BY <1>4, <2>1 DEF Kept
  <2>3. L2tpKept(steps, At(Tail(ops)), g)
    BY <1>4, <2>2, L2tpKeeps
  <2> QED
    BY <1>4, <2>3 DEF Kept, Recording, Logins
<1> QED
  BY <1>1, <1>2, <1>3, <1>4 DEF AllKinds, Recording, Logins

\* A record holds what was rendered, or nothing.
LEMMA RecordStays ==
    ASSUME AdTypes, ops # <<>>, CanBeDone(Head(ops), host), CleanRecord(host),
           NEW g, g = Done(Head(ops), host)
    PROVE  CleanRecord(g)
<1>1. Head(ops) \in Operations /\ Head(ops) # "parse"
      /\ (Head(ops) = "add user" => Head(steps)[2] \in Credentials)
      /\ HostOk(host) /\ target \in Wants /\ kind \in Kinds
  BY Underway DEF AdTypes, CanBeDone
<1>2. g.applied \in {host.applied, NoRecord, Rendered(target)}
  <2>1. CASE Head(ops) \in FilesOps
    BY <1>1, <2>1, OnlyFiles
  <2>2. CASE Head(ops) \in EgressOps
    BY <2>2, DaemonAfter
  <2>3. CASE Head(ops) \in {"restart", "reload", "start", "stop", "try stop", "record", "rm applied",
                            "try rm applied"}
    BY <2>3, DaemonAfter
  <2>4. CASE Head(ops) = "add user"
    BY <1>1, <2>4, UserAfter
  <2> QED
    BY <1>1, <2>1, <2>2, <2>3, <2>4 DEF Operations, FilesOps, FileOps, DropOps, MarkOps, EgressOps
<1>3. Rendered(target).users \ NoPasswd = Rendered(target).users
  BY <1>1, Renderings
<1> QED
  BY <1>2, <1>3 DEF CleanRecord, NoPasswd

\* An operation succeeds.
LEMMA OperateKeeps ==
    ASSUME AdInv, Operate, AdTypes'
    PROVE  AdInv'
<1>1. /\ ops # <<>> /\ CanBeDone(Head(ops), host) /\ host' = Done(Head(ops), host) /\ ops' = Tail(ops)
      /\ kind' = kind /\ desired' = desired /\ target' = target /\ steps' = steps
      /\ torn' = (torn /\ ~Restarted) /\ excused' = (excused /\ ~Restarted)
  BY DEF Operate
<1>2. /\ AdTypes /\ CleanRecord(host) /\ Planned(target, steps)
      /\ ~Idle => Now(target, steps[1], ops, host)
      /\ ~excused => Kept(desired, target, steps, At(ops), host, torn)
  BY DEF AdInv
<1>3. ~Idle /\ steps # <<>> /\ Head(steps) = steps[1]
  BY <1>1, <1>2, Underway, FirstStep DEF Idle
<1>4. CleanRecord(host')
  BY <1>1, <1>2, RecordStays
<1>5. Now(target, Head(steps), Tail(ops), host')
  BY <1>1, <1>2, <1>3, NowStays
<1>6. ASSUME ~excused'
      PROVE  Kept(desired, target, steps, At(Tail(ops)), host', torn')
  <2>1. ~excused \/ Restarted
    BY <1>1, <1>6
  <2> QED
    BY <1>1, <1>2, <1>3, <2>1, KeptStays
<1>7. ConvergedIsServed'
  BY <1>1, <1>3 DEF ConvergedIsServed, Idle
<1> QED
  BY <1>1, <1>2, <1>3, <1>4, <1>5, <1>6, <1>7, InvAfter

-----------------------------------------------------------------------------
(* An empty plan. *)

\* The host is one the adapter can do nothing about, or the document is.
Stuck(t, h) ==
    \/ h.shape = Foreign /\ kind \notin {"wireguard", "hysteria2"}
    \/ h.edited /\ kind \in {"openvpn", "ocserv"}
    \/ kind = "openvpn" /\ h.shape # NoFile /\ (~h.mark \/ h.users = NoPasswd)
    \/ kind = "singbox" /\ h.shape # NoFile /\ ~h.mark
    \/ kind = "singbox" /\ h.egress # 0 /\ ~h.egmark
    \/ ~t.valid
    \/ kind \in {"xray", "singbox"} /\ t.users # Usable(t.users)

\* Blocked, said of a document and a host.
LEMMA BlockedIsStuck == Blocked <=> Stuck(target, host)
BY DEF Blocked, Stuck

\* Where the daemon runs no service, none is served.
LEMMA NothingServed ==
    ASSUME NEW h, NEW t, h.run.shape = NoFile, ~h.run.edited, h \in HostRows,
           t.service # "on", t.service = "off" => kind \notin {"wireguard", "hysteria2"}
    PROVE  Matches(Served(h), Asked(t))
<1>1. h.run.edited \in BOOLEAN
  BY DEF HostRows, Runnings
<1>2. /\ Served(h).shape = NoFile /\ Served(h).users = {} /\ Served(h).edited = FALSE
      /\ Asked(t).shape = NoFile /\ Asked(t).users = {} /\ Asked(t).edited = FALSE
  BY <1>1 DEF Served, Asked
<1> QED
  BY <1>2 DEF Matches

\* Where the daemon serves what the document's rendering says, that is served.
LEMMA RecordServed ==
    ASSUME NEW h, h \in HostRows, NEW t \in Wants, kind \in Kinds, kind \in Recording,
           Runs(h, Rendered(t)),
           t.service = "on" \/ (t.service = "off" /\ kind \in {"wireguard", "hysteria2"})
    PROVE  Matches(Served(h), Asked(t))
<1>1. t.shape # NoFile /\ Rendered(t).shape = t.shape
  BY Renderings DEF NoFile
<1>2. h.run.edited = FALSE
  BY DEF HostRows, Runnings, Runs
<1>3. /\ Served(h).shape = t.shape /\ Served(h).edited = FALSE /\ Served(h).users = h.run.users
      /\ Asked(t).shape = t.shape /\ Asked(t).edited = FALSE /\ Asked(t).users = Rendered(t).users
  BY <1>1, <1>2 DEF Served, Asked, Runs, Recording
<1> QED
  BY <1>3 DEF Matches, Runs, Recording

\* Nothing is left of a sequence only if nothing was there.
LEMMA EmptyParts ==
    ASSUME NEW T, NEW p \in Seq(T), NEW e \in Seq(T), p \o e = <<>>
    PROVE  p = <<>>
<1>1. Len(p) \in Nat /\ Len(e) \in Nat /\ Len(p \o e) = Len(p) + Len(e)
  BY ConcatProperties
<1>2. Len(p \o e) = 0
  BY EmptySeq
<1>3. Len(p) = 0
  BY <1>1, <1>2
<1> QED
  BY <1>3, EmptySeq

\* The part of xray's and singbox's plan about the service is one of steps.
LEMMA ServiceParts ==
    ASSUME kind \in {"xray", "singbox"}, kind \in Kinds, NEW d \in Wants
    PROVE  /\ EgressPlans \subseteq Seq(StepRows)
           /\ {<<>>, <<<<"remove_service">>>>, <<<<"restart_service">>>>, <<<<"write_service">>>>}
                \subseteq Seq(StepRows)
           /\ kind = "xray" => AddAll(d.users) \o <<<<"write_service_hot">>>> \in Seq(StepRows)
<1>1. \A n \in KindSteps : <<n>> \in StepRows /\ <<<<n>>>> \in Seq(StepRows)
  BY DEF StepRows
<1>2. {"remove_service", "restart_service", "write_service", "write_egress", "remove_egress"}
            \subseteq KindSteps
  BY DEF KindSteps
<1>3. <<>> \in Seq(StepRows)
  OBVIOUS
<1>4. d.users \in SUBSET Credentials /\ IsFiniteSet(d.users)
  BY Renderings
<1> QED
  BY <1>1, <1>2, <1>3, <1>4, HotPlans DEF EgressPlans

\* When xray plans nothing, its daemon serves what the document asks for.
LEMMA XrayServes ==
    ASSUME kind = "xray", kind \in Kinds, NEW t \in Wants, NEW d, NEW a, NEW h, NEW w, HostOk(h),
           Kept(d, t, <<>>, a, h, w), Plan(t, h) = <<>>, ~Stuck(t, h)
    PROVE  Matches(Served(h), Asked(t))
<1>1. h \in HostRows /\ t.service \in Services
  BY Renderings DEF HostOk
<1>2. NothingRuns(h) /\ RecordTrue(t, w, h)
  BY DEF Kept, Recording, RecordingKept
<1>3. Plan(t, h) # Refused
  BY DEF Refused
<1>4. PICK p, e : /\ Plan(t, h) = p \o e /\ e \in EgressPlans
                  /\ \/ p = <<>> /\ t.service # "on" /\ ~XrayManaged(h)
                     \/ p = <<>> /\ t.service = "on" /\ t.valid /\ SameFile(t, h) /\ h.applied = Rendered(t)
                     \/ p = <<<<"remove_service">>>> /\ t.service # "on" /\ XrayManaged(h)
                     \/ p = <<<<"restart_service">>>> /\ t.service = "on" /\ SameFile(t, h)
                     \/ p = <<<<"write_service">>>> /\ t.service = "on" /\ ~additive(t, h)
                     \/ p = AddAll(t.users) \o <<<<"write_service_hot">>>>
                             /\ t.service = "on" /\ additive(t, h) /\ ~SameFile(t, h)
  BY <1>3, XrayPlans
<1>5. e \in Seq(StepRows) /\ p \in Seq(StepRows)
  BY <1>4, ServiceParts
<1>6. p = <<>>
  BY <1>4, <1>5, EmptyParts
<1>7. CASE t.service # "on"
  <2>1. ~XrayManaged(h)
    BY <1>4, <1>6, <1>7
  <2>2. h.shape = NoFile
    BY <2>1 DEF Stuck, XrayManaged
  <2>3. h.run.shape = NoFile /\ ~h.run.edited
    BY <1>2, <2>2 DEF NothingRuns, Gone
  <2> QED
    BY <1>1, <1>7, <2>3, NothingServed
<1>8. CASE t.service = "on"
  <2>1. h.applied = Rendered(t)
    <3>1. AddAll(t.users) \o <<<<"write_service_hot">>>> # <<>>
      <4>1. t.users \in SUBSET Credentials /\ IsFiniteSet(t.users)
        BY Renderings
      <4>2. PICK n \in Nat : Len(AddAll(t.users) \o <<<<"write_service_hot">>>>) = n + 1
        BY <4>1, HotPlans
      <4>3. Len(AddAll(t.users) \o <<<<"write_service_hot">>>>) # 0
        BY <4>2
      <4> QED
        BY <4>3
    <3> QED
      BY <1>4, <1>6, <1>8, <3>1
  <2>2. Runs(h, Rendered(t))
    BY <1>2, <2>1 DEF RecordTrue
  <2> QED
    BY <1>1, <1>8, <2>2, RecordServed DEF Recording
<1> QED
  BY <1>7, <1>8

\* The same for singbox.
LEMMA SingboxServes ==
    ASSUME kind = "singbox", kind \in Kinds, NEW t \in Wants, NEW d, NEW a, NEW h, NEW w, HostOk(h),
           Kept(d, t, <<>>, a, h, w), Plan(t, h) = <<>>, ~Stuck(t, h)
    PROVE  Matches(Served(h), Asked(t))
<1>1. h \in HostRows /\ t.service \in Services
  BY Renderings DEF HostOk
<1>2. NothingRuns(h) /\ RecordTrue(t, w, h)
  BY DEF Kept, Recording, RecordingKept
<1>3. Plan(t, h) # Refused
  BY DEF Refused
<1>4. PICK p, e : /\ Plan(t, h) = p \o e /\ e \in EgressPlans
                  /\ \/ p = <<>> /\ t.service # "on" /\ ~SingboxManaged(h)
                     \/ p = <<>> /\ t.service = "on" /\ t.valid /\ SameFile(t, h) /\ h.applied = Rendered(t)
                     \/ p = <<<<"remove_service">>>> /\ t.service # "on" /\ SingboxManaged(h)
                     \/ p = <<<<"restart_service">>>> /\ t.service = "on" /\ SameFile(t, h) /\ h.mark
                     \/ p = <<<<"write_service">>>> /\ t.service = "on"
  BY <1>3, SingboxPlans
<1>5. e \in Seq(StepRows) /\ p \in Seq(StepRows)
  BY <1>4, ServiceParts
<1>6. p = <<>>
  BY <1>4, <1>5, EmptyParts
<1>7. CASE t.service # "on"
  <2>1. ~SingboxManaged(h)
    BY <1>4, <1>6, <1>7
  <2>2. h.shape = NoFile
    BY <2>1 DEF Stuck, SingboxManaged
  <2>3. h.run.shape = NoFile /\ ~h.run.edited
    BY <1>2, <2>2 DEF NothingRuns, Gone
  <2> QED
    BY <1>1, <1>7, <2>3, NothingServed
<1>8. CASE t.service = "on"
  <2>1. h.applied = Rendered(t)
    BY <1>4, <1>6, <1>8
  <2>2. Runs(h, Rendered(t))
    BY <1>2, <2>1 DEF RecordTrue
  <2> QED
    BY <1>1, <1>8, <2>2, RecordServed DEF Recording
<1> QED
  BY <1>7, <1>8

\* The same for wireguard and hysteria2.
LEMMA TunnelServes ==
    ASSUME kind \in {"wireguard", "hysteria2"}, kind \in Kinds, NEW t \in Wants, NEW d, NEW a, NEW h,
           NEW w, HostOk(h), Kept(d, t, <<>>, a, h, w), Plan(t, h) = <<>>, ~Stuck(t, h)
    PROVE  Matches(Served(h), Asked(t))
<1>1. h \in HostRows /\ t.service \in Services
  BY Renderings DEF HostOk
<1>2. NothingRuns(h) /\ RecordTrue(t, w, h)
  BY DEF Kept, Recording, RecordingKept
<1>3. \/ t.service = "none" /\ h.shape \in {NoFile, Foreign}
      \/ ~t.valid
      \/ t.service # "none" /\ h.applied = Rendered(t)
  <2>1. \A n : <<<<n>>>> # <<>>
    OBVIOUS
  <2>2. CASE kind = "wireguard"
    BY <2>1, <2>2, WireguardPlans DEF WireguardSeen
  <2>3. CASE kind = "hysteria2"
    BY <2>1, <2>3, Hysteria2Plans DEF Hysteria2Seen
  <2> QED
    BY <2>2, <2>3
<1>4. CASE t.service = "none" /\ h.shape \in {NoFile, Foreign}
  <2>1. h.run.shape = NoFile /\ ~h.run.edited
    BY <1>2, <1>4 DEF NothingRuns, Gone
  <2> QED
    BY <1>1, <1>4, <2>1, NothingServed
<1>5. CASE t.service # "none" /\ h.applied = Rendered(t)
  <2>1. Runs(h, Rendered(t))
    BY <1>2, <1>5 DEF RecordTrue
  <2>2. t.service = "on" \/ t.service = "off"
    BY <1>1, <1>5 DEF Services
  <2> QED
    BY <1>1, <2>1, <2>2, RecordServed DEF Recording
<1> QED
  BY <1>3, <1>4, <1>5 DEF Stuck

\* The same for openvpn and ocserv.
LEMMA LoginServes ==
    ASSUME kind \in Logins, kind \in Kinds, NEW t \in Wants, NEW d, NEW a, NEW h,
           NEW w, HostOk(h), Kept(d, t, <<>>, a, h, w), Plan(t, h) = <<>>, ~Stuck(t, h)
    PROVE  Matches(Served(h), Asked(t))
<1>1. h \in HostRows
  BY DEF HostOk
<1>2. NothingRuns(h) /\ (Managed(h) => h.run.shape = h.shape /\ ~h.run.edited)
  BY DEF Kept, LoginKept
<1>3. Plan(t, h) # Refused /\ kind \in {"openvpn", "ocserv"}
  BY DEF Refused, Logins
<1>4. \/ t.service # "on" /\ ~Managed(h)
      \/ t.service = "on" /\ ~Managed(h) /\ h.shape # NoFile
      \/ /\ t.service = "on" /\ Managed(h) /\ h.shape = t.shape
         /\ kind = "openvpn" => h.users = Usable(t.users)
         /\ kind = "ocserv" => Subjects(h.users \ NoPasswd) = Subjects(Usable(t.users))
  <2>1. \A m, n : <<<<n>>>> # <<>> /\ <<<<m>>, <<n>>>> # <<>>
    OBVIOUS
  <2> QED
    BY <1>3, <2>1, LoginPlans
<1>5. Managed(h) \/ h.shape = NoFile
  BY <1>3 DEF Managed, OpenvpnManaged, OcservManaged, Stuck
<1>6. CASE t.service # "on"
  <2>1. h.shape = NoFile
    BY <1>4, <1>5, <1>6
  <2>2. h.run.shape = NoFile /\ ~h.run.edited
    BY <1>2, <1>3, <2>1 DEF NothingRuns, Gone
  <2> QED
    BY <1>1, <1>3, <1>6, <2>2, NothingServed
<1>7. CASE t.service = "on"
  <2>1. /\ h.run.shape = t.shape /\ ~h.run.edited
        /\ kind = "openvpn" => h.users = Usable(t.users)
        /\ kind = "ocserv" => Subjects(h.users \ NoPasswd) = Subjects(Usable(t.users))
    BY <1>2, <1>4, <1>5, <1>7
  <2>2. h.run.edited = FALSE /\ t.shape # NoFile
    BY <1>1, <2>1, Renderings DEF HostRows, Runnings, NoFile
  <2>3. Rendered(t).users = Usable(t.users) /\ Rendered(t).users \ NoPasswd = Rendered(t).users
    BY <1>3, RendersUsers, Renderings
  <2>4. /\ Served(h).shape = t.shape /\ Served(h).edited = FALSE /\ Served(h).users = h.users \ NoPasswd
        /\ Asked(t).shape = t.shape /\ Asked(t).edited = FALSE /\ Asked(t).users = Rendered(t).users
    BY <1>3, <1>7, <2>1, <2>2 DEF Served, Asked
  <2>5. CASE kind = "openvpn"
    BY <2>1, <2>3, <2>4, <2>5 DEF Matches
  <2>6. CASE kind = "ocserv"
    BY <2>1, <2>3, <2>4, <2>6 DEF Matches
  <2> QED
    BY <1>3, <2>5, <2>6
<1> QED
  BY <1>6, <1>7

\* The same for l2tp, which plans nothing only where no service is asked for.
LEMMA L2tpServes ==
    ASSUME kind = "l2tp", kind \in Kinds, NEW t \in Wants, NEW d, NEW a, NEW h,
           NEW w, HostOk(h), Kept(d, t, <<>>, a, h, w), Plan(t, h) = <<>>, ~Stuck(t, h)
    PROVE  Matches(Served(h), Asked(t))
<1>1. h \in HostRows
  BY DEF HostOk
<1>2. NothingRuns(h)
  BY DEF Kept, L2tpKept
<1>3. Plan(t, h) # Refused
  BY DEF Refused
<1>4. t.service # "on" /\ L2tpFiles(h) = {}
  <2>1. \A n : <<<<n>>>> # <<>>
    OBVIOUS
  <2> QED
    BY <1>3, <2>1, L2tpPlans
<1>5. h.shape \in {NoFile, Foreign} /\ h.users = NoPasswd
  BY <1>4 DEF L2tpFiles
<1>6. h.shape = NoFile
  BY <1>5 DEF Stuck
<1>7. h.run.shape = NoFile /\ ~h.run.edited
  BY <1>2, <1>5, <1>6 DEF NothingRuns, Gone
<1> QED
  BY <1>1, <1>4, <1>7, NothingServed

\* With nothing left to do, what is kept is what the document asks for.
LEMMA EmptyPlanServes ==
    ASSUME kind \in Kinds, NEW t \in Wants, NEW d, NEW a, NEW h, NEW w, HostOk(h),
           Kept(d, t, <<>>, a, h, w), Plan(t, h) = <<>>, ~Stuck(t, h)
    PROVE  Matches(Served(h), Asked(t))
<1>1. kind \in AllKinds
  BY AdaptersAssumption
<1> QED
  BY <1>1, XrayServes, SingboxServes, TunnelServes, LoginServes, L2tpServes DEF AllKinds, Logins

-----------------------------------------------------------------------------
(* A plan for the document held. *)

\* What a pass left behind holds of any document that comes next.
LEMMA KeptForNext ==
    ASSUME kind \in Kinds, NEW d \in Wants, NEW t, NEW a, NEW b, NEW h, NEW w \in BOOLEAN,
           t \in Wants, Kept(d, t, <<>>, a, h, w)
    PROVE  Kept(d, d, <<>>, b, h, w)
<1>1. CASE kind \in Recording
  <2>1. /\ w => ~h.edited /\ d = t
        /\ NothingRuns(h) /\ HotReady(t, h) /\ RecordTrue(t, w, h) /\ Marked(w, h)
    BY <1>1 DEF Kept, RecordingKept
  <2>2. RecordTrue(d, w, h) /\ HotReady(d, h)
    <3>1. CASE w
      BY <2>1, <3>1
    <3>2. CASE ~w
      <4>1. h.applied # NoRecord => Content(h) = h.applied /\ Runs(h, h.applied)
        BY <2>1, <3>2 DEF RecordTrue
      <4>2. Rendered(d) # NoRecord
        BY Renderings
      <4>3. RecordTrue(d, w, h)
        BY <4>1, <4>2 DEF RecordTrue
      <4>4. ASSUME kind = "xray", additive(d, h)
            PROVE  /\ Content(h) = h.applied /\ Among(d, h)
                   /\ Subjects(h.applied.users) \subseteq Subjects(h.run.users)
        <5>1. /\ h.shape = d.shape /\ Content(h) = h.applied /\ Runs(h, h.applied)
              /\ Subjects(h.applied.users) \subseteq Subjects(d.users)
          BY <4>1, <4>4 DEF additive
        <5>2. h.run.shape = h.shape
          BY <5>1 DEF Runs, Content
        <5> QED
          BY <4>4, <5>1, <5>2 DEF Among, Runs
      <4> QED
        BY <4>3, <4>4 DEF HotReady
    <3> QED
      BY <3>1, <3>2
  <2>3. RecordingKept(d, d, <<>>, b, h, w)
    BY <2>1, <2>2 DEF RecordingKept
  <2> QED
    BY <1>1, <2>3 DEF Kept, Recording, Logins
<1>2. CASE kind \in Logins
  BY <1>2 DEF Kept, LoginKept, Recording, Logins
<1>3. CASE kind = "l2tp"
  BY <1>3 DEF Kept, L2tpKept, Recording, Logins
<1>4. kind \in AllKinds
  BY AdaptersAssumption
<1> QED
  BY <1>1, <1>2, <1>3, <1>4 DEF AllKinds, Recording, Logins

\* A plan of one step.
LEMMA OneStep ==
    ASSUME NEW t, NEW n, n # "add_user"
    PROVE  /\ <<<<n>>>> # <<>> /\ Len(<<<<n>>>>) = 1
           /\ <<<<n>>>>[1] = <<n>> /\ <<<<n>>>>[1][1] = n
           /\ Planned(t, <<<<n>>>>)
BY DEF Planned

\* A plan of two.
LEMMA TwoSteps ==
    ASSUME NEW t, NEW m, NEW n, m # "add_user", n # "add_user", n \in Next2(m)
    PROVE  /\ <<<<m>>, <<n>>>> # <<>>
           /\ <<<<m>>, <<n>>>>[1] = <<m>> /\ <<<<m>>, <<n>>>>[1][1] = m
           /\ Planned(t, <<<<m>>, <<n>>>>)
<1> DEFINE p == <<<<m>>, <<n>>>>
<1>1. Len(p) = 2 /\ p[1][1] = m /\ p[2][1] = n
  OBVIOUS
<1> HIDE DEF p
<1>2. \A i \in 1 .. Len(p) - 1 : i = 1
  BY <1>1
<1>3. \A i \in 1 .. Len(p) : i = 1 \/ i = 2
  BY <1>1
<1>4. Planned(t, p)
  BY <1>1, <1>2, <1>3 DEF Planned
<1> QED
  BY <1>4 DEF p

\* xray's and singbox's plans off the hot path.
LEMMA ShortPlans ==
    ASSUME kind \in {"xray", "singbox"}, NEW t, NEW e \in EgressPlans,
           NEW p \in {<<>>, <<<<"remove_service">>>>, <<<<"restart_service">>>>, <<<<"write_service">>>>},
           p \o e # <<>>
    PROVE  /\ Planned(t, p \o e)
           /\ p # <<>> => (p \o e)[1] = p[1]
           /\ p = <<>> => (p \o e)[1][1] \in Rules
<1>1. PICK m : p = <<>> \/ (p = <<<<m>>>> /\ m \in {"remove_service", "restart_service", "write_service"})
  OBVIOUS
<1>2. PICK n : e = <<>> \/ (e = <<<<n>>>> /\ n \in Rules)
  BY DEF EgressPlans, Rules
<1>3. \A x, y : <<x>> \o <<y>> = <<x, y>>
  BY Pairs
<1>4. /\ \A x : <<x>> \o <<>> = <<x>> /\ <<>> \o <<x>> = <<x>>
      /\ <<>> \o <<>> = <<>>
  OBVIOUS
<1>5. \A x \in {"remove_service", "restart_service", "write_service"} : Next2(x) = Rules /\ x # "add_user"
  BY DEF Next2
<1>6. \A x \in Rules : x # "add_user"
  BY DEF Rules
<1>7. CASE p = <<>>
  <2>1. p \o e = <<<<n>>>> /\ n \in Rules
    BY <1>2, <1>4, <1>7
  <2> QED
    BY <1>6, <1>7, <2>1, OneStep
<1>8. CASE p # <<>> /\ e = <<>>
  <2>1. p \o e = <<<<m>>>> /\ p = <<<<m>>>> /\ m \in {"remove_service", "restart_service", "write_service"}
    BY <1>1, <1>4, <1>8
  <2> QED
    BY <1>5, <1>8, <2>1, OneStep
<1>9. CASE p # <<>> /\ e # <<>>
  <2>1. p \o e = <<<<m>>, <<n>>>> /\ p = <<<<m>>>> /\ n \in Rules
        /\ m \in {"remove_service", "restart_service", "write_service"}
    BY <1>1, <1>2, <1>3, <1>9
  <2>2. p[1] = <<m>>
    BY <2>1
  <2> QED
    BY <1>5, <1>6, <1>9, <2>1, <2>2, TwoSteps
<1> QED
  BY <1>7, <1>8, <1>9

\* xray's plans on the hot path.
LEMMA LongPlans ==
    ASSUME kind = "xray", kind \in Kinds, NEW t \in Wants, NEW e \in EgressPlans, NEW p,
           p = (AddAll(t.users) \o <<<<"write_service_hot">>>>) \o e
    PROVE  /\ Planned(t, p) /\ p # <<>> /\ p[1][1] \in Hot
           /\ \A c \in t.users : \E i \in 1 .. Len(p) : p[i] = <<"add_user", c>>
<1> DEFINE hot == AddAll(t.users) \o <<<<"write_service_hot">>>>
<1>1. t.users \in SUBSET Credentials /\ IsFiniteSet(t.users)
  BY Renderings
<1>2. PICK n \in Nat :
                /\ Len(hot) = n + 1
                /\ n = 0 => t.users = {}
                /\ hot[n + 1] = <<"write_service_hot">>
                /\ \A i \in 1 .. n : \E c \in t.users : hot[i] = <<"add_user", c>>
                /\ \A c \in t.users : \E i \in 1 .. n : hot[i] = <<"add_user", c>>
  BY <1>1, HotPlans
<1>3. hot \in Seq(StepRows) /\ e \in Seq(StepRows)
  BY ServiceParts
<1>4. (Len(e) = 0 \/ Len(e) = 1) /\ (Len(e) = 1 => e[1][1] \in Rules)
  BY DEF EgressPlans, Rules
<1> HIDE DEF hot
<1>5. p = hot \o e
  BY DEF hot
<1>6. /\ p \in Seq(StepRows) /\ Len(p) = n + 1 + Len(e)
      /\ \A i \in 1 .. n : p[i] = hot[i]
      /\ p[n + 1] = <<"write_service_hot">>
      /\ Len(e) = 1 => p[n + 2][1] \in Rules
  <2>1. p \in Seq(StepRows) /\ Len(p) = Len(hot) + Len(e)
        /\ \A i \in 1 .. Len(hot) + Len(e) :
                p[i] = IF i <= Len(hot) THEN hot[i] ELSE e[i - Len(hot)]
    BY <1>3, <1>5, ConcatProperties
  <2>2. Len(e) = 1 => p[n + 2] = e[(n + 2) - (n + 1)]
    BY <1>2, <1>4, <2>1
  <2>3. (n + 2) - (n + 1) = 1
    OBVIOUS
  <2>4. Len(e) = 1 => p[n + 2] = e[1]
    BY <2>2, <2>3
  <2>5. \A i \in 1 .. n + 1 : p[i] = hot[i]
    BY <1>2, <1>4, <2>1
  <2> QED
    BY <1>2, <1>4, <2>1, <2>4, <2>5
<1>7. /\ \A i \in 1 .. n : p[i][1] = "add_user" /\ p[i][2] \in t.users
      /\ p[n + 1][1] = "write_service_hot"
  <2>1. ASSUME NEW i \in 1 .. n PROVE p[i][1] = "add_user" /\ p[i][2] \in t.users
    <3>1. PICK c \in t.users : p[i] = <<"add_user", c>>
      BY <1>2, <1>6
    <3>2. \A x, y : <<x, y>>[1] = x /\ <<x, y>>[2] = y
      OBVIOUS
    <3> DEFINE s == p[i]
    <3> HIDE DEF s
    <3>3. s = <<"add_user", c>>
      BY <3>1 DEF s
    <3>4. s[1] = "add_user" /\ s[2] = c
      BY <3>2, <3>3
    <3> QED
      BY <3>4 DEF s
  <2> QED
    BY <1>6, <2>1
<1>8. Next2("add_user") = Hot /\ Next2("write_service_hot") = Rules
  BY DEF Next2
<1>9. "add_user" \in Hot /\ "write_service_hot" \in Hot /\ "add_user" \notin Rules
  BY DEF Hot, Rules
<1>10. \A i \in 1 .. Len(p) - 1 : p[i + 1][1] \in Next2(p[i][1])
  <2>1. ASSUME NEW i \in 1 .. Len(p) - 1 PROVE p[i + 1][1] \in Next2(p[i][1])
    <3>1. CASE i < n
      <4>1. i \in 1 .. n /\ i + 1 \in 1 .. n
        BY <3>1
      <4>2. p[i][1] = "add_user" /\ p[i + 1][1] = "add_user"
        BY <1>7, <4>1
      <4> QED
        BY <1>8, <1>9, <4>2
    <3>2. CASE i = n
      <4>1. n \in 1 .. n
        BY <3>2
      <4>2. p[i][1] = "add_user" /\ p[i + 1][1] = "write_service_hot"
        BY <1>7, <3>2, <4>1
      <4> QED
        BY <1>8, <1>9, <4>2
    <3>3. CASE i > n
      <4>1. i = n + 1 /\ Len(e) = 1 /\ i + 1 = n + 2
        BY <1>4, <1>6, <3>3
      <4>2. p[i][1] = "write_service_hot" /\ p[i + 1][1] \in Rules
        BY <1>6, <1>7, <4>1
      <4> QED
        BY <1>8, <4>2
    <3> QED
      BY <3>1, <3>2, <3>3
  <2> QED
    BY <2>1
<1>11. p # <<>> /\ p[Len(p)][1] # "add_user"
  <2>1. p # <<>>
    BY <1>4, <1>6
  <2>2. CASE Len(e) = 0
    <3>1. Len(p) = n + 1
      BY <1>6, <2>2
    <3> QED
      BY <1>7, <2>1, <3>1
  <2>3. CASE Len(e) = 1
    <3>1. Len(p) = n + 2
      BY <1>6, <2>3
    <3> QED
      BY <1>6, <1>9, <2>1, <2>3, <3>1
  <2> QED
    BY <1>4, <2>2, <2>3
<1>12. \A i \in 1 .. Len(p) : p[i][1] = "add_user" =>
           p[i][2] \in t.users /\ \A j \in 1 .. i : p[j][1] = "add_user"
  <2>1. ASSUME NEW i \in 1 .. Len(p), p[i][1] = "add_user"
        PROVE  p[i][2] \in t.users /\ \A j \in 1 .. i : p[j][1] = "add_user"
    <3>1. i # n + 1
      BY <1>7, <2>1
    <3>2. i # n + 2
      <4>1. i = n + 2 => Len(e) = 1
        BY <1>4, <1>6
      <4> QED
        BY <1>6, <1>9, <2>1, <4>1
    <3>3. i \in 1 .. n
      <4>1. Len(p) = n + 1 \/ Len(p) = n + 2
        <5>1. Len(p) = n + 1 + Len(e)
          BY <1>6
        <5>2. Len(e) = 0 \/ Len(e) = 1
          BY <1>4
        <5>3. CASE Len(e) = 0
          BY <5>1, <5>3
        <5>4. CASE Len(e) = 1
          BY <5>1, <5>4
        <5> QED
          BY <5>2, <5>3, <5>4
      <4>2. i \in Nat /\ i >= 1 /\ (i <= n + 1 \/ i <= n + 2)
        BY <4>1
      <4> QED
        BY <3>1, <3>2, <4>2
    <3> QED
      BY <1>7, <3>3
  <2> QED
    BY <2>1
<1>13. p[1][1] \in Hot
  <2>1. CASE n = 0
    BY <1>7, <1>9, <2>1
  <2>2. CASE n # 0
    <3>1. 1 \in 1 .. n
      BY <2>2
    <3> QED
      BY <1>7, <1>9, <3>1
  <2> QED
    BY <2>1, <2>2
<1>14. \A c \in t.users : \E i \in 1 .. Len(p) : p[i] = <<"add_user", c>>
  <2>1. \A i \in 1 .. n : i \in 1 .. Len(p)
    BY <1>4, <1>6
  <2> QED
    BY <1>2, <1>6, <2>1
<1> QED
  BY <1>10, <1>11, <1>12, <1>13, <1>14 DEF Planned

\* The first step of a plan finds the host as the plan has found it.
LEMMA XrayPlanned ==
    ASSUME kind = "xray", kind \in Kinds, NEW d \in Wants, NEW h, HostOk(h), NEW w \in BOOLEAN,
           NEW b, b # "end", Plan(d, h) \notin {<<>>, Refused}
    PROVE  /\ Planned(d, Plan(d, h)) /\ Begun(d, Plan(d, h)[1], h)
           /\ RecordingKept(d, d, <<>>, b, h, w) => RecordingKept(d, d, Plan(d, h), b, h, w)
<1> DEFINE plan == Plan(d, h)
<1>1. PICK p, e : /\ Plan(d, h) = p \o e /\ e \in EgressPlans
                  /\ \/ p = <<>> /\ d.service # "on" /\ ~XrayManaged(h)
                     \/ p = <<>> /\ d.service = "on" /\ d.valid /\ SameFile(d, h) /\ h.applied = Rendered(d)
                     \/ p = <<<<"remove_service">>>> /\ d.service # "on" /\ XrayManaged(h)
                     \/ p = <<<<"restart_service">>>> /\ d.service = "on" /\ SameFile(d, h)
                     \/ p = <<<<"write_service">>>> /\ d.service = "on" /\ ~additive(d, h)
                     \/ p = AddAll(d.users) \o <<<<"write_service_hot">>>>
                             /\ d.service = "on" /\ additive(d, h) /\ ~SameFile(d, h)
  BY XrayPlans
<1>2. plan = p \o e /\ plan # <<>>
  BY <1>1
<1> HIDE DEF plan
<1>3. ASSUME RecordingKept(d, d, <<>>, b, h, w)
      PROVE  /\ w => ~h.edited
             /\ NothingRuns(h) /\ HotReady(d, h) /\ RecordTrue(d, w, h) /\ Marked(w, h)
  BY <1>3 DEF RecordingKept
<1>4. ASSUME p = <<>>
      PROVE  Planned(d, plan) /\ plan[1][1] \in Rules /\ ~h.edited
  <2>1. Planned(d, plan) /\ plan[1][1] \in Rules
    BY <1>1, <1>2, <1>4, ShortPlans
  <2>2. ~XrayManaged(h) \/ SameFile(d, h)
    <3>1. \A n : <<<<n>>>> # <<>>
      OBVIOUS
    <3>2. AddAll(d.users) \o <<<<"write_service_hot">>>> # <<>>
      <4>1. d.users \in SUBSET Credentials /\ IsFiniteSet(d.users)
        BY Renderings
      <4>2. PICK n \in Nat : Len(AddAll(d.users) \o <<<<"write_service_hot">>>>) = n + 1
        BY <4>1, HotPlans
      <4>3. Len(AddAll(d.users) \o <<<<"write_service_hot">>>>) # 0
        BY <4>2
      <4> QED
        BY <4>3
    <3> QED
      BY <1>1, <1>4, <3>1, <3>2
  <2>3. ~h.edited
    BY <2>2 DEF XrayManaged, SameFile, HostOk
  <2> QED
    BY <2>1, <2>3
<1>5. ASSUME p = <<<<"remove_service">>>> \/ p = <<<<"restart_service">>>> \/ p = <<<<"write_service">>>>
      PROVE  /\ Planned(d, plan) /\ Begun(d, plan[1], h)
             /\ plan[1][1] \in {"remove_service", "restart_service", "write_service"}
  <2>1. /\ p \in {<<>>, <<<<"remove_service">>>>, <<<<"restart_service">>>>, <<<<"write_service">>>>}
        /\ p # <<>>
    BY <1>5
  <2>2. Planned(d, plan) /\ plan[1] = p[1]
    BY <1>1, <1>2, <2>1, ShortPlans
  <2>3. \A m, n : <<<<n>>>>[1][1] = n /\ (<<<<n>>>> = <<<<m>>>> => m = n)
    OBVIOUS
  <2>4. AddAll(d.users) \o <<<<"write_service_hot">>>> \notin
              {<<<<"remove_service">>>>, <<<<"restart_service">>>>, <<<<"write_service">>>>}
    <3>1. Planned(d, (AddAll(d.users) \o <<<<"write_service_hot">>>>) \o <<>>)
          /\ ((AddAll(d.users) \o <<<<"write_service_hot">>>>) \o <<>>)[1][1] \in Hot
      BY LongPlans DEF EgressPlans
    <3>2. AddAll(d.users) \o <<<<"write_service_hot">>>> \in Seq(StepRows)
      BY ServiceParts
    <3>3. (AddAll(d.users) \o <<<<"write_service_hot">>>>) \o <<>> = AddAll(d.users) \o <<<<"write_service_hot">>>>
      BY <3>2, ConcatEmptySeq
    <3>4. (AddAll(d.users) \o <<<<"write_service_hot">>>>)[1][1] \in Hot
      BY <3>1, <3>3
    <3> QED
      BY <2>3, <3>4 DEF Hot
  <2>5. /\ p[1][1] \in {"remove_service", "restart_service", "write_service"}
        /\ p[1][1] = "restart_service" => SameFile(d, h)
        /\ p[1][1] = "write_service" => ~additive(d, h)
    BY <1>1, <1>5, <2>3, <2>4
  <2> QED
    BY <2>2, <2>5 DEF Begun
<1>6. ASSUME p = AddAll(d.users) \o <<<<"write_service_hot">>>>
      PROVE  /\ Planned(d, plan) /\ plan[1][1] \in Hot
             /\ RecordingKept(d, d, <<>>, b, h, w) /\ additive(d, h) /\ ~SameFile(d, h) => Adding(d, plan, h)
  <2>1. /\ Planned(d, plan) /\ plan[1][1] \in Hot
        /\ \A c \in d.users : \E i \in 1 .. Len(plan) : plan[i] = <<"add_user", c>>
    BY <1>1, <1>2, <1>6, LongPlans
  <2>2. ASSUME RecordingKept(d, d, <<>>, b, h, w), additive(d, h), ~SameFile(d, h)
        PROVE  Adding(d, plan, h)
    <3>1. /\ Content(h) = h.applied /\ Among(d, h)
          /\ Subjects(h.applied.users) \subseteq Subjects(h.run.users)
      BY <1>3, <2>2 DEF HotReady
    <3> QED
      BY <2>1, <3>1 DEF Adding
  <2> QED
    BY <2>1, <2>2
<1>7. CASE p = <<>>
  <2>1. Begun(d, plan[1], h)
    BY <1>4, <1>7 DEF Begun, Rules
  <2>2. RecordingKept(d, d, <<>>, b, h, w) => RecordingKept(d, d, plan, b, h, w)
    BY <1>2, <1>3, <1>4, <1>7 DEF RecordingKept, Rules, Hot
  <2> QED
    BY <1>4, <1>7, <2>1, <2>2 DEF plan
<1>8. CASE p = <<<<"remove_service">>>> \/ p = <<<<"restart_service">>>> \/ p = <<<<"write_service">>>>
  <2>1. RecordingKept(d, d, <<>>, b, h, w) => RecordingKept(d, d, plan, b, h, w)
    BY <1>2, <1>3, <1>5, <1>8 DEF RecordingKept, Rules, Hot
  <2> QED
    BY <1>5, <1>8, <2>1 DEF plan
<1>9. CASE p = AddAll(d.users) \o <<<<"write_service_hot">>>> /\ additive(d, h) /\ ~SameFile(d, h)
  <2>1. Begun(d, plan[1], h)
    BY <1>6, <1>9 DEF Begun, Hot
  <2>2. RecordingKept(d, d, <<>>, b, h, w) => RecordingKept(d, d, plan, b, h, w)
    BY <1>2, <1>3, <1>6, <1>9 DEF RecordingKept, Rules, Hot
  <2> QED
    BY <1>6, <1>9, <2>1, <2>2 DEF plan
<1> QED
  BY <1>1, <1>7, <1>8, <1>9

\* singbox's plan keeps what must hold when its first step begins.
LEMMA SingboxPlanned ==
    ASSUME kind = "singbox", kind \in Kinds, NEW d \in Wants, NEW h, HostOk(h), NEW w \in BOOLEAN,
           NEW b, b # "end", Plan(d, h) \notin {<<>>, Refused}
    PROVE  /\ Planned(d, Plan(d, h)) /\ Begun(d, Plan(d, h)[1], h)
           /\ RecordingKept(d, d, <<>>, b, h, w) => RecordingKept(d, d, Plan(d, h), b, h, w)
<1> DEFINE plan == Plan(d, h)
<1>1. PICK p, e : /\ Plan(d, h) = p \o e /\ e \in EgressPlans
                  /\ \/ p = <<>> /\ d.service # "on" /\ ~SingboxManaged(h)
                     \/ p = <<>> /\ d.service = "on" /\ d.valid /\ SameFile(d, h) /\ h.applied = Rendered(d)
                     \/ p = <<<<"remove_service">>>> /\ d.service # "on" /\ SingboxManaged(h)
                     \/ p = <<<<"restart_service">>>> /\ d.service = "on" /\ SameFile(d, h) /\ h.mark
                     \/ p = <<<<"write_service">>>> /\ d.service = "on"
  BY SingboxPlans
<1>2. plan = p \o e /\ plan # <<>>
  BY <1>1
<1> HIDE DEF plan
<1>3. ASSUME RecordingKept(d, d, <<>>, b, h, w)
      PROVE  /\ w => ~h.edited
             /\ NothingRuns(h) /\ HotReady(d, h) /\ RecordTrue(d, w, h) /\ Marked(w, h)
  BY <1>3 DEF RecordingKept
<1>4. ASSUME p = <<>>
      PROVE  /\ Planned(d, plan) /\ plan[1][1] \in Rules
             /\ RecordingKept(d, d, <<>>, b, h, w) => ~h.edited
  <2>1. Planned(d, plan) /\ plan[1][1] \in Rules
    BY <1>1, <1>2, <1>4, ShortPlans
  <2>2. ~SingboxManaged(h) \/ SameFile(d, h)
    <3>1. \A n : <<<<n>>>> # <<>>
      OBVIOUS
    <3> QED
      BY <1>1, <1>4, <3>1
  <2>3. RecordingKept(d, d, <<>>, b, h, w) => ~h.edited
    BY <1>3, <2>2 DEF SingboxManaged, SameFile, HostOk, Marked
  <2> QED
    BY <2>1, <2>3
<1>5. ASSUME p = <<<<"remove_service">>>> \/ p = <<<<"restart_service">>>> \/ p = <<<<"write_service">>>>
      PROVE  /\ Planned(d, plan) /\ Begun(d, plan[1], h)
             /\ plan[1][1] \in {"remove_service", "restart_service", "write_service"}
  <2>1. /\ p \in {<<>>, <<<<"remove_service">>>>, <<<<"restart_service">>>>, <<<<"write_service">>>>}
        /\ p # <<>>
    BY <1>5
  <2>2. Planned(d, plan) /\ plan[1] = p[1]
    BY <1>1, <1>2, <2>1, ShortPlans
  <2>3. \A m, n : <<<<n>>>>[1][1] = n /\ (<<<<n>>>> = <<<<m>>>> => m = n)
    OBVIOUS
  <2>5. /\ p[1][1] \in {"remove_service", "restart_service", "write_service"}
        /\ p[1][1] = "restart_service" => SameFile(d, h) /\ h.mark
    BY <1>1, <1>5, <2>3
  <2> QED
    BY <2>2, <2>5 DEF Begun
<1>7. CASE p = <<>>
  <2>1. Begun(d, plan[1], h)
    BY <1>4, <1>7 DEF Begun, Rules
  <2>2. RecordingKept(d, d, <<>>, b, h, w) => RecordingKept(d, d, plan, b, h, w)
    BY <1>2, <1>3, <1>4, <1>7 DEF RecordingKept, Rules, Hot
  <2> QED
    BY <1>4, <1>7, <2>1, <2>2 DEF plan
<1>8. CASE p = <<<<"remove_service">>>> \/ p = <<<<"restart_service">>>> \/ p = <<<<"write_service">>>>
  <2>1. RecordingKept(d, d, <<>>, b, h, w) => RecordingKept(d, d, plan, b, h, w)
    BY <1>2, <1>3, <1>5, <1>8 DEF RecordingKept, Rules, Hot
  <2> QED
    BY <1>5, <1>8, <2>1 DEF plan
<1> QED
  BY <1>1, <1>7, <1>8

\* The same for wireguard and hysteria2.
LEMMA TunnelPlanned ==
    ASSUME kind \in {"wireguard", "hysteria2"}, kind \in Kinds, NEW d \in Wants, NEW h,
           NEW w \in BOOLEAN, NEW b, b # "end", Plan(d, h) # <<>>,
           Plan(d, h)[1][1] = "remove" => b = "stop"
    PROVE  /\ Planned(d, Plan(d, h)) /\ Begun(d, Plan(d, h)[1], h)
           /\ RecordingKept(d, d, <<>>, b, h, w) => RecordingKept(d, d, Plan(d, h), b, h, w)
<1>1. PICK n \in {"install", "restart", "reload", "remove"} : Plan(d, h) = <<<<n>>>>
  BY WireguardPlans, Hysteria2Plans
<1> DEFINE plan == Plan(d, h)
<1>2. plan = <<<<n>>>>
  BY <1>1
<1>2a. plan[1][1] = "remove" => b = "stop"
  OBVIOUS
<1> HIDE DEF plan
<1>3. n \notin {"add_user", "write_service", "restart_service", "remove_service"} /\ n \notin Hot /\ n \notin Rules
  BY DEF Hot, Rules
<1>4. Planned(d, plan) /\ plan # <<>> /\ plan[1][1] = n
  BY <1>2, <1>3, OneStep
<1>5. Begun(d, plan[1], h)
  BY <1>3, <1>4 DEF Begun
<1>6. RecordingKept(d, d, <<>>, b, h, w) => RecordingKept(d, d, plan, b, h, w)
  BY <1>2a, <1>3, <1>4 DEF RecordingKept
<1> QED
  BY <1>4, <1>5, <1>6 DEF plan

\* The same for openvpn and ocserv.
LEMMA LoginPlanned ==
    ASSUME kind \in Logins, kind \in Kinds, NEW d \in Wants, NEW h, NEW w \in BOOLEAN,
           Plan(d, h) \notin {<<>>, Refused}
    PROVE  /\ Planned(d, Plan(d, h)) /\ Begun(d, Plan(d, h)[1], h)
           /\ LoginKept(<<>>, h, w) => LoginKept(Plan(d, h), h, w)
<1> DEFINE plan == Plan(d, h)
<1>1. \/ \E n \in {"remove", "install", "update_config"} : plan = <<<<n>>>>
      \/ plan = <<<<"update_config">>, <<"sync_users">>>>
      \/ plan = <<<<"sync_users">>>> /\ Managed(h)
  BY LoginPlans DEF Logins
<1> HIDE DEF plan
<1>2. /\ Planned(d, plan) /\ plan # <<>>
      /\ plan[1][1] \in {"remove", "install", "update_config"} \/ (plan[1][1] = "sync_users" /\ Managed(h))
  <2>1. CASE \E n \in {"remove", "install", "update_config"} : plan = <<<<n>>>>
    <3>1. PICK n \in {"remove", "install", "update_config"} : plan = <<<<n>>>>
      BY <2>1
    <3> QED
      BY <3>1, OneStep
  <2>2. CASE plan = <<<<"update_config">>, <<"sync_users">>>>
    <3>1. "sync_users" \in Next2("update_config")
      BY DEF Next2
    <3> QED
      BY <2>2, <3>1, TwoSteps
  <2>3. CASE plan = <<<<"sync_users">>>> /\ Managed(h)
    BY <2>3, OneStep
  <2> QED
    BY <1>1, <2>1, <2>2, <2>3
<1>3. Begun(d, plan[1], h)
  BY <1>2 DEF Begun
<1>4. LoginKept(<<>>, h, w) => LoginKept(plan, h, w)
  BY <1>2 DEF LoginKept
<1> QED
  BY <1>2, <1>3, <1>4 DEF plan

\* The same for l2tp.
LEMMA L2tpPlanned ==
    ASSUME kind = "l2tp", kind \in Kinds, NEW d \in Wants, NEW h, NEW b, b # "end",
           Plan(d, h)[1][1] = "remove_configs" => b # "try rm file",
           Plan(d, h) \notin {<<>>, Refused}
    PROVE  /\ Planned(d, Plan(d, h)) /\ Begun(d, Plan(d, h)[1], h)
           /\ L2tpKept(Plan(d, h), b, h)
<1> DEFINE plan == Plan(d, h)
<1>1. PICK n \in {"remove_configs", "install_configs", "update_configs"} : plan = <<<<n>>>>
  BY L2tpPlans
<1> HIDE DEF plan
<1>2. Planned(d, plan) /\ plan # <<>> /\ plan[1][1] = n
  BY <1>1, OneStep
<1>3. Begun(d, plan[1], h)
  BY <1>2 DEF Begun
<1>4. L2tpKept(plan, b, h)
  <2>1. plan[1][1] = "remove_configs" => b # "try rm file"
    BY DEF plan
  <2> QED
    BY <1>2, <2>1 DEF L2tpKept
<1> QED
  BY <1>2, <1>3, <1>4 DEF plan

\* A pass that begins finds the host as the last one has left it.
LEMMA PlanIsKept ==
    ASSUME kind \in Kinds, NEW d \in Wants, NEW h, HostOk(h), NEW w \in BOOLEAN,
           NEW b, b # "end", Plan(d, h)[1][1] = "remove_configs" => b # "try rm file",
           Plan(d, h)[1][1] = "remove" => b = "stop",
           Plan(d, h) \notin {<<>>, Refused}
    PROVE  /\ Planned(d, Plan(d, h)) /\ Begun(d, Plan(d, h)[1], h)
           /\ Kept(d, d, <<>>, b, h, w) => Kept(d, d, Plan(d, h), b, h, w)
<1>1. CASE kind = "xray"
  BY <1>1, XrayPlanned DEF Kept, Recording, Logins
<1>2. CASE kind = "singbox"
  BY <1>2, SingboxPlanned DEF Kept, Recording, Logins
<1>3. CASE kind \in {"wireguard", "hysteria2"}
  BY <1>3, TunnelPlanned DEF Kept, Recording, Logins
<1>4. CASE kind \in Logins
  BY <1>4, LoginPlanned DEF Kept, Recording, Logins
<1>5. CASE kind = "l2tp"
  BY <1>5, L2tpPlanned DEF Kept, Recording, Logins
<1>6. kind \in AllKinds
  BY AdaptersAssumption
<1> QED
  BY <1>1, <1>2, <1>3, <1>4, <1>5, <1>6 DEF AllKinds, Logins

\* What users get, after a step.
LEMMA ServedAfter ==
    ASSUME kind' = kind,
           outcome' = "converged" /\ steps' = <<>> /\ ~excused' /\ ~Stuck(target', host') =>
               Matches(Served(host'), Asked(target'))
    PROVE  ConvergedIsServed'
<1>1. \A d : Rendered(d)' = Rendered(d)
  BY DEF Rendered, XrayGenerate, SingboxGenerate, WireguardGenerate, Hysteria2Generate, OpenvpnRender,
         OcservRender, L2tpRender
<1>2. Blocked' <=> Stuck(target', host')
  BY DEF Blocked, Stuck
<1>3. Asked(target)' = Asked(target')
  BY <1>1 DEF Asked
<1>4. Served(host)' = Served(host')
  BY DEF Served
<1>5. \A s, x : Matches(s, x)' = Matches(s, x)
  BY DEF Matches
<1>6. Matches(Served(host), Asked(target))' = Matches(Served(host'), Asked(target'))
  BY <1>3, <1>4 DEF Matches
<1> QED
  BY <1>2, <1>6 DEF ConvergedIsServed, Idle

\* A pass begins, has nothing to do, is deferred, or cannot plan.
LEMMA ConvergeKeeps ==
    ASSUME AdInv, Converge, AdTypes'
    PROVE  AdInv'
<1> DEFINE plan == Plan(desired, host)
<1>1. /\ AdTypes /\ CleanRecord(host)
      /\ ~excused => Kept(desired, target, steps, At(ops), host, torn)
  BY DEF AdInv
<1>2. /\ Idle /\ steps = <<>> /\ ops = <<>>
      /\ target' = desired /\ kind' = kind /\ desired' = desired /\ host' = host
      /\ torn' = torn /\ excused' = excused
  BY <1>1 DEF Converge, Idle, AdTypes
<1>3. /\ kind \in Kinds /\ desired \in Wants /\ target \in Wants /\ HostOk(host) /\ torn \in BOOLEAN
  BY <1>1 DEF AdTypes
<1>4. \A b : ~excused => Kept(desired, desired, <<>>, b, host, torn)
  BY <1>1, <1>2, <1>3, KeptForNext
<1>5. CASE Begin(plan, desired) /\ outcome' = "running" /\ plan \notin {<<>>, Refused}
  <2>1. steps' = plan /\ ops' \in Apply(Head(plan), desired)
    BY <1>5 DEF Begin
  <2>2. plan \in Seq(StepRows) /\ plan # <<>>
    BY <1>3, <1>5, PlansAreSteps
  <2>3. Head(plan) = plan[1] /\ Head(plan) \in StepRows
    BY <2>2
  <2>4. /\ ops' # <<>> /\ At(ops') # "end"
        /\ plan[1][1] = "remove_configs" => At(ops') = "try stop"
        /\ plan[1][1] = "remove" => At(ops') = "stop"
    BY <1>3, <2>1, <2>3, FirstOperations
  <2>5. /\ Planned(desired, plan) /\ Begun(desired, plan[1], host)
        /\ ~excused => Kept(desired, desired, plan, At(ops'), host, torn)
    <3>1. plan[1][1] = "remove_configs" => At(ops') # "try rm file"
      BY <2>4
    <3> QED
      BY <1>3, <1>4, <1>5, <2>4, <3>1, PlanIsKept
  <2>6. Now(desired, plan[1], ops', host)
    BY <1>3, <2>1, <2>3, <2>5, NowBegins
  <2> HIDE DEF plan
  <2>7. ConvergedIsServed'
    BY <1>2, <1>5, ServedAfter
  <2> QED
    BY <1>1, <1>2, <2>1, <2>5, <2>6, <2>7, InvAfter
<1>6. CASE UNCHANGED <<steps, ops>> /\ (outcome' = "converged" => plan = <<>>)
  <2>1. Planned(desired, <<>>)
    BY DEF Planned
  <2>2. ~excused => Kept(desired, desired, <<>>, At(ops'), host, torn)
    BY <1>4
  <2>3. ConvergedIsServed'
    <3>1. ASSUME outcome' = "converged", ~excused', ~Stuck(target', host')
          PROVE  Matches(Served(host'), Asked(target'))
      BY <1>2, <1>3, <1>4, <1>6, <3>1, EmptyPlanServes
    <3> QED
      BY <1>2, <3>1, ServedAfter
  <2> QED
    BY <1>1, <1>2, <1>6, <2>1, <2>2, <2>3, InvAfter
<1>7. \/ Begin(plan, desired) /\ outcome' = "running" /\ plan \notin {<<>>, Refused}
      \/ UNCHANGED <<steps, ops>> /\ (outcome' = "converged" => plan = <<>>)
  BY DEF Converge
<1> QED
  BY <1>5, <1>6, <1>7

-----------------------------------------------------------------------------
(* The end of a step. *)

\* What is left of a plan.
LEMMA PlannedTail ==
    ASSUME NEW t, NEW p \in Seq(StepRows), Len(p) > 1, Planned(t, p)
    PROVE  /\ Planned(t, Tail(p)) /\ Tail(p) # <<>>
           /\ Tail(p)[1] = p[2] /\ Tail(p)[1][1] \in Next2(p[1][1])
           /\ \A i \in 2 .. Len(p) : i - 1 \in 1 .. Len(Tail(p)) /\ Tail(p)[i - 1] = p[i]
<1> DEFINE q == Tail(p)
<1>1. /\ q \in Seq(StepRows) /\ Len(q) = Len(p) - 1 /\ q # <<>>
      /\ \A i \in 1 .. Len(q) : q[i] = p[i + 1]
      /\ Len(p) \in Nat
  <2>1. p # <<>> /\ Len(p) \in Nat
    BY EmptySeq
  <2>2. q \in Seq(StepRows) /\ Len(q) = Len(p) - 1 /\ \A i \in 1 .. Len(q) : q[i] = p[i + 1]
    BY <2>1, HeadTailProperties
  <2> QED
    BY <2>1, <2>2, TailIsLeft
<1> HIDE DEF q
<1>2. /\ \A i \in 1 .. Len(p) - 1 : p[i + 1][1] \in Next2(p[i][1])
      /\ p # <<>> => p[Len(p)][1] # "add_user"
      /\ \A i \in 1 .. Len(p) : p[i][1] = "add_user" =>
           p[i][2] \in t.users /\ \A j \in 1 .. i : p[j][1] = "add_user"
  BY DEF Planned
<1>3. \A i \in 1 .. Len(q) - 1 : q[i + 1][1] \in Next2(q[i][1])
  <2>1. ASSUME NEW i \in 1 .. Len(q) - 1 PROVE q[i + 1][1] \in Next2(q[i][1])
    <3>1. i + 1 \in 1 .. Len(p) - 1 /\ i \in 1 .. Len(q) /\ i + 1 \in 1 .. Len(q)
      BY <1>1
    <3>2. q[i] = p[i + 1] /\ q[i + 1] = p[(i + 1) + 1]
      BY <1>1, <3>1
    <3>3. p[(i + 1) + 1][1] \in Next2(p[i + 1][1])
      BY <1>2, <3>1
    <3> QED
      BY <3>2, <3>3
  <2> QED
    BY <2>1
<1>4. q[Len(q)][1] # "add_user"
  <2>1. Len(q) \in 1 .. Len(q) /\ Len(q) + 1 = Len(p) /\ p # <<>>
    BY <1>1
  <2>2. q[Len(q)] = p[Len(p)]
    BY <1>1, <2>1
  <2> QED
    BY <1>2, <2>1, <2>2
<1>5. \A i \in 1 .. Len(q) : q[i][1] = "add_user" =>
           q[i][2] \in t.users /\ \A j \in 1 .. i : q[j][1] = "add_user"
  <2>1. ASSUME NEW i \in 1 .. Len(q), q[i][1] = "add_user"
        PROVE  q[i][2] \in t.users /\ \A j \in 1 .. i : q[j][1] = "add_user"
    <3>1. i + 1 \in 1 .. Len(p) /\ q[i] = p[i + 1]
      BY <1>1
    <3>2. p[i + 1][2] \in t.users /\ \A j \in 1 .. i + 1 : p[j][1] = "add_user"
      BY <1>2, <2>1, <3>1
    <3>3. ASSUME NEW j \in 1 .. i PROVE q[j][1] = "add_user"
      <4>1. j \in 1 .. Len(q) /\ j + 1 \in 1 .. i + 1
        BY <1>1
      <4>2. q[j] = p[j + 1]
        BY <1>1, <4>1
      <4> QED
        BY <3>2, <4>1, <4>2
    <3> QED
      BY <3>1, <3>2, <3>3
  <2> QED
    BY <2>1
<1>6. \A i \in 2 .. Len(p) : i - 1 \in 1 .. Len(q) /\ q[i - 1] = p[i]
  <2>1. ASSUME NEW i \in 2 .. Len(p) PROVE i - 1 \in 1 .. Len(q) /\ q[i - 1] = p[i]
    <3>1. i - 1 \in 1 .. Len(q) /\ (i - 1) + 1 = i
      BY <1>1
    <3>2. q[i - 1] = p[(i - 1) + 1]
      BY <1>1, <3>1
    <3> QED
      BY <3>1, <3>2
  <2> QED
    BY <2>1
<1>7. q[1] = p[2] /\ q[1][1] \in Next2(p[1][1])
  <2>1. 1 \in 1 .. Len(p) - 1 /\ 2 \in 2 .. Len(p) /\ 1 + 1 = 2 /\ 2 - 1 = 1
    BY <1>1
  <2>2. q[2 - 1] = p[2]
    BY <1>6, <2>1
  <2>3. p[1 + 1][1] \in Next2(p[1][1])
    BY <1>2, <2>1
  <2> QED
    BY <2>1, <2>2, <2>3
<1>8. Planned(t, q)
  BY <1>3, <1>4, <1>5 DEF Planned
<1> QED
  BY <1>1, <1>6, <1>7, <1>8 DEF q

\* Once the hot path's file is written, everybody of the target's has been added.
LEMMA HotIsTrue ==
    ASSUME kind = "xray", kind \in Kinds, NEW t \in Wants, NEW p \in Seq(StepRows), p # <<>>,
           Planned(t, p), p[1][1] = "write_service_hot", NEW h, Adding(t, p, h), SameFile(t, h)
    PROVE  Content(h) = Rendered(t) /\ Runs(h, Rendered(t))
<1>1. ASSUME NEW i \in 1 .. Len(p), NEW c, p[i] = <<"add_user", c>> PROVE FALSE
  <2>1. \A x, y : <<x, y>>[1] = x
    OBVIOUS
  <2>2. p[i][1] = "add_user"
    BY <1>1, <2>1
  <2>3. 1 \in 1 .. i
    BY <1>1
  <2>4. p[1][1] = "add_user"
    BY <1>1, <2>2, <2>3 DEF Planned
  <2> QED
    BY <2>4
<1>2. \A c \in t.users : c[1] \in Subjects(h.run.users)
  BY <1>1 DEF Adding
<1>3. Subjects(t.users) \subseteq Subjects(h.run.users)
  BY <1>2 DEF Subjects
<1>4. Rendered(t).users = t.users /\ Rendered(t).shape = t.shape
  BY RendersUsers, Renderings
<1>5. /\ h.run.shape = t.shape /\ ~h.run.edited
      /\ Subjects(h.run.users) \subseteq Subjects(t.users)
  BY DEF Adding, Among
<1>6. Subjects(h.run.users) = Subjects(t.users)
  BY <1>3, <1>5
<1>7. Content(h) = Rendered(t)
  BY DEF SameFile
<1> QED
  BY <1>4, <1>5, <1>6, <1>7 DEF Runs

\* Every plan of these adapters but the last step's has the rules next.
LEMMA StepsAfter ==
    ASSUME NEW n
    PROVE  /\ n = "add_user" => Next2(n) = Hot
           /\ n \notin {"add_user", "update_config"} /\ kind \in {"xray", "singbox"} => Next2(n) = Rules
           /\ n \notin {"add_user", "update_config"} /\ kind \notin {"xray", "singbox"} => Next2(n) = {}
           /\ n = "update_config" => Next2(n) = {"sync_users"}
BY DEF Next2

\* The daemon has loaded the target's file and the record says so.
LEMMA RecordedEnds ==
    ASSUME kind \in Kinds, NEW d, NEW t \in Wants, NEW h, NEW w, NEW b, NEW p,
           p = <<>> \/ p[1][1] \in Rules, w => d = t, t = target,
           SameFile(t, h), Content(h) = Rendered(t), Runs(h, Rendered(t)), h.applied = Rendered(t),
           kind = "singbox" => h.mark
    PROVE  RecordingKept(d, t, p, b, h, w)
<1>1. NothingRuns(h) /\ HotReady(t, h) /\ ~h.edited
  BY FileThere
<1>2. RecordTrue(t, w, h)
  BY DEF RecordTrue
<1>3. Marked(w, h)
  BY DEF Marked
<1>4. "remove" \notin Rules /\ Rules \cap Hot = {}
  BY DEF Rules, Hot
<1> QED
  BY <1>1, <1>2, <1>3, <1>4 DEF RecordingKept

\* A step of xray's or singbox's is over.
LEMMA ServiceEnds ==
    ASSUME AdTypes, kind \in {"xray", "singbox"}, ~Idle, Planned(target, steps),
           RecordingNow(target, steps[1], "end", host),
           RecordingKept(desired, target, steps, "end", host, torn),
           steps[1][1] # "add_user",
           NEW p, p = <<>> \/ p[1][1] \in Rules, NEW b
    PROVE  RecordingKept(desired, target, p, b, host, torn)
<1>1. /\ kind \in Kinds /\ target \in Wants /\ HostOk(host) /\ steps # <<>> /\ steps \in Seq(StepRows)
      /\ steps[1] \in StepRows
  BY FirstStep DEF AdTypes
<1> DEFINE s == steps[1]
<1>2. s[1] \in {"write_service", "write_service_hot", "restart_service", "remove_service",
                "write_egress", "remove_egress"}
  <2>1. s \in StepRows
    BY <1>1
  <2> QED
    BY <1>1, <2>1, RowsOfSteps DEF KindSteps
<1>3. torn => ~host.edited /\ desired = target
  BY DEF RecordingKept
<1>4. CASE s[1] \in {"write_service", "restart_service"}
  <2>1. /\ SameFile(target, host) /\ Fresh(host) /\ host.applied = Rendered(target)
        /\ kind = "singbox" => host.mark
    BY <1>4 DEF RecordingNow, WriteNow, Filing, Rewriting, Recorders
  <2>2. Content(host) = Rendered(target) /\ Runs(host, Rendered(target))
    <3>1. RecordTrue(target, torn, host)
      BY <1>1, <2>1, RecordIsTrue
    <3> QED
      BY <2>1, <3>1 DEF RecordTrue
  <2> QED
    BY <1>1, <1>3, <2>1, <2>2, RecordedEnds
<1>5. CASE s[1] = "write_service_hot"
  <2>1. kind = "xray"
    <3>1. s \in StepRows
      BY <1>1
    <3> QED
      BY <1>1, <1>5, <3>1, RowsOfSteps DEF KindSteps
  <2>2. SameFile(target, host) /\ host.applied = Rendered(target) /\ Adding(target, steps, host)
    BY <1>1, <1>5 DEF RecordingNow, WriteNow, Filing, Recorders, RecordingKept, Hot
  <2>3. Content(host) = Rendered(target) /\ Runs(host, Rendered(target))
    BY <1>1, <1>5, <2>1, <2>2, HotIsTrue
  <2> QED
    BY <1>1, <1>3, <2>1, <2>2, <2>3, RecordedEnds
<1>6. CASE s[1] = "remove_service"
  <2>1. host.shape = NoFile /\ ~host.edited /\ host.applied = NoRecord /\ Fresh(host)
    BY <1>6 DEF RecordingNow, RemoveNow
  <2>2. NothingRuns(host) /\ HotReady(target, host) /\ Marked(torn, host)
    BY <1>1, <2>1, FreshRunsNothing DEF HotReady, additive, Marked
  <2>3. RecordTrue(target, torn, host)
    BY <1>1, <2>1, Renderings DEF RecordTrue
  <2>4. "remove" \notin Rules /\ Rules \cap Hot = {}
    BY DEF Rules, Hot
  <2> QED
    BY <1>3, <2>1, <2>2, <2>3, <2>4 DEF RecordingKept
<1>7. CASE s[1] \in Rules
  <2>1. /\ NothingRuns(host) /\ HotReady(target, host) /\ Marked(torn, host)
        /\ RecordTrue(target, torn, host) /\ ~host.edited
    BY <1>1, <1>7 DEF RecordingKept, Rules
  <2>2. "remove" \notin Rules /\ Rules \cap Hot = {}
    BY DEF Rules, Hot
  <2> QED
    BY <1>3, <2>1, <2>2 DEF RecordingKept
<1> QED
  BY <1>2, <1>4, <1>5, <1>6, <1>7 DEF Rules

\* One user has been added; the rest of the hot path is left.
LEMMA UserEnds ==
    ASSUME AdTypes, kind = "xray", ~Idle, Planned(target, steps), Len(steps) > 1,
           RecordingNow(target, steps[1], "end", host),
           RecordingKept(desired, target, steps, "end", host, torn),
           steps[1][1] = "add_user", NEW b
    PROVE  RecordingKept(desired, target, Tail(steps), b, host, torn)
<1>1. /\ kind \in Kinds /\ target \in Wants /\ steps # <<>> /\ steps \in Seq(StepRows) /\ Len(steps) \in Nat
  BY FirstStep DEF AdTypes
<1>2. /\ Tail(steps) # <<>> /\ Tail(steps)[1][1] \in Hot
      /\ \A i \in 2 .. Len(steps) : i - 1 \in 1 .. Len(Tail(steps)) /\ Tail(steps)[i - 1] = steps[i]
  BY <1>1, PlannedTail, StepsAfter
<1>3. /\ torn => ~host.edited /\ desired = target
      /\ NothingRuns(host) /\ HotReady(target, host) /\ Adding(target, steps, host)
  BY <1>1 DEF RecordingKept, Hot
<1>4. steps[1][2][1] \in Subjects(host.run.users)
  BY DEF RecordingNow, RemoveNow
<1>5. \A c \in target.users : \/ c[1] \in Subjects(host.run.users)
                              \/ \E i \in 1 .. Len(Tail(steps)) : Tail(steps)[i] = <<"add_user", c>>
  <2>1. ASSUME NEW c \in target.users, c[1] \notin Subjects(host.run.users)
        PROVE  \E i \in 1 .. Len(Tail(steps)) : Tail(steps)[i] = <<"add_user", c>>
    <3>1. PICK i \in 1 .. Len(steps) : steps[i] = <<"add_user", c>>
      BY <1>3, <2>1 DEF Adding
    <3>2. i # 1
      <4>1. \A x, y : <<x, y>>[2] = y
        OBVIOUS
      <4>2. steps[i][2] = c
        BY <3>1, <4>1
      <4> QED
        BY <1>4, <2>1, <4>2
    <3>3. i \in 2 .. Len(steps)
      BY <1>1, <3>2
    <3> QED
      BY <1>2, <3>1, <3>3
  <2> QED
    BY <2>1
<1>6. Adding(target, Tail(steps), host)
  BY <1>3, <1>5 DEF Adding
<1> QED
  BY <1>2, <1>3, <1>6 DEF RecordingKept, Rules, Hot

\* A step of wireguard's or hysteria2's, the only one of its plan, is over.
LEMMA TunnelEnds ==
    ASSUME AdTypes, kind \in {"wireguard", "hysteria2"}, ~Idle,
           RecordingNow(target, steps[1], "end", host),
           RecordingKept(desired, target, steps, "end", host, torn), NEW b
    PROVE  RecordingKept(desired, target, <<>>, b, host, torn)
<1>1. /\ kind \in Kinds /\ target \in Wants /\ HostOk(host) /\ steps # <<>> /\ steps[1] \in StepRows
  BY FirstStep DEF AdTypes
<1> DEFINE s == steps[1]
<1>2. s[1] \in {"install", "restart", "reload", "remove"}
  <2>1. s \in StepRows
    BY <1>1
  <2> QED
    BY <1>1, <2>1, RowsOfSteps DEF KindSteps
<1>3. torn => ~host.edited /\ desired = target
  BY DEF RecordingKept
<1>4. CASE s[1] \in {"install", "restart", "reload"}
  <2>1. SameFile(target, host) /\ Fresh(host) /\ host.applied = Rendered(target)
    BY <1>4 DEF RecordingNow, WriteNow, Filing, Rewriting, Recorders
  <2>2. Content(host) = Rendered(target) /\ Runs(host, Rendered(target))
    <3>1. RecordTrue(target, torn, host)
      BY <1>1, <2>1, RecordIsTrue
    <3> QED
      BY <2>1, <3>1 DEF RecordTrue
  <2> QED
    BY <1>1, <1>3, <2>1, <2>2, RecordedEnds
<1>5. CASE s[1] = "remove"
  <2>1. host.run = Down
    BY <1>1, <1>5 DEF RecordingKept
  <2>2. NothingRuns(host) /\ HotReady(target, host) /\ Marked(torn, host)
    BY <2>1 DEF NothingRuns, HotReady, Marked, Down
  <2>3. (torn /\ host.applied # Rendered(target)) \/ host.applied = NoRecord
    BY <1>1, <1>5 DEF RecordingKept
  <2>4. RecordTrue(target, torn, host)
    BY <1>1, <2>3, Renderings DEF RecordTrue
  <2> QED
    BY <1>3, <2>2, <2>4 DEF RecordingKept
<1> QED
  BY <1>2, <1>4, <1>5

\* A step of openvpn's or ocserv's is over.
LEMMA LoginEnds ==
    ASSUME AdTypes, kind \in Logins, ~Idle, LoginNow(target, steps[1], "end", host),
           LoginKept(steps, host, torn)
    PROVE  /\ LoginKept(<<>>, host, torn)
           /\ \A p : steps[1][1] = "update_config" => LoginKept(p, host, torn)
<1>1. /\ kind \in Kinds /\ target \in Wants /\ HostOk(host) /\ steps # <<>> /\ steps[1] \in StepRows
  BY FirstStep DEF AdTypes
<1> DEFINE s == steps[1]
<1>2. s[1] \in {"install", "update_config", "sync_users", "remove"}
  <2>1. s \in StepRows
    BY <1>1
  <2> QED
    BY <1>1, <2>1, RowsOfSteps DEF KindSteps, Logins
<1>3. ~torn /\ target.shape # NoFile
  BY <1>1, Renderings DEF LoginKept, NoFile
<1>4. CASE s[1] \in {"install", "update_config"}
  <2>1. host.shape = target.shape /\ host.run.shape = host.shape /\ ~host.run.edited
    BY <1>4 DEF LoginNow
  <2>2. NothingRuns(host)
    BY <1>3, <2>1 DEF NothingRuns, Gone, Logins
  <2> QED
    BY <1>3, <1>4, <2>1, <2>2 DEF LoginKept
<1>5. CASE s[1] = "sync_users"
  <2>1. host.run.shape = host.shape /\ ~host.run.edited
    BY <1>1, <1>5 DEF LoginKept
  <2>2. NothingRuns(host)
    BY <2>1 DEF NothingRuns, Gone, Logins
  <2> QED
    BY <1>3, <1>5, <2>1, <2>2 DEF LoginKept
<1>6. CASE s[1] = "remove"
  <2>1. host.run = Down /\ host.shape = NoFile
    BY <1>6 DEF LoginNow
  <2>2. host.run.shape = host.shape /\ ~host.run.edited
    BY <2>1 DEF Down
  <2>3. NothingRuns(host)
    BY <2>1 DEF NothingRuns, Down
  <2> QED
    BY <1>3, <1>6, <2>2, <2>3 DEF LoginKept
<1> QED
  BY <1>2, <1>4, <1>5, <1>6

\* A step of l2tp's, the only one of its plan, is over.
LEMMA L2tpEnds ==
    ASSUME AdTypes, kind = "l2tp", ~Idle, L2tpNow(target, steps[1], <<>>, host),
           L2tpKept(steps, "end", host), NEW b
    PROVE  L2tpKept(<<>>, b, host)
<1>1. /\ kind \in Kinds /\ target \in Wants /\ steps # <<>> /\ steps[1] \in StepRows
  BY FirstStep DEF AdTypes
<1> DEFINE s == steps[1]
<1>2. s[1] \in {"install_configs", "update_configs", "remove_configs"}
  <2>1. s \in StepRows
    BY <1>1
  <2> QED
    BY <1>1, <2>1, RowsOfSteps DEF KindSteps
<1>3. CASE s[1] \in {"install_configs", "update_configs"}
  <2>1. host.shape = target.shape
    BY <1>3 DEF L2tpNow, ShapeWritten
  <2>2. target.shape # NoFile
    BY <1>1, Renderings DEF NoFile
  <2> QED
    BY <2>1, <2>2 DEF L2tpKept, NothingRuns, Gone
<1>4. CASE s[1] = "remove_configs"
  <2>1. host.run = Down
    BY <1>1, <1>4 DEF L2tpKept
  <2> QED
    BY <2>1 DEF L2tpKept, NothingRuns, Down
<1> QED
  BY <1>2, <1>3, <1>4

\* Whatever the host, no later step of a plan depends on what the plan found.
LEMMA NextBegins ==
    ASSUME AdTypes, ~Idle, Len(steps) > 1, Planned(target, steps), NEW q, NEW h,
           q \in Apply(Head(Tail(steps)), target)
    PROVE  /\ Planned(target, Tail(steps)) /\ Tail(steps) # <<>>
           /\ Tail(steps)[1][1] \in Next2(steps[1][1])
           /\ Now(target, Tail(steps)[1], q, h) /\ q # <<>> /\ At(q) # "end"
<1>1. /\ kind \in Kinds /\ target \in Wants /\ steps # <<>> /\ steps \in Seq(StepRows)
  BY FirstStep DEF AdTypes
<1>2. /\ Planned(target, Tail(steps)) /\ Tail(steps) # <<>> /\ Tail(steps) \in Seq(StepRows)
      /\ Tail(steps)[1][1] \in Next2(steps[1][1])
  BY <1>1, PlannedTail, TailIsLeft
<1>3. Head(Tail(steps)) = Tail(steps)[1] /\ Head(Tail(steps)) \in StepRows
  BY <1>2
<1>4. Tail(steps)[1][1] \in Hot \cup Rules \cup {"sync_users"}
  BY <1>2 DEF Next2
<1>5. Begun(target, Tail(steps)[1], h)
  BY <1>4 DEF Begun, Hot, Rules
<1>6. Now(target, Tail(steps)[1], q, h)
  BY <1>1, <1>3, <1>5, NowBegins
<1> QED
  BY <1>1, <1>2, <1>3, <1>6, FirstOperations

\* The last step adds nobody.
LEMMA LastStep ==
    ASSUME AdTypes, ~Idle, Planned(target, steps)
    PROVE  Len(steps) = 1 => steps[1][1] # "add_user"
BY FirstStep DEF Planned

\* What is kept when a step is over.
LEMMA EndsKept ==
    ASSUME AdTypes, ~Idle, Planned(target, steps), Now(target, steps[1], <<>>, host),
           Kept(desired, target, steps, "end", host, torn), NEW b
    PROVE  /\ Len(steps) = 1 => Kept(desired, target, <<>>, b, host, torn)
           /\ Len(steps) > 1 => Kept(desired, target, Tail(steps), b, host, torn)
<1>1. /\ kind \in Kinds /\ kind \in AllKinds /\ target \in Wants /\ steps # <<>> /\ steps \in Seq(StepRows)
      /\ steps[1] \in StepRows
  BY FirstStep, AdaptersAssumption DEF AdTypes
<1>2. Len(steps) > 1 => Tail(steps)[1][1] \in Next2(steps[1][1]) /\ Tail(steps) # <<>>
  BY <1>1, PlannedTail
<1>3. At(<<>>) = "end"
  BY DEF At
<1>4. CASE kind \in {"xray", "singbox"}
  <2>1. /\ RecordingNow(target, steps[1], "end", host)
        /\ RecordingKept(desired, target, steps, "end", host, torn)
    BY <1>3, <1>4 DEF Now, Kept, Recording
  <2>2. ASSUME steps[1][1] = "add_user"
        PROVE  kind = "xray" /\ Len(steps) # 1
    BY <1>1, <2>2, RowsOfSteps, LastStep
  <2>3. ASSUME steps[1][1] # "add_user"
        PROVE  steps[1][1] # "update_config"
    <3>1. steps[1][1] \in {"write_service", "write_service_hot", "restart_service", "remove_service",
                           "write_egress", "remove_egress"}
      BY <1>1, <1>4, <2>3, RowsOfSteps DEF KindSteps
    <3> QED
      BY <3>1
  <2>4. Len(steps) = 1 => RecordingKept(desired, target, <<>>, b, host, torn)
    BY <1>4, <2>1, <2>2, ServiceEnds
  <2>5. Len(steps) > 1 => RecordingKept(desired, target, Tail(steps), b, host, torn)
    <3>1. CASE steps[1][1] = "add_user"
      BY <1>4, <2>1, <2>2, <3>1, UserEnds
    <3>2. CASE steps[1][1] # "add_user"
      <4>1. Len(steps) > 1 => Tail(steps)[1][1] \in Rules
        BY <1>2, <1>4, <2>3, <3>2, StepsAfter
      <4> QED
        BY <1>4, <2>1, <3>2, <4>1, ServiceEnds
    <3> QED
      BY <3>1, <3>2
  <2> QED
    BY <1>4, <2>4, <2>5 DEF Kept, Logins
<1>5. CASE kind \in {"wireguard", "hysteria2"}
  <2>1. /\ RecordingNow(target, steps[1], "end", host)
        /\ RecordingKept(desired, target, steps, "end", host, torn)
    BY <1>3, <1>5 DEF Now, Kept, Recording
  <2>2. steps[1][1] \in {"install", "restart", "reload", "remove"}
    BY <1>1, <1>5, RowsOfSteps DEF KindSteps
  <2>3. ~(Len(steps) > 1)
    BY <1>2, <1>5, <2>2, StepsAfter
  <2>4. RecordingKept(desired, target, <<>>, b, host, torn)
    BY <1>5, <2>1, TunnelEnds
  <2> QED
    BY <1>5, <2>3, <2>4 DEF Kept, Logins
<1>6. CASE kind \in Logins
  <2>1. LoginNow(target, steps[1], "end", host) /\ LoginKept(steps, host, torn)
    BY <1>3, <1>6 DEF Now, Kept
  <2>2. steps[1][1] \in {"install", "update_config", "sync_users", "remove"}
    BY <1>1, <1>6, RowsOfSteps DEF KindSteps, Logins
  <2>3. Len(steps) > 1 => steps[1][1] = "update_config"
    BY <1>2, <1>6, <2>2, StepsAfter DEF Logins
  <2>4. /\ LoginKept(<<>>, host, torn)
        /\ \A p : steps[1][1] = "update_config" => LoginKept(p, host, torn)
    BY <1>6, <2>1, LoginEnds
  <2> QED
    BY <1>6, <2>3, <2>4 DEF Kept, Recording, Logins
<1>7. CASE kind = "l2tp"
  <2>1. L2tpNow(target, steps[1], <<>>, host) /\ L2tpKept(steps, "end", host)
    BY <1>7 DEF Now, Kept
  <2>2. steps[1][1] \in {"install_configs", "update_configs", "remove_configs"}
    BY <1>1, <1>7, RowsOfSteps DEF KindSteps
  <2>3. ~(Len(steps) > 1)
    BY <1>2, <1>7, <2>2, StepsAfter
  <2>4. L2tpKept(<<>>, b, host)
    BY <1>7, <2>1, L2tpEnds
  <2> QED
    BY <1>7, <2>3, <2>4 DEF Kept, Recording, Logins
<1> QED
  BY <1>1, <1>4, <1>5, <1>6, <1>7 DEF AllKinds, Logins

\* A plan has one step or more.
LEMMA OneOrMore == \A n \in Nat \ {0} : n = 1 \/ n > 1
OBVIOUS

\* What a step that succeeded or was given up leaves to the next one.
LEMMA NextKeeps ==
    ASSUME AdInv, AdTypes', ~Idle, NEW bad \in BOOLEAN, NextStep(bad),
           kind' = kind, desired' = desired, target' = target, CleanRecord(host'),
           \A b : ~excused' /\ Len(steps) = 1 => Kept(desired, target, <<>>, b, host', torn'),
           \A b : ~excused' /\ Len(steps) > 1 /\ b # "end" =>
                     Kept(desired, target, Tail(steps), b, host', torn')
    PROVE  AdInv'
<1>1. AdTypes /\ Planned(target, steps) /\ steps # <<>> /\ Len(steps) \in Nat \ {0}
      /\ kind \in Kinds /\ target \in Wants
  BY FirstStep DEF AdInv, AdTypes
<1>2. CASE Len(steps) > 1
  <2>1. steps' = Tail(steps) /\ ops' \in Apply(Head(Tail(steps)), target) /\ outcome' = outcome
    BY <1>2 DEF NextStep, Begin
  <2>2. /\ Planned(target, Tail(steps)) /\ Tail(steps) # <<>>
        /\ Now(target, Tail(steps)[1], ops', host') /\ ops' # <<>> /\ At(ops') # "end"
    BY <1>1, <1>2, <2>1, NextBegins
  <2>3. ~excused' => Kept(desired, target, Tail(steps), At(ops'), host', torn')
    BY <1>2, <2>2
  <2>4. ConvergedIsServed'
    BY <2>1, <2>2, ServedAfter
  <2> QED
    BY <2>1, <2>2, <2>3, <2>4, InvAfter
<1>3. CASE Len(steps) = 1
  <2>1. steps' = <<>> /\ ops' = <<>> /\ (outcome' = "converged" => Plan(target, host') = <<>>)
    BY <1>3 DEF NextStep
  <2>2. Planned(target, <<>>)
    BY DEF Planned
  <2>3. ~excused' => Kept(desired, target, <<>>, At(ops'), host', torn')
    BY <1>3
  <2>4. HostOk(host')
    <3>1. HostOk(host)'
      BY DEF AdTypes
    <3>2. HostOk(host)' = HostOk(host')
      BY KindStays
    <3> QED
      BY <3>1, <3>2
  <2>5. ConvergedIsServed'
    <3>1. ASSUME outcome' = "converged", ~excused', ~Stuck(target', host')
          PROVE  Matches(Served(host'), Asked(target'))
      BY <1>1, <2>1, <2>3, <2>4, <3>1, EmptyPlanServes
    <3> QED
      BY <3>1, ServedAfter
  <2> QED
    BY <2>1, <2>2, <2>3, <2>5, InvAfter
<1>4. Len(steps) = 1 \/ Len(steps) > 1
  <2>1. Len(steps) \in Nat \ {0}
    BY <1>1
  <2> QED
    BY <2>1, OneOrMore
<1> QED
  BY <1>2, <1>3, <1>4

\* A step is over.
LEMMA FinishKeeps ==
    ASSUME AdInv, FinishStep, AdTypes'
    PROVE  AdInv'
<1>1. /\ ~Idle /\ ops = <<>> /\ host' = host /\ NextStep(failed)
      /\ kind' = kind /\ desired' = desired /\ target' = target
      /\ torn' = torn /\ excused' = excused
  BY DEF FinishStep
<1>2. /\ AdTypes /\ CleanRecord(host) /\ Planned(target, steps) /\ failed \in BOOLEAN
      /\ Now(target, steps[1], ops, host)
      /\ ~excused => Kept(desired, target, steps, At(ops), host, torn)
  BY <1>1 DEF AdInv, AdTypes
<1>3. At(ops) = "end"
  BY <1>1 DEF At
<1>4. ASSUME NEW b, ~excused
      PROVE  /\ Len(steps) = 1 => Kept(desired, target, <<>>, b, host, torn)
             /\ Len(steps) > 1 => Kept(desired, target, Tail(steps), b, host, torn)
  BY <1>1, <1>2, <1>3, <1>4, EndsKept
<1> QED
  BY <1>1, <1>2, <1>4, NextKeeps

-----------------------------------------------------------------------------
(* A step that is cut short. *)

\* The steps whose failure the record tells the next plan about, as they go on.
RecordedSteps == {"write_service", "write_service_hot", "restart_service", "install", "restart",
                  "reload", "remove"}

\* Where such a step is when an operation of it fails.
LEMMA RecordedMoves ==
    ASSUME AdTypes, kind \in Recording, ops # <<>>, NEW s, s = Head(steps),
           s[1] \notin {"add_user", "write_egress", "remove_egress", "remove_service"}
    PROVE  /\ s[1] \in RecordedSteps
           /\ At(ops) \in {"file", "mark", "restart", "start", "reload", "record", "stop", "rm file",
                           "try rm applied"}
           /\ At(ops) = "record" => At(Tail(ops)) = "end" /\ s[1] \in Recorders
           /\ kind = "xray" => At(ops) \in {"file", "restart", "record"}
           /\ kind = "xray" /\ At(ops) = "restart" => s[1] \in {"write_service", "restart_service"}
           /\ s[1] = "remove" => At(ops) \in {"stop", "rm file", "try rm applied"}
           /\ At(ops) = "try rm applied" => s[1] = "remove" /\ At(Tail(ops)) = "end"
           /\ s[1] = "write_service_hot" => kind = "xray" /\ At(ops) \in {"file", "record"}
<1>1. s \in StepRows /\ kind \in Kinds
  BY Underway
<1>2. CASE kind = "xray"
  <2>1. s[1] \in {"write_service", "write_service_hot", "restart_service"}
    BY <1>1, <1>2, RowsOfSteps DEF KindSteps
  <2>2. CASE s[1] = "write_service"
    BY <1>2, <2>2, XrayMoves DEF RecordedSteps, Recorders
  <2>3. CASE s[1] = "write_service_hot"
    BY <1>2, <2>3, XrayMoves DEF RecordedSteps, Recorders
  <2>4. CASE s[1] = "restart_service"
    BY <1>2, <2>4, XrayMoves DEF RecordedSteps, Recorders
  <2> QED
    BY <2>1, <2>2, <2>3, <2>4
<1>3. CASE kind = "singbox"
  <2>1. s[1] \in {"write_service", "restart_service"}
    BY <1>1, <1>3, RowsOfSteps DEF KindSteps
  <2>2. CASE s[1] = "write_service"
    BY <1>3, <2>2, SingboxMoves DEF RecordedSteps, Recorders
  <2>3. CASE s[1] = "restart_service"
    BY <1>3, <2>3, SingboxMoves DEF RecordedSteps, Recorders
  <2> QED
    BY <2>1, <2>2, <2>3
<1>4. CASE kind = "wireguard"
  <2>1. s[1] \in {"install", "restart", "reload", "remove"}
    BY <1>1, <1>4, RowsOfSteps DEF KindSteps
  <2>2. CASE s[1] \in {"install", "restart"}
    BY <1>4, <2>2, WireguardMoves DEF RecordedSteps, Recorders
  <2>3. CASE s[1] = "reload"
    BY <1>4, <2>3, WireguardMoves DEF RecordedSteps, Recorders
  <2>4. CASE s[1] = "remove"
    BY <1>4, <2>4, WireguardMoves DEF RecordedSteps, Recorders
  <2> QED
    BY <2>1, <2>2, <2>3, <2>4
<1>5. CASE kind = "hysteria2"
  <2>1. s[1] \in {"install", "restart", "remove"}
    BY <1>1, <1>5, RowsOfSteps DEF KindSteps
  <2>2. CASE s[1] \in {"install", "restart"}
    BY <1>5, <2>2, Hysteria2Moves DEF RecordedSteps, Recorders
  <2>3. CASE s[1] = "remove"
    BY <1>5, <2>3, Hysteria2Moves DEF RecordedSteps, Recorders
  <2> QED
    BY <2>1, <2>2, <2>3
<1> QED
  BY <1>2, <1>3, <1>4, <1>5 DEF Recording

\* A failure that is not excused, and what the step under way has kept until then.
Recorded(o) ==
    /\ kind \in Recording /\ o # "add user"
    /\ host.applied # Rendered(target) /\ ~host.edited /\ desired = target
    /\ steps[1][1] \notin {"add_user", "write_egress", "remove_egress", "remove_service"}

\* A failure the model does not count as unrecorded is of such a step.
LEMMA NotUnrecorded ==
    ASSUME AdTypes, ops # <<>>, ~Unrecorded(Head(ops)), desired = target
    PROVE  Recorded(Head(ops))
<1>1. kind \in Kinds /\ kind \in AllKinds /\ Head(steps) = steps[1]
  BY Underway, FirstStep, AdaptersAssumption
<1>2. /\ kind \notin {"openvpn", "ocserv", "l2tp"} /\ Head(ops) # "add user"
      /\ host.applied # Rendered(target) /\ ~host.edited
      /\ Head(steps)[1] \notin {"write_egress", "remove_egress", "remove_service"}
  BY DEF Unrecorded
<1>3. Head(steps)[1] # "add_user"
  <2>1. ASSUME Head(steps)[1] = "add_user" PROVE FALSE
    <3>1. kind = "xray"
      BY <1>1, <2>1, Underway, RowsOfSteps
    <3>2. At(ops) = "add user"
      BY <2>1, <3>1, XrayMoves
    <3> QED
      BY <1>2, <3>2 DEF At
  <2> QED
    BY <2>1
<1> QED
  BY <1>1, <1>2, <1>3 DEF Recorded, AllKinds, Recording

\* What a recorded failure may leave: the daemon behind its file, never ahead of it.
Cut(g) ==
    /\ ~g.edited /\ NothingRuns(g) /\ HotReady(target, g)
    /\ g.applied = Rendered(target) => Content(g) = g.applied /\ Runs(g, g.applied)

\* An operation has failed.
LEMMA BrokenIsCut ==
    ASSUME AdTypes, ops # <<>>, Recorded(Head(ops)), Now(target, Head(steps), ops, host),
           RecordingKept(desired, target, steps, At(ops), host, torn),
           NEW g, g = host \/ g \in Broken(Head(ops), host)
    PROVE  /\ Cut(g) /\ g.applied # Rendered(target)
           /\ steps[1][1] = "write_service_hot" => Adding(target, steps, g)
<1>1. /\ HostOk(host) /\ target \in Wants /\ kind \in Kinds /\ At(ops) = Head(ops) /\ steps # <<>>
      /\ ~Idle /\ Head(steps) = steps[1]
  BY Underway, FirstStep DEF AdTypes, At, Idle
<1>2. /\ steps[1][1] \in RecordedSteps
      /\ At(ops) \in {"file", "mark", "restart", "start", "reload", "record", "stop", "rm file",
                      "try rm applied"}
      /\ kind = "xray" => At(ops) \in {"file", "restart", "record"}
      /\ kind = "xray" /\ At(ops) = "restart" => steps[1][1] \in {"write_service", "restart_service"}
      /\ steps[1][1] = "write_service_hot" => kind = "xray" /\ At(ops) \in {"file", "record"}
  BY <1>1, RecordedMoves DEF Recorded
<1>3. /\ NothingRuns(host) /\ HotReady(target, host) /\ ~host.edited
      /\ host.applied # Rendered(target) /\ Rendered(target) # NoRecord
      /\ steps[1][1] = "write_service_hot" => Adding(target, steps, host)
  BY <1>1, <1>2, Renderings DEF RecordingKept, Recorded, RecordedSteps, Hot
<1>4. RecordingNow(target, steps[1], At(ops), host)
  BY <1>1 DEF Now, Recorded
<1>5. /\ SameFiles(g, host) /\ g.run \in {host.run, Down} /\ g.applied \in {host.applied, NoRecord}
      /\ At(ops) \notin {"restart", "start"} => g.run = host.run
      /\ At(ops) # "record" => g.applied = host.applied
  <2>1. CASE g = host
    BY <2>1 DEF SameFiles
  <2>2. CASE g \in Broken(Head(ops), host)
    <3>1. At(ops) # "passwd" /\ kind # "ocserv"
      BY <1>2 DEF Recorded, Recording
    <3> QED
      BY <1>1, <2>2, <3>1, BrokenEffects DEF SameFiles
  <2> QED
    BY <2>1, <2>2
<1>6. /\ g.shape = host.shape /\ g.users = host.users /\ g.edited = host.edited
      /\ Content(g) = Content(host) /\ (SameFile(target, g) <=> SameFile(target, host))
  BY <1>5, Copies
<1>7. NothingRuns(g)
  <2>1. CASE g.run = Down
    BY <2>1 DEF NothingRuns, Down
  <2>2. CASE g.run = host.run
    BY <1>3, <1>5, <2>2, Copies
  <2> QED
    BY <1>5, <2>1, <2>2
<1>8. g.applied # Rendered(target)
  BY <1>3, <1>5
<1>9. kind = "xray" /\ At(ops) = "restart" => SameFile(target, g)
  <2>1. kind = "xray" /\ At(ops) = "restart" => SameFile(target, host)
    BY <1>2, <1>4 DEF RecordingNow, WriteNow, Filing
  <2> QED
    BY <1>6, <2>1
<1>10. HotReady(target, g)
  <2>1. CASE kind # "xray"
    BY <2>1 DEF HotReady
  <2>2. CASE kind = "xray" /\ At(ops) = "restart"
    BY <1>9, <2>2 DEF HotReady
  <2>3. CASE kind = "xray" /\ At(ops) # "restart"
    <3>1. g.run = host.run
      BY <1>2, <1>5, <2>3
    <3>2. CASE g.applied = host.applied
      BY <1>3, <1>5, <3>1, <3>2, Copies
    <3>3. CASE g.applied = NoRecord
      BY <3>3 DEF HotReady, additive
    <3> QED
      BY <1>5, <3>2, <3>3
  <2> QED
    BY <2>1, <2>2, <2>3
<1>11. ASSUME steps[1][1] = "write_service_hot" PROVE Adding(target, steps, g)
  <2>1. g.run = host.run /\ Adding(target, steps, host)
    BY <1>2, <1>3, <1>5, <1>11
  <2>2. CASE At(ops) = "file"
    <3>1. g.applied = host.applied
      BY <1>5, <2>2
    <3> QED
      BY <1>5, <2>1, <3>1, Copies
  <2>3. CASE At(ops) = "record"
    <3>1. SameFile(target, g)
      BY <1>4, <1>6, <1>11, <2>3 DEF RecordingNow, WriteNow, Filing
    <3> QED
      BY <2>1, <3>1 DEF Adding, Among
  <2> QED
    BY <1>2, <1>11, <2>2, <2>3
<1> QED
  BY <1>3, <1>6, <1>7, <1>8, <1>10, <1>11 DEF Cut

\* An operation was done, and nobody has learned of it.
LEMMA DoneIsCut ==
    ASSUME AdTypes, ops # <<>>, CanBeDone(Head(ops), host), CleanRecord(host), Planned(target, steps),
           Recorded(Head(ops)), Now(target, Head(steps), ops, host), ~excused,
           Kept(desired, target, steps, At(ops), host, torn),
           NEW g, g = Done(Head(ops), host)
    PROVE  Cut(g)
<1>1. /\ HostOk(host) /\ target \in Wants /\ kind \in Kinds /\ At(ops) = Head(ops) /\ steps # <<>>
      /\ ~Idle /\ Head(steps) = steps[1] /\ steps \in Seq(StepRows)
  BY Underway, FirstStep DEF AdTypes, At, Idle
<1>2. /\ steps[1][1] \in RecordedSteps
      /\ At(ops) \in {"file", "mark", "restart", "start", "reload", "record", "stop", "rm file",
                      "try rm applied"}
      /\ At(ops) = "record" => At(Tail(ops)) = "end" /\ steps[1][1] \in Recorders
      /\ steps[1][1] = "write_service_hot" => kind = "xray"
  BY <1>1, RecordedMoves DEF Recorded
<1>3. Now(target, steps[1], Tail(ops), g)
  BY <1>1, NowStays
<1>4. ASSUME NEW w, w = (torn /\ ~Restarted)
      PROVE  Kept(desired, target, steps, At(Tail(ops)), g, w)
  BY <1>1, <1>4, KeptStays
<1>5. \E w : RecordingKept(desired, target, steps, At(Tail(ops)), g, w)
  BY <1>4 DEF Kept, Recorded
<1>6. /\ NothingRuns(g) /\ HotReady(target, g)
      /\ steps[1][1] = "write_service_hot" => Adding(target, steps, g)
  BY <1>1, <1>2, <1>5 DEF RecordingKept, RecordedSteps, Hot
<1>7. ~g.edited
  BY NotEdited DEF Recorded
<1>8. ASSUME g.applied = Rendered(target)
      PROVE  Content(g) = g.applied /\ Runs(g, g.applied)
  <2>1. At(ops) = "record"
    <3>1. ASSUME At(ops) # "record" PROVE g.applied \in {host.applied, NoRecord}
      <4>1. CASE At(ops) \in {"file", "mark", "rm file"}
        BY <1>1, <4>1, FilesAfter
      <4>2. CASE At(ops) \in {"restart", "start", "reload", "stop", "try rm applied"}
        BY <1>1, <4>2, DaemonAfter
      <4> QED
        BY <1>2, <3>1, <4>1, <4>2
    <3>2. Rendered(target) # NoRecord /\ host.applied # Rendered(target)
      BY <1>1, Renderings DEF Recorded
    <3> QED
      BY <1>8, <3>1, <3>2
  <2>2. /\ At(Tail(ops)) = "end" /\ steps[1][1] \in Recorders
        /\ RecordingNow(target, steps[1], "end", g)
    BY <1>2, <1>3, <2>1 DEF Now, Recorded
  <2>3. SameFile(target, g)
    BY <2>2 DEF RecordingNow, WriteNow, Filing, Recorders
  <2>4. CASE steps[1][1] = "write_service_hot"
    <3>1. Content(g) = Rendered(target) /\ Runs(g, Rendered(target))
      BY <1>1, <1>2, <1>6, <2>3, <2>4, HotIsTrue
    <3> QED
      BY <1>8, <3>1
  <2>5. CASE steps[1][1] # "write_service_hot"
    <3>1. Fresh(g)
      BY <2>2, <2>5 DEF RecordingNow, WriteNow, Rewriting, Recorders
    <3>2. RecordTrue(target, TRUE, g)
      BY <1>1, <1>8, <2>3, <3>1, RecordIsTrue
    <3> QED
      BY <1>8, <3>2 DEF RecordTrue
  <2> QED
    BY <2>4, <2>5
<1> QED
  BY <1>6, <1>7, <1>8 DEF Cut

\* What a recorded failure leaves to the next attempt, the next step or the next pass.
LEMMA CutIsKept ==
    ASSUME desired = target, NEW g, Cut(g), NEW p, NEW b,
           \/ p = <<>> \/ p[1][1] \in Rules
           \/ p[1][1] \in RecordedSteps /\ (p[1][1] = "write_service_hot" => Adding(target, p, g)),
           p # <<>> /\ p[1][1] = "remove" /\ b = "end" => g.applied # Rendered(target),
           p # <<>> /\ p[1][1] = "remove" /\ b # "stop" => g.run = Down
    PROVE  RecordingKept(desired, target, p, b, g, TRUE)
<1>1. RecordTrue(target, TRUE, g) /\ Marked(TRUE, g)
  BY DEF Cut, RecordTrue, Marked
<1>2. "remove" \notin Rules /\ Rules \cap Hot = {} /\ "add_user" \notin RecordedSteps
      /\ RecordedSteps \cap Rules = {}
  BY DEF Rules, Hot, RecordedSteps
<1>3. p # <<>> /\ p[1][1] \in Hot => Adding(target, p, g)
  BY <1>2 DEF Hot
<1> QED
  BY <1>1, <1>2, <1>3 DEF RecordingKept, Cut

Tried == {"try stop", "try rm file", "try rm applied"}

\* Only removals go on after a failure.
LEMMA TriedMoves ==
    ASSUME AdTypes, ops # <<>>, At(ops) \in Tried
    PROVE  \/ /\ kind \in {"wireguard", "hysteria2"} /\ steps[1][1] = "remove"
              /\ At(ops) = "try rm applied" /\ At(Tail(ops)) = "end"
           \/ kind = "l2tp" /\ steps[1][1] = "remove_configs"
<1> DEFINE s == Head(steps)
<1>1. /\ s \in StepRows /\ kind \in Kinds /\ kind \in AllKinds /\ s = steps[1]
  BY Underway, FirstStep, AdaptersAssumption
<1>2. \/ s[1] \in KindSteps /\ s[1] # "add_user"
      \/ s[1] = "add_user" /\ kind = "xray"
  BY <1>1, RowsOfSteps
<1> HIDE DEF s
<1>3. CASE kind = "xray"
  <2>1. s[1] \in {"write_service", "write_service_hot", "restart_service", "remove_service",
                  "write_egress", "remove_egress", "add_user"}
    BY <1>2, <1>3 DEF KindSteps
  <2>2. At(ops) \in {"file", "restart", "record", "rm applied", "rm file", "egress and marker",
                     "rm egress and marker", "add user"}
    <3>1. CASE s[1] = "write_service"
      BY <1>3, <3>1, XrayMoves DEF s
    <3>2. CASE s[1] = "write_service_hot"
      BY <1>3, <3>2, XrayMoves DEF s
    <3>3. CASE s[1] = "restart_service"
      BY <1>3, <3>3, XrayMoves DEF s
    <3>4. CASE s[1] = "remove_service"
      BY <1>3, <3>4, XrayMoves DEF s
    <3>5. CASE s[1] \in Rules
      BY <1>3, <3>5, XrayMoves DEF s
    <3>6. CASE s[1] = "add_user"
      BY <1>3, <3>6, XrayMoves DEF s
    <3> QED
      BY <2>1, <3>1, <3>2, <3>3, <3>4, <3>5, <3>6 DEF Rules
  <2> QED
    BY <2>2 DEF Tried
<1>4. CASE kind = "singbox"
  <2>1. s[1] \in {"write_service", "restart_service", "remove_service", "write_egress",
                  "remove_egress"}
    BY <1>2, <1>4 DEF KindSteps
  <2>2. At(ops) \in {"file", "mark", "restart", "record", "rm applied", "rm file", "rm mark", "egress",
                     "egress marker", "rm egress", "rm egress marker"}
    <3>1. CASE s[1] = "write_service"
      BY <1>4, <3>1, SingboxMoves DEF s
    <3>2. CASE s[1] = "restart_service"
      BY <1>4, <3>2, SingboxMoves DEF s
    <3>3. CASE s[1] = "remove_service"
      BY <1>4, <3>3, SingboxMoves DEF s
    <3>4. CASE s[1] = "write_egress"
      BY <1>4, <3>4, SingboxMoves DEF s
    <3>5. CASE s[1] = "remove_egress"
      BY <1>4, <3>5, SingboxMoves DEF s
    <3> QED
      BY <2>1, <3>1, <3>2, <3>3, <3>4, <3>5
  <2> QED
    BY <2>2 DEF Tried
<1>5. CASE kind = "wireguard"
  <2>1. s[1] \in {"install", "restart", "reload", "remove"}
    BY <1>2, <1>5 DEF KindSteps
  <2>2. CASE s[1] \in {"install", "restart"}
    BY <1>5, <2>2, WireguardMoves DEF s, Tried
  <2>3. CASE s[1] = "reload"
    BY <1>5, <2>3, WireguardMoves DEF s, Tried
  <2>4. CASE s[1] = "remove"
    BY <1>1, <1>5, <2>4, WireguardMoves DEF s, Tried
  <2> QED
    BY <2>1, <2>2, <2>3, <2>4
<1>6. CASE kind = "hysteria2"
  <2>1. s[1] \in {"install", "restart", "remove"}
    BY <1>2, <1>6 DEF KindSteps
  <2>2. CASE s[1] \in {"install", "restart"}
    BY <1>6, <2>2, Hysteria2Moves DEF s, Tried
  <2>3. CASE s[1] = "remove"
    BY <1>1, <1>6, <2>3, Hysteria2Moves DEF s, Tried
  <2> QED
    BY <2>1, <2>2, <2>3
<1>7. CASE kind = "openvpn"
  <2>1. s[1] \in {"install", "update_config", "sync_users", "remove"}
    BY <1>2, <1>7 DEF KindSteps
  <2>2. CASE s[1] = "install"
    BY <1>7, <2>2, OpenvpnMoves DEF s, Tried
  <2>3. CASE s[1] \in {"update_config", "sync_users"}
    BY <1>7, <2>3, OpenvpnMoves DEF s, Tried
  <2>4. CASE s[1] = "remove"
    BY <1>7, <2>4, OpenvpnMoves DEF s, Tried
  <2> QED
    BY <2>1, <2>2, <2>3, <2>4
<1>8. CASE kind = "ocserv"
  <2>1. s[1] \in {"install", "update_config", "sync_users", "remove"}
    BY <1>2, <1>8 DEF KindSteps
  <2>2. CASE s[1] = "install"
    BY <1>8, <2>2, OcservMoves DEF s, Tried
  <2>3. CASE s[1] \in {"update_config", "sync_users"}
    BY <1>8, <2>3, OcservMoves DEF s, Tried
  <2>4. CASE s[1] = "remove"
    BY <1>8, <2>4, OcservMoves DEF s, Tried
  <2> QED
    BY <2>1, <2>2, <2>3, <2>4
<1>9. CASE kind = "l2tp"
  <2>1. s[1] \in {"install_configs", "update_configs", "remove_configs"}
    BY <1>2, <1>9 DEF KindSteps
  <2>2. CASE s[1] = "install_configs"
    BY <1>9, <2>2, L2tpMoves DEF s, Tried
  <2>3. CASE s[1] = "update_configs"
    BY <1>9, <2>3, L2tpMoves DEF s, Tried
  <2> QED
    BY <1>1, <1>9, <2>1, <2>2, <2>3
<1> QED
  BY <1>1, <1>3, <1>4, <1>5, <1>6, <1>7, <1>8, <1>9 DEF AllKinds

\* A best effort that failed has done nothing and is not missed.
LEMMA TriedStays ==
    ASSUME AdTypes, ops # <<>>, At(ops) \in Tried, Now(target, steps[1], ops, host)
    PROVE  Now(target, steps[1], Tail(ops), host)
<1>1. CASE /\ kind \in {"wireguard", "hysteria2"} /\ steps[1][1] = "remove"
           /\ At(ops) = "try rm applied" /\ At(Tail(ops)) = "end"
  <2>1. /\ kind \in Recording /\ kind \notin Logins /\ kind # "l2tp"
        /\ "remove" \notin Filing /\ "remove" \notin Rewriting /\ "remove" \notin Recorders
    BY <1>1 DEF Recording, Logins, Filing, Rewriting, Recorders
  <2>2. StopNow(steps[1], "try rm applied", host)
    BY <1>1, <2>1 DEF Now, RecordingNow
  <2>3. StopNow(steps[1], "end", host)
    BY <1>1, <2>2 DEF StopNow
  <2>4. WriteNow(target, steps[1], "end", host) /\ RemoveNow(steps[1], "end", host)
    BY <1>1, <2>1 DEF WriteNow, RemoveNow
  <2> QED
    BY <1>1, <2>1, <2>3, <2>4 DEF Now, RecordingNow
<1>2. CASE kind = "l2tp" /\ steps[1][1] = "remove_configs"
  BY <1>2 DEF Now, L2tpNow, Recording, Logins
<1> QED
  BY <1>1, <1>2, TriedMoves

\* A failure puts nothing into the record.
LEMMA BrokenIsClean ==
    ASSUME AdTypes, ops # <<>>, CleanRecord(host), NEW g, g = host \/ g \in Broken(Head(ops), host)
    PROVE  CleanRecord(g)
<1>1. g.applied \in {host.applied, NoRecord}
  BY BrokenEffects DEF AdTypes
<1> QED
  BY <1>1 DEF CleanRecord

\* What the failure of an operation leaves, unless it is excused.
LEMMA FailureIsKept ==
    ASSUME AdInv, ops # <<>>, ~excused, ~Unrecorded(Head(ops)), desired = target,
           NEW g, g = host \/ g \in Broken(Head(ops), host), NEW b
    PROVE  /\ kind \in Recording /\ steps[1][1] \in RecordedSteps
           /\ \A p : p = <<>> \/ p[1][1] \in Rules => Kept(desired, target, p, b, g, TRUE)
           /\ (steps[1][1] = "remove" /\ b # "stop" => g.run = Down) =>
                 Kept(desired, target, steps, b, g, TRUE)
<1>1. /\ AdTypes /\ ~Idle /\ Head(steps) = steps[1]
      /\ Now(target, Head(steps), ops, host)
      /\ Kept(desired, target, steps, At(ops), host, torn)
  BY Underway, FirstStep DEF AdInv
<1>2. Recorded(Head(ops))
  BY <1>1, NotUnrecorded
<1>3. /\ kind \in Recording /\ kind \notin Logins /\ kind # "l2tp"
  BY <1>2 DEF Recorded, Recording, Logins
<1>4. RecordingKept(desired, target, steps, At(ops), host, torn)
  BY <1>1, <1>3 DEF Kept
<1>5. /\ Cut(g) /\ g.applied # Rendered(target)
      /\ steps[1][1] = "write_service_hot" => Adding(target, steps, g)
  BY <1>1, <1>2, <1>4, BrokenIsCut
<1>6. steps[1][1] \in RecordedSteps
  BY <1>1, <1>2, RecordedMoves DEF Recorded
<1>7. ASSUME NEW p, p = <<>> \/ p[1][1] \in Rules
      PROVE  Kept(desired, target, p, b, g, TRUE)
  <2>1. "remove" \notin Rules
    BY DEF Rules
  <2>2. RecordingKept(desired, target, p, b, g, TRUE)
    BY <1>5, <1>7, <2>1, CutIsKept
  <2> QED
    BY <1>3, <2>2 DEF Kept
<1>8. ASSUME steps[1][1] = "remove" /\ b # "stop" => g.run = Down
      PROVE  Kept(desired, target, steps, b, g, TRUE)
  <2>1. RecordingKept(desired, target, steps, b, g, TRUE)
    BY <1>5, <1>6, <1>8, CutIsKept
  <2> QED
    BY <1>3, <2>1 DEF Kept
<1> QED
  BY <1>3, <1>6, <1>7, <1>8

\* A failed attempt may be begun again.
LEMMA BegunAgain ==
    ASSUME AdTypes, ops # <<>>, Now(target, steps[1], ops, host),
           NEW g, g \in Broken(Head(ops), host)
    PROVE  Begun(target, steps[1], g)
<1> DEFINE s == steps[1]
<1>1. /\ s \in StepRows /\ kind \in Kinds /\ s = Head(steps) /\ At(ops) = Head(ops)
      /\ HostOk(host) /\ target \in Wants
  BY Underway, FirstStep DEF AdTypes, At
<1>2. /\ g.applied \in {host.applied, NoRecord} /\ g.shape = host.shape /\ g.edited = host.edited
      /\ g.mark = host.mark
      /\ At(ops) # "passwd" => SameFiles(g, host)
  BY <1>1, BrokenEffects DEF SameFiles
<1>3. ASSUME kind = "xray", s[1] = "write_service"
      PROVE  ~additive(target, g) \/ SameFile(target, g)
  <2>1. SameFiles(g, host)
    BY <1>1, <1>2, <1>3, XrayMoves
  <2>2. ~additive(target, host) \/ SameFile(target, host)
    BY <1>3 DEF Now, Recording, RecordingNow, WriteNow
  <2>3. CASE g.applied = NoRecord
    BY <2>3 DEF additive
  <2>4. CASE g.applied = host.applied
    BY <2>1, <2>2, <2>4, Copies
  <2> QED
    BY <1>2, <2>3, <2>4
<1>4. ASSUME s[1] = "restart_service"
      PROVE  SameFile(target, g) /\ (kind = "singbox" => g.mark)
  <2>1. kind \in {"xray", "singbox"}
    <3>1. s[1] \in KindSteps /\ kind \in AllKinds
      BY <1>1, <1>4, RowsOfSteps, AdaptersAssumption
    <3> QED
      BY <1>4, <3>1 DEF KindSteps, AllKinds
  <2>2. At(ops) \in {"restart", "record"}
    BY <1>1, <1>4, <2>1, XrayMoves, SingboxMoves
  <2>3. SameFiles(g, host)
    BY <1>2, <2>2
  <2>4. SameFile(target, host) /\ (kind = "singbox" => host.mark)
    BY <1>4, <2>1 DEF Now, Recording, RecordingNow, WriteNow
  <2> QED
    BY <1>2, <2>3, <2>4, Copies
<1> QED
  BY <1>3, <1>4 DEF Begun

\* An operation fails, and the adapter knows about it or is excused.
LEMMA FailureKeeps ==
    ASSUME AdInv, OperationFails, AdTypes'
    PROVE  AdInv'
<1>1. /\ ops # <<>> /\ host' \in Broken(Head(ops), host) /\ torn' = TRUE
      /\ excused' = (excused \/ Unrecorded(Head(ops)) \/ desired # target)
      /\ kind' = kind /\ desired' = desired /\ target' = target
  BY DEF OperationFails
<1>2. /\ AdTypes /\ Planned(target, steps) /\ kind \in Kinds /\ target \in Wants
      /\ ~Idle /\ steps # <<>> /\ steps \in Seq(StepRows) /\ Head(steps) = steps[1]
      /\ Head(steps) \in StepRows /\ At(ops) = Head(ops)
      /\ Now(target, steps[1], ops, host)
  BY <1>1, Underway, FirstStep DEF AdInv, AdTypes, At
<1>3. CleanRecord(host')
  BY <1>1, BrokenIsClean DEF AdInv
<1>4. ASSUME ~excused', NEW b
      PROVE  /\ kind \in Recording /\ steps[1][1] \in RecordedSteps
             /\ \A p : p = <<>> \/ p[1][1] \in Rules => Kept(desired, target, p, b, host', torn')
             /\ (steps[1][1] = "remove" /\ b # "stop" => host'.run = Down) =>
                   Kept(desired, target, steps, b, host', torn')
  BY <1>1, <1>4, FailureIsKept
<1>5. CASE At(ops) \in Tried /\ ops' = Tail(ops) /\ steps' = steps
  <2>0. host' = host
    BY <1>1, <1>2, <1>5 DEF Broken, Tried
  <2>1. Now(target, steps[1], Tail(ops), host')
    BY <1>1, <1>2, <1>5, <2>0, TriedStays
  <2>3. ASSUME ~excused'
        PROVE  Kept(desired, target, steps, At(Tail(ops)), host', torn')
    <3>1. ASSUME steps[1][1] = "remove" PROVE host'.run = Down
      <4>1. /\ kind \in Recording /\ steps # <<>> /\ ~excused
            /\ Kept(desired, target, steps, At(ops), host, torn)
        BY <1>1, <1>2, <1>4, <2>3, FirstStep DEF AdInv
      <4>2. At(ops) # "stop"
        BY <1>5 DEF Tried
      <4> QED
        BY <2>0, <3>1, <4>1, <4>2 DEF Kept, RecordingKept
    <3> QED
      BY <1>4, <2>3, <3>1
  <2>2. ConvergedIsServed'
    BY <1>2, <1>5 DEF ConvergedIsServed, Idle
  <2> QED
    BY <1>1, <1>2, <1>3, <1>5, <2>1, <2>2, <2>3, InvAfter
<1>6. CASE ops' \in Apply(Head(steps), target) /\ steps' = steps
  <2>1. Begun(target, steps[1], host')
    BY <1>1, <1>2, BegunAgain
  <2>2. Now(target, steps[1], ops', host')
    BY <1>2, <1>6, <2>1, NowBegins
  <2>3. ConvergedIsServed'
    BY <1>2, <1>6 DEF ConvergedIsServed, Idle
  <2>4. ASSUME ~excused'
        PROVE  Kept(desired, target, steps, At(ops'), host', torn')
    <3>1. steps[1][1] = "remove" => At(ops') = "stop"
      BY <1>2, <1>6, FirstOperations DEF AdTypes
    <3> QED
      BY <1>4, <2>4, <3>1
  <2> QED
    BY <1>1, <1>2, <1>3, <1>6, <2>2, <2>3, <2>4, InvAfter
<1>7. CASE NextStep(TRUE)
  <2>1. ASSUME NEW b, ~excused', Len(steps) = 1
        PROVE  Kept(desired, target, <<>>, b, host', torn')
    BY <1>4, <2>1
  <2>2. ASSUME NEW b, ~excused', Len(steps) > 1, b # "end"
        PROVE  Kept(desired, target, Tail(steps), b, host', torn')
    <3>1. Tail(steps)[1][1] \in Next2(steps[1][1])
      BY <1>2, <2>2, PlannedTail
    <3>2. steps[1][1] \notin {"add_user", "update_config"}
      BY <1>4, <2>2 DEF RecordedSteps
    <3>3. Tail(steps)[1][1] \in Rules
      BY <3>1, <3>2, StepsAfter
    <3> QED
      BY <1>4, <2>2, <3>3
  <2> DEFINE yes == TRUE
  <2>3. yes \in BOOLEAN /\ NextStep(yes)
    BY <1>7
  <2> HIDE DEF yes
  <2> QED
    BY <1>1, <1>2, <1>3, <2>1, <2>2, <2>3, NextKeeps
<1>8. \/ At(ops) \in Tried /\ ops' = Tail(ops) /\ steps' = steps
      \/ ops' \in Apply(Head(steps), target) /\ steps' = steps
      \/ NextStep(TRUE)
  BY <1>2 DEF OperationFails, Tried
<1> QED
  BY <1>5, <1>6, <1>7, <1>8

\* A stop is skipped: the file is replaced under a running daemon, which then
\* cannot be started, or the removal is excused.
LEMMA SkipKeeps ==
    ASSUME AdInv, StopSkipped, AdTypes'
    PROVE  AdInv'
<1>1. /\ ops # <<>> /\ At(ops) = "stop" /\ kind \in {"wireguard", "hysteria2"} /\ ops' = Tail(ops)
      /\ kind' = kind /\ desired' = desired /\ target' = target /\ host' = host /\ steps' = steps
      /\ torn' = torn /\ excused' = (excused \/ Head(steps)[1] = "remove")
  BY DEF StopSkipped, At
<1>2. /\ AdTypes /\ CleanRecord(host) /\ Planned(target, steps) /\ ~Idle /\ steps # <<>>
      /\ Head(steps) = steps[1] /\ kind \in Kinds /\ steps[1] \in StepRows
      /\ ~excused => Kept(desired, target, steps, At(ops), host, torn)
  BY <1>1, Underway, FirstStep DEF AdInv, AdTypes
<1>3. steps[1][1] \in {"install", "restart", "reload", "remove"}
  BY <1>1, <1>2, RowsOfSteps DEF KindSteps
<1>4. At(Tail(ops)) \in {"file", "rm file"} /\ (At(Tail(ops)) = "rm file" => steps[1][1] = "remove")
  <2>1. CASE steps[1][1] \in {"install", "restart"}
    BY <1>1, <1>2, <2>1, WireguardMoves, Hysteria2Moves
  <2>2. CASE steps[1][1] = "reload"
    <3>1. kind = "wireguard"
      BY <1>1, <1>2, <2>2, RowsOfSteps DEF KindSteps
    <3> QED
      BY <1>1, <1>2, <2>2, <3>1, WireguardMoves
  <2>3. CASE steps[1][1] = "remove"
    BY <1>1, <1>2, <2>3, WireguardMoves, Hysteria2Moves
  <2> QED
    BY <1>3, <2>1, <2>2, <2>3
<1>5. Now(target, steps[1], Tail(ops), host)
  BY <1>1, <1>3, <1>4 DEF Now, RecordingNow, WriteNow, StopNow, RemoveNow, Recording, Logins, Filing,
                          Rewriting, Recorders
<1>6. ASSUME ~excused' PROVE Kept(desired, target, steps, At(Tail(ops)), host, torn)
  <2>1. steps[1][1] # "remove" /\ kind \in Recording /\ kind \notin Logins /\ kind # "l2tp"
    BY <1>1, <1>2, <1>6 DEF Recording, Logins
  <2>2. RecordingKept(desired, target, steps, At(ops), host, torn)
    BY <1>1, <1>2, <1>6, <2>1 DEF Kept
  <2>3. RecordingKept(desired, target, steps, At(Tail(ops)), host, torn)
    BY <2>1, <2>2 DEF RecordingKept
  <2> QED
    BY <2>1, <2>3 DEF Kept
<1>7. ConvergedIsServed'
  BY <1>1, <1>2 DEF ConvergedIsServed, Idle
<1> QED
  BY <1>1, <1>2, <1>5, <1>6, <1>7, InvAfter

\* The agent dies between two operations, or in the middle of one.
LEMMA DeathKeeps ==
    ASSUME AdInv, AgentDies, AdTypes'
    PROVE  AdInv'
<1>1. /\ ops # <<>> /\ torn' = TRUE /\ steps' = <<>> /\ ops' = <<>> /\ outcome' = "none"
      /\ excused' = (excused \/ Unrecorded(Head(ops)) \/ desired # target)
      /\ kind' = kind /\ desired' = desired /\ target' = target
  BY DEF AgentDies
<1>2. \/ host' = host \/ host' \in Broken(Head(ops), host)
      \/ CanBeDone(Head(ops), host) /\ host' = Done(Head(ops), host)
  BY DEF AgentDies
<1>3. /\ AdTypes /\ CleanRecord(host) /\ Planned(target, steps) /\ ~Idle /\ Head(steps) = steps[1]
      /\ Now(target, Head(steps), ops, host)
      /\ ~excused => Kept(desired, target, steps, At(ops), host, torn)
  BY <1>1, Underway, FirstStep DEF AdInv
<1>4. CleanRecord(host')
  BY <1>1, <1>2, <1>3, BrokenIsClean, RecordStays
<1>5. ASSUME ~excused' PROVE Kept(desired, target, <<>>, At(ops'), host', torn')
  <2>1. CASE host' = host \/ host' \in Broken(Head(ops), host)
    BY <1>1, <1>5, <2>1, FailureIsKept
  <2>2. CASE CanBeDone(Head(ops), host) /\ host' = Done(Head(ops), host)
    <3>1. Recorded(Head(ops))
      BY <1>1, <1>3, <1>5, NotUnrecorded
    <3>2. Cut(host')
      BY <1>1, <1>3, <1>5, <2>2, <3>1, DoneIsCut
    <3>3. RecordingKept(desired, target, <<>>, At(ops'), host', TRUE)
      BY <1>1, <1>5, <3>2, CutIsKept
    <3>4. /\ kind \in Recording /\ kind \notin Logins /\ kind # "l2tp"
      BY <3>1 DEF Recorded, Recording, Logins
    <3> QED
      BY <1>1, <3>3, <3>4 DEF Kept
  <2> QED
    BY <1>2, <2>1, <2>2
<1>6. Planned(target, <<>>)
  BY DEF Planned
<1>7. ConvergedIsServed'
  BY <1>1 DEF ConvergedIsServed
<1> QED
  BY <1>1, <1>4, <1>5, <1>6, <1>7, InvAfter

\* The panel publishes; the pass under way keeps its document.
LEMMA PublishKeeps ==
    ASSUME AdInv, Publish, AdTypes'
    PROVE  AdInv'
<1>1. /\ kind' = kind /\ target' = target /\ host' = host /\ steps' = steps /\ ops' = ops
      /\ outcome' = outcome /\ torn' = torn /\ excused' = (excused \/ torn)
  BY DEF Publish
<1>2. /\ CleanRecord(host) /\ Planned(target, steps)
      /\ ~Idle => Now(target, steps[1], ops, host)
      /\ ~excused => Kept(desired, target, steps, At(ops), host, torn)
      /\ ConvergedIsServed
  BY DEF AdInv
<1>3. ASSUME ~excused' PROVE Kept(desired', target, steps, At(ops), host, torn)
  <2>1. Kept(desired, target, steps, At(ops), host, torn) /\ ~torn
    BY <1>1, <1>2, <1>3
  <2> QED
    BY <2>1 DEF Kept, RecordingKept
<1>4. ConvergedIsServed'
  <2>1. ASSUME outcome' = "converged", steps' = <<>>, ~excused', ~Stuck(target', host')
        PROVE  Matches(Served(host'), Asked(target'))
    BY <1>1, <1>2, <2>1, BlockedIsStuck DEF ConvergedIsServed, Idle
  <2> QED
    BY <1>1, <2>1, ServedAfter
<1>5. steps # <<>> => Now(target, steps[1], ops, host)
  BY <1>2 DEF Idle
<1> QED
  BY <1>1, <1>2, <1>3, <1>4, <1>5, InvAfter

\* The host after an edit by hand.
LEMMA EditedHost ==
    ASSUME HostOk(host), target \in Wants, HandEdit, NEW g, g = host'
    PROVE  /\ g.users = host.users /\ g.run = host.run /\ g.applied = host.applied
           /\ g.mark = host.mark /\ g.egress = host.egress /\ g.egmark = host.egmark
           /\ \/ /\ host.shape \notin {NoFile, Foreign} /\ g.shape = host.shape
                 /\ ~host.edited /\ g.edited
              \/ /\ host.shape = NoFile /\ g.shape = Foreign /\ ~host.edited /\ ~g.edited
<1> DEFINE yes == TRUE
           put == Foreign
<1>1. host \in HostRows /\ (host.edited => host.shape \notin {NoFile, Foreign})
  BY DEF HostOk
<1>2. \/ host.shape \notin {NoFile, Foreign} /\ ~host.edited /\ g = [host EXCEPT !.edited = yes]
      \/ host.shape = NoFile /\ g = [host EXCEPT !.shape = put]
  BY DEF HandEdit
<1>3. yes /\ put = Foreign
  OBVIOUS
<1> HIDE DEF yes, put
<1>4. CASE host.shape \notin {NoFile, Foreign} /\ ~host.edited /\ g = [host EXCEPT !.edited = yes]
  BY <1>1, <1>3, <1>4 DEF HostRows
<1>5. CASE host.shape = NoFile /\ g = [host EXCEPT !.shape = put]
  BY <1>1, <1>3, <1>5 DEF HostRows
<1> QED
  BY <1>2, <1>4, <1>5

\* An edit by hand falsifies no record.
LEMMA EditKeepsRecord ==
    ASSUME HostOk(host), kind \in Kinds, target \in Wants, HandEdit, NEW g, g = host', NEW d, NEW b,
           RecordingKept(d, target, <<>>, b, host, FALSE)
    PROVE  RecordingKept(d, target, <<>>, b, g, FALSE)
<1>1. /\ g.users = host.users /\ g.run = host.run /\ g.applied = host.applied
      /\ g.mark = host.mark
      /\ \/ /\ host.shape \notin {NoFile, Foreign} /\ g.shape = host.shape
            /\ ~host.edited /\ g.edited
         \/ /\ host.shape = NoFile /\ g.shape = Foreign /\ ~host.edited /\ ~g.edited
  BY EditedHost
<1>2. /\ NothingRuns(host) /\ HotReady(target, host) /\ RecordTrue(target, FALSE, host)
      /\ Marked(FALSE, host)
  BY DEF RecordingKept
<1>3. Rendered(target) # NoRecord /\ target.shape \in Nat \ {0}
      /\ (host.applied = NoRecord \/ host.applied.shape # NoFile)
  BY Renderings DEF HostOk
<1>4. CASE host.shape \notin {NoFile, Foreign} /\ g.shape = host.shape /\ g.edited
  <2>1. Content(g) = Content(host)
    BY <1>1, <1>4 DEF Content
  <2>2. NothingRuns(g)
    BY <1>4 DEF NothingRuns, Gone
  <2>3. RecordTrue(target, FALSE, g)
    BY <1>1, <1>2, <2>1 DEF RecordTrue, Runs
  <2>4. Marked(FALSE, g)
    BY <1>1, <1>2, <1>4 DEF Marked
  <2>5. ASSUME kind = "xray", additive(target, g)
        PROVE  /\ Content(g) = g.applied /\ Among(target, g)
               /\ Subjects(g.applied.users) \subseteq Subjects(g.run.users)
    <3>1. /\ g.applied # NoRecord /\ g.shape = target.shape
          /\ Subjects(g.applied.users) \subseteq Subjects(target.users)
      BY <2>5 DEF additive
    <3>2. Content(g) = g.applied /\ Runs(g, g.applied)
      BY <2>3, <3>1 DEF RecordTrue
    <3>3. g.applied.shape = g.shape
      BY <3>2 DEF Content
    <3> QED
      BY <2>5, <3>1, <3>2, <3>3 DEF Runs, Among
  <2>6. HotReady(target, g)
    BY <2>5 DEF HotReady
  <2> QED
    BY <2>2, <2>3, <2>4, <2>6 DEF RecordingKept
<1>5. CASE host.shape = NoFile /\ g.shape = Foreign
  <2>1. NothingRuns(g)
    BY <1>1, <1>2, <1>5 DEF NothingRuns, Gone, NoFile, Foreign
  <2>2. host.applied = NoRecord
    <3>1. ASSUME host.applied # NoRecord PROVE FALSE
      <4>1. Content(host) = host.applied
        BY <1>2, <3>1 DEF RecordTrue
      <4>2. host.applied.shape = NoFile
        BY <1>5, <4>1 DEF Content
      <4> QED
        BY <1>3, <3>1, <4>2
    <3> QED
      BY <3>1
  <2>3. RecordTrue(target, FALSE, g)
    BY <1>1, <1>3, <2>2 DEF RecordTrue
  <2>4. HotReady(target, g)
    BY <1>1, <2>2 DEF HotReady, additive
  <2>5. Marked(FALSE, g)
    BY <1>5 DEF Marked
  <2> QED
    BY <2>1, <2>3, <2>4, <2>5 DEF RecordingKept
<1> QED
  BY <1>1, <1>4, <1>5

\* Somebody edits the file between two passes.
LEMMA EditKeeps ==
    ASSUME AdInv, HandEdit, AdTypes'
    PROVE  AdInv'
<1>1. /\ kind' = kind /\ desired' = desired /\ target' = target /\ steps' = steps /\ ops' = ops
      /\ outcome' = outcome /\ torn' = torn /\ excused' = (excused \/ torn) /\ steps = <<>>
  BY DEF HandEdit, Idle
<1>2. /\ AdTypes /\ CleanRecord(host) /\ Planned(target, steps)
      /\ ~excused => Kept(desired, target, steps, At(ops), host, torn)
      /\ ConvergedIsServed
      /\ HostOk(host) /\ target \in Wants /\ kind \in Kinds /\ torn \in BOOLEAN
  BY DEF AdInv, AdTypes
<1>3. /\ host'.users = host.users /\ host'.run = host.run /\ host'.applied = host.applied
      /\ host'.mark = host.mark /\ host'.egress = host.egress /\ host'.egmark = host.egmark
      /\ \/ /\ host.shape \notin {NoFile, Foreign} /\ host'.shape = host.shape
            /\ ~host.edited /\ host'.edited
         \/ /\ host.shape = NoFile /\ host'.shape = Foreign /\ ~host.edited /\ ~host'.edited
  BY <1>2, EditedHost
<1>4. CleanRecord(host')
  BY <1>2, <1>3 DEF CleanRecord
<1>5. ASSUME ~excused' PROVE Kept(desired, target, <<>>, At(ops), host', torn)
  <2>1. Kept(desired, target, <<>>, At(ops), host, FALSE) /\ torn = FALSE
    BY <1>1, <1>2, <1>5
  <2>2. kind \in Recording => RecordingKept(desired, target, <<>>, At(ops), host', FALSE)
    BY <1>2, <2>1, EditKeepsRecord DEF Kept
  <2>3. ~(host'.shape \notin {NoFile, Foreign} /\ ~host'.edited)
    BY <1>3
  <2>4. kind \in Logins => LoginKept(<<>>, host', FALSE)
    <3>1. ASSUME kind \in Logins PROVE ~Managed(host') /\ NothingRuns(host')
      <4>1. ~Managed(host')
        BY <2>3, <3>1 DEF Managed, OpenvpnManaged, OcservManaged
      <4>2. NothingRuns(host')
        BY <1>3, <3>1 DEF NothingRuns, Gone, Logins, NoFile, Foreign
      <4> QED
        BY <4>1, <4>2
    <3> QED
      BY <3>1 DEF LoginKept
  <2>5. kind = "l2tp" => L2tpKept(<<>>, At(ops), host')
    <3>1. ASSUME kind = "l2tp" PROVE NothingRuns(host')
      BY <1>3, <3>1 DEF NothingRuns, Gone, NoFile, Foreign
    <3> QED
      BY <3>1 DEF L2tpKept
  <2> QED
    BY <2>1, <2>2, <2>4, <2>5 DEF Kept
<1>6. ConvergedIsServed'
  <2>1. ASSUME outcome' = "converged", steps' = <<>>, ~excused', ~Stuck(target', host')
        PROVE  Matches(Served(host'), Asked(target'))
    <3>1. ~Stuck(target, host')
      BY <1>1, <2>1
    <3>2. ~Stuck(target, host)
      BY <1>3, <3>1 DEF Stuck, NoFile, Foreign
    <3>3. Matches(Served(host), Asked(target))
      BY <1>1, <1>2, <2>1, <3>2, BlockedIsStuck DEF ConvergedIsServed, Idle
    <3>4. Served(host') = Served(host)
      BY <1>3 DEF Served
    <3> QED
      BY <1>1, <3>3, <3>4
  <2> QED
    BY <1>1, <2>1, ServedAfter
<1> QED
  BY <1>1, <1>2, <1>4, <1>5, <1>6, InvAfter

\* A fresh host runs nothing and records nothing.
LEMMA AdInvInit ==
    ASSUME AdInit
    PROVE  AdInv
<1>1. /\ AdTypes /\ target \in Wants /\ kind \in Kinds
      /\ steps = <<>> /\ ops = <<>> /\ outcome = "none" /\ torn = FALSE /\ Idle
  BY AdTypesInit DEF AdTypes, AdInit, Idle
<1>2. /\ host.shape = NoFile /\ host.edited = FALSE /\ host.run = Down /\ host.applied = NoRecord
  BY DEF AdInit, FreshHost
<1>3. Rendered(target) # NoRecord
  BY <1>1, Renderings
<1>4. NothingRuns(host)
  BY <1>2 DEF NothingRuns, Down
<1>5. RecordingKept(desired, target, <<>>, At(ops), host, FALSE)
  <2>1. HotReady(target, host)
    BY <1>2 DEF HotReady, additive
  <2>2. RecordTrue(target, FALSE, host) /\ Marked(FALSE, host)
    BY <1>2, <1>3 DEF RecordTrue, Marked
  <2> QED
    BY <1>4, <2>1, <2>2 DEF RecordingKept
<1>6. LoginKept(<<>>, host, FALSE)
  <2>1. ~Managed(host)
    BY <1>2 DEF Managed, OpenvpnManaged, OcservManaged
  <2> QED
    BY <1>4, <2>1 DEF LoginKept
<1>7. L2tpKept(<<>>, At(ops), host)
  BY <1>4 DEF L2tpKept
<1>8. Kept(desired, target, steps, At(ops), host, torn)
  BY <1>1, <1>5, <1>6, <1>7 DEF Kept
<1>9. Planned(target, steps) /\ CleanRecord(host)
  BY <1>1, <1>2 DEF Planned, CleanRecord
<1> QED
  BY <1>1, <1>8, <1>9 DEF AdInv, ConvergedIsServed

\* Every step of the adapter keeps the invariant.
LEMMA AdInvKept ==
    ASSUME AdInv, [AdNext]_adVars
    PROVE  AdInv'
<1>1. AdTypes'
  BY AdTypesKept DEF AdInv
<1>2. CASE Publish
  BY <1>1, <1>2, PublishKeeps
<1>3. CASE Converge
  BY <1>1, <1>3, ConvergeKeeps
<1>4. CASE Operate
  BY <1>1, <1>4, OperateKeeps
<1>5. CASE FinishStep
  BY <1>1, <1>5, FinishKeeps
<1>6. CASE OperationFails
  BY <1>1, <1>6, FailureKeeps
<1>7. CASE AgentDies
  BY <1>1, <1>7, DeathKeeps
<1>8. CASE HandEdit
  BY <1>1, <1>8, EditKeeps
<1>10. CASE StopSkipped
  BY <1>1, <1>10, SkipKeeps
<1>9. CASE UNCHANGED adVars
  <2>1. /\ kind' = kind /\ desired' = desired /\ target' = target /\ steps' = steps /\ ops' = ops
        /\ outcome' = outcome /\ torn' = torn /\ excused' = excused /\ host' = host
    BY <1>9 DEF adVars
  <2>2. /\ CleanRecord(host) /\ Planned(target, steps)
        /\ steps # <<>> => Now(target, steps[1], ops, host)
        /\ ~excused => Kept(desired, target, steps, At(ops), host, torn)
        /\ ConvergedIsServed
    BY DEF AdInv, Idle
  <2>3. ConvergedIsServed'
    <3>1. ASSUME outcome' = "converged", steps' = <<>>, ~excused', ~Stuck(target', host')
          PROVE  Matches(Served(host'), Asked(target'))
      BY <2>1, <2>2, <3>1, BlockedIsStuck DEF ConvergedIsServed, Idle
    <3> QED
      BY <2>1, <3>1, ServedAfter
  <2> QED
    BY <1>1, <2>1, <2>2, <2>3, InvAfter
<1> QED
  BY <1>2, <1>3, <1>4, <1>5, <1>6, <1>7, <1>8, <1>9, <1>10 DEF AdNext, AdPass

\* The invariant of the adapters holds in every state.
LEMMA AdInvAlways == AdInit /\ [][AdNext]_adVars => []AdInv
BY AdInvInit, AdInvKept, PTL

\* A pass that reports convergence leaves the daemon serving what the document asks
\* for: the promise behind applied_revision (reconcile.go:49-94), for every set of
\* documents, however many operations fail and whenever the agent dies, but where
\* the adapter keeps no record of a failure, removed a service without stopping it
\* (a failed status query), or has nothing it may do.
THEOREM ConvergedMeansServed == AdSpec => []ConvergedIsServed
<1>1. AdInv => ConvergedIsServed
  BY DEF AdInv
<1> QED
  BY AdInvAlways, <1>1, PTL DEF AdSpec
=============================================================================
