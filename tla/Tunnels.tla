------------------------------ MODULE Tunnels ------------------------------
(***************************************************************************)
(* The public hostnames of one remotely managed Cloudflare Tunnel: the     *)
(* requests that add, change and delete them, each replacing the Tunnel's  *)
(* whole configuration under the Tunnel's lock, and the CNAME records that *)
(* go with them, which other people change too.                            *)
(***************************************************************************)
EXTENDS Ingress, FiniteSets, Integers, SequencesExt

CONSTANTS
  Editors,    \* requests that change the Tunnel
  Hosts, Paths, Services,
  Configured, \* the service of routes made before, or "none" for an empty Tunnel
  MaxDNS      \* changes of records by other requests or outside Neo Box

TunnelConstants ==
  /\ NoHost \notin Hosts
  /\ NoPath \in Paths
  /\ IsFiniteSet(Paths)
  /\ "none" \notin Services
  /\ Configured # "none" => Hosts # {}
  /\ "nobody" \notin Editors
  /\ MaxDNS \in Nat

VARIABLES
  ingress, \* external: the ingress of the Tunnel's configuration
  tunnel,  \* external: whether the Tunnel is there
  dns,     \* external: the record each hostname has
  edit,    \* the requests: what is asked, what was read, what came back
  holder,  \* who holds the lock of the Tunnel
  changes  \* changes of records by others so far

external == <<ingress, tunnel, dns>>
vars == <<ingress, tunnel, dns, edit, holder, changes>>

Keys == Hosts \X Paths
Nobody == "nobody"
Asks == {"add", "change", "delete", "drop"}
Records == {"none", "tunnel", "other"}
Results == {"not_requested", "created", "exists", "deleted", "kept", "conflict", "failed"}

Asked(asks, key, path, service, record) ==
  [at |-> "opened", asks |-> asks, key |-> key, path |-> path, service |-> service,
   record |-> record, read |-> <<>>, back |-> <<>>, result |-> "not_requested"]
NoEdit == [Asked("drop", <<NoHost, NoPath>>, NoPath, "none", FALSE) EXCEPT !.at = "idle"]

Ingresses == Seq([host : Hosts \cup {NoHost}, path : Paths,
                  service : Services \cup {NotFound, Configured},
                  settings : {"none", "some"}])

Edits == [at : {"idle", "opened", "locked", "read", "put", "pointing", "creating",
                "unlinking", "deleting", "done", "refused"},
          asks : Asks, key : (Hosts \cup {NoHost}) \X Paths, path : Paths,
          service : Services \cup {"none"}, record : BOOLEAN,
          read : Ingresses, back : Ingresses, result : Results]

TypeOK ==
  /\ ingress \in Ingresses
  /\ tunnel \in {"live", "deleted"}
  /\ dns \in [Hosts -> Records]
  /\ edit \in [Editors -> Edits]
  /\ holder \in Editors \cup {Nobody}
  /\ changes \in 0..MaxDNS

\* Routes made elsewhere: one hostname, each of its paths.
FirstRoutes ==
  LET host == CHOOSE h \in Hosts : TRUE
      paths == SetToSeq(Paths)
  IN  [i \in DOMAIN paths |-> Rule(host, paths[i], Configured, "some")]

Init ==
  /\ \/ ingress = <<>>
     \/ /\ Configured # "none"
        /\ ingress = Append(FirstRoutes, DefaultCatchAll)
  /\ tunnel = "live"
  /\ dns \in [Hosts -> Records]
  /\ edit = [e \in Editors |-> NoEdit]
  /\ holder = Nobody
  /\ changes = 0

At(e, at) == edit[e].at = at
Goes(e, at) == edit' = [edit EXCEPT ![e].at = at]
Host(e) == edit[e].key[1]
Path(e) == edit[e].key[2]

-----------------------------------------------------------------------------
(* Changing the configuration *)

\* A request passes its checks; the Tunnel is there and managed remotely.
Open(e) ==
  /\ At(e, "idle")
  /\ tunnel = "live"
  /\ \E asks \in Asks, key \in Keys, path \in Paths, service \in Services,
        record \in BOOLEAN :
       /\ asks \in {"change", "drop"} => ~record
       /\ asks # "change" => path = NoPath
       /\ edit' = [edit EXCEPT ![e] = Asked(asks, key, path, service, record)]
  /\ UNCHANGED <<external, holder, changes>>

Lock(e) ==
  /\ At(e, "opened")
  /\ holder = Nobody
  /\ holder' = e
  /\ Goes(e, "locked")
  /\ UNCHANGED <<external, changes>>

\* The configuration is read under the lock, if the read succeeds.
ReadConfig(e) ==
  /\ At(e, "locked")
  /\ edit[e].asks # "drop"
  /\ edit' = [edit EXCEPT ![e].at = "read", ![e].read = ingress]
  /\ UNCHANGED <<external, holder, changes>>

\* What editConfig's change refuses.
Possible(e) ==
  LET cur == edit[e].read
  IN  CASE edit[e].asks = "add" -> ~Has(cur, Host(e), Path(e))
        [] edit[e].asks = "change" ->
             /\ Has(cur, Host(e), Path(e))
             /\ edit[e].path = Path(e) \/ ~Has(cur, Host(e), edit[e].path)
        [] edit[e].asks = "delete" -> Has(cur, Host(e), Path(e))

\* The configuration as read, with the one change made.
NextConfig(e) ==
  LET cur == edit[e].read
  IN  CASE edit[e].asks = "add" ->
             WithRoute(cur, Rule(Host(e), Path(e), edit[e].service, "none"))
        [] edit[e].asks = "change" ->
             WithRouteChanged(cur, Host(e), Path(e), edit[e].path, edit[e].service)
        [] edit[e].asks = "delete" -> WithoutRoute(cur, Host(e), Path(e))

\* Reading fails, the change is not possible, or Cloudflare refuses it: the
\* lock is released and the request ends.
Refuse(e) ==
  /\ edit[e].at \in {"locked", "read"}
  /\ Goes(e, "refused")
  /\ holder' = Nobody
  /\ UNCHANGED <<external, changes>>

\* The whole configuration is replaced. Cloudflare answers with it.
PutConfig(e) ==
  /\ At(e, "read")
  /\ tunnel = "live"
  /\ Possible(e)
  /\ ingress' = NextConfig(e)
  /\ edit' = [edit EXCEPT ![e].at = "put", ![e].back = NextConfig(e)]
  /\ UNCHANGED <<tunnel, dns, holder, changes>>

\* The configuration is replaced, but no answer says so.
PutUnconfirmed(e) ==
  /\ At(e, "read")
  /\ tunnel = "live"
  /\ Possible(e)
  /\ ingress' = NextConfig(e)
  /\ Goes(e, "refused")
  /\ holder' = Nobody
  /\ UNCHANGED <<tunnel, dns, changes>>

\* The lock is released, and the record is next if one was asked for. A
\* record is kept as long as another route uses the hostname.
Unlock(e) ==
  LET used == \E i \in DOMAIN edit[e].back :
                 ~IsCatchAll(edit[e].back[i]) /\ edit[e].back[i].host = Host(e)
  IN  /\ At(e, "put")
      /\ holder' = Nobody
      /\ edit' = [edit EXCEPT
           ![e].at = IF ~edit[e].record THEN "done"
                     ELSE IF edit[e].asks = "add" THEN "pointing"
                     ELSE IF used THEN "done" ELSE "unlinking",
           ![e].result = IF edit[e].record /\ edit[e].asks = "delete" /\ used
                         THEN "kept" ELSE @]
      /\ UNCHANGED <<external, changes>>

\* DeleteTunnel, under the lock; its records are left alone.
DropTunnel(e) ==
  /\ At(e, "locked")
  /\ edit[e].asks = "drop"
  /\ tunnel' = "deleted"
  /\ Goes(e, "done")
  /\ holder' = Nobody
  /\ UNCHANGED <<ingress, dns, changes>>

-----------------------------------------------------------------------------
(* The hostname's record *)

Ends(e, result) == edit' = [edit EXCEPT ![e].at = "done", ![e].result = result]

\* A record that is there is left as it is.
LookBeforeCreate(e) ==
  /\ At(e, "pointing")
  /\ CASE dns[Host(e)] = "tunnel" -> Ends(e, "exists")
       [] dns[Host(e)] = "other"  -> Ends(e, "conflict")
       [] dns[Host(e)] = "none"   -> Goes(e, "creating")
  /\ UNCHANGED <<external, holder, changes>>

\* Cloudflare refuses a CNAME where the name has a record by now.
CreateCNAME(e) ==
  /\ At(e, "creating")
  /\ dns[Host(e)] = "none"
  /\ dns' = [dns EXCEPT ![Host(e)] = "tunnel"]
  /\ Ends(e, "created")
  /\ UNCHANGED <<ingress, tunnel, holder, changes>>

\* Only a CNAME to this Tunnel is deleted.
LookBeforeDelete(e) ==
  /\ At(e, "unlinking")
  /\ IF dns[Host(e)] = "tunnel" THEN Goes(e, "deleting") ELSE Ends(e, "kept")
  /\ UNCHANGED <<external, holder, changes>>

\* The record is deleted by its id, whatever it says by now.
DeleteCNAME(e) ==
  /\ At(e, "deleting")
  /\ dns[Host(e)] # "none"
  /\ dns' = [dns EXCEPT ![Host(e)] = "none"]
  /\ Ends(e, "deleted")
  /\ UNCHANGED <<ingress, tunnel, holder, changes>>

\* Reading or changing the record fails, or it is gone: the route stays.
RecordFails(e) ==
  /\ edit[e].at \in {"pointing", "creating", "unlinking", "deleting"}
  /\ Ends(e, "failed")
  /\ UNCHANGED <<external, holder, changes>>

\* A person changes, creates or deletes a hostname's record.
ChangeRecord(h) ==
  /\ changes < MaxDNS
  /\ changes' = changes + 1
  /\ \E r \in Records \ {dns[h]} : dns' = [dns EXCEPT ![h] = r]
  /\ UNCHANGED <<ingress, tunnel, edit, holder>>

-----------------------------------------------------------------------------

Handle(e) ==
  \/ Lock(e) \/ ReadConfig(e) \/ Refuse(e) \/ PutConfig(e) \/ PutUnconfirmed(e)
  \/ Unlock(e) \/ DropTunnel(e)
  \/ LookBeforeCreate(e) \/ CreateCNAME(e)
  \/ LookBeforeDelete(e) \/ DeleteCNAME(e) \/ RecordFails(e)

Next ==
  \/ \E e \in Editors : Open(e) \/ Handle(e)
  \/ \E h \in Hosts : ChangeRecord(h)

Spec == Init /\ [][Next]_vars

-----------------------------------------------------------------------------
(* Properties *)

\* What each hostname and path routes to.
TableOf(s) ==
  [k \in Keys |-> IF Has(s, k[1], k[2])
                  THEN [service |-> s[Index(s, k[1], k[2])].service,
                        settings |-> s[Index(s, k[1], k[2])].settings]
                  ELSE [service |-> "none", settings |-> "none"]]

Table == INSTANCE RouteTable WITH
  Keys <- Keys, Services <- Services \cup {Configured}, table <- TableOf(ingress)

\* Every write of the configuration changes one route: what others changed,
\* the settings Neo Box does not edit, and every other route stay.
OneRouteAtATime == Table!Spec

\* A record that points elsewhere is neither deleted nor replaced, as long as
\* nobody changes a record between the look at it and the request.
ForeignRecordsKept ==
  [][changes' = 0 => \A h \in Hosts : dns[h] = "other" => dns'[h] = "other"]_dns

\* A public hostname changes alone: its route, and its own record.
HostnameAlone == OneRouteAtATime /\ ForeignRecordsKept
=============================================================================
