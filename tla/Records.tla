------------------------------ MODULE Records ------------------------------
(***************************************************************************)
(* The saved records and what the commands make of them, as operators: the *)
(* lists addressed by id, the references between them, the way a host is   *)
(* signed in to (resolve.rs, auth.ts), an export and its merge into what   *)
(* is there (backup.rs), and the hosts read out of an ssh config           *)
(* (sshconfig.rs) or another client's file (importers).                    *)
(* A secret is the key it is sealed under; an address stands for a host's  *)
(* name, port and user, which is what makes two hosts the same one.        *)
(***************************************************************************)
EXTENDS Naturals, Sequences, SequencesExt, FiniteSets

CONSTANTS
    None,
    MaxDepth,    \* how deep an Include may nest: 16 in the code
    MaxHops      \* jump hosts at most: 8 in the code

Stored == "stored"   \* what the window is shown for a secret

Mapped(list, F(_)) == [n \in DOMAIN list |-> F(list[n])]

(* The elements of a list that are in keep, in their order. *)
Selected(list, keep) ==
    FoldLeft(LAMBDA so, x : IF x \in keep THEN Append(so, x) ELSE so, <<>>, list)

----------------------------------------------------------------------------
(* Records by id.                                                          *)

Ids(list) == {r.id : r \in Range(list)}
Present(list, id) == id \in Ids(list)
find_by_id(list, id) == list[CHOOSE n \in DOMAIN list : /\ list[n].id = id
                                                       /\ \A m \in 1..(n - 1) : list[m].id # id]

upsert_by_id(list, item) ==
    IF Present(list, item.id)
    THEN Mapped(list, LAMBDA r : IF r.id = item.id THEN item ELSE r)
    ELSE Append(list, item)

Without(list, ids) == Selected(list, {r \in Range(list) : r.id \notin ids})

redacted(r) == [r EXCEPT !.pw = IF @ = None THEN None ELSE Stored]

NewServer(id, addr, key, pw) ==
    [id |-> id, addr |-> addr, identity |-> None, key |-> key, jump |-> None,
     pw |-> pw, prompts |-> FALSE]
NewIdentity(id, name, key) ==
    [id |-> id, name |-> name, key |-> key, pw |-> None, prompts |-> FALSE]
KeyEntry(id, name, path, held) == [id |-> id, name |-> name, path |-> path, held |-> held]
PortForwarding(id, label, via) == [id |-> id, label |-> label, via |-> via]

Empty == [servers |-> <<>>, identities |-> <<>>, keys |-> <<>>,
          rules |-> <<>>, marks |-> <<>>, history |-> {}]

(* What every document is: lists of records of their kinds.                *)
IsList(list) == list \in Seq(Range(list))
IsRecord(r, fields) == r = [f \in fields |-> r[f]]
IsServer(s) == IsRecord(s, {"id", "addr", "identity", "key", "jump", "pw", "prompts"})
IsIdentity(i) == IsRecord(i, {"id", "name", "key", "pw", "prompts"})
IsKey(k) == IsRecord(k, {"id", "name", "path", "held"})
IsRule(r) == IsRecord(r, {"id", "label", "via"})

IsDocument(d) ==
    /\ IsRecord(d, {"servers", "identities", "keys", "rules", "marks", "history"})
    /\ IsList(d.servers) /\ \A s \in Range(d.servers) : IsServer(s)
    /\ IsList(d.identities) /\ \A i \in Range(d.identities) : IsIdentity(i)
    /\ IsList(d.keys) /\ \A k \in Range(d.keys) : IsKey(k)
    /\ IsList(d.rules) /\ \A r \in Range(d.rules) : IsRule(r)

(* A record that signs in another way has no password beside it.           *)
OneWay(d) ==
    /\ \A s \in Range(d.servers) : s.key # None \/ s.prompts => s.pw = None
    /\ \A i \in Range(d.identities) : i.prompts => i.pw = None /\ i.key = None

(* Every secret there is is sealed under this.                             *)
SealedUnder(d, seal) ==
    /\ \A s \in Range(d.servers) : s.pw \in {None, seal}
    /\ \A i \in Range(d.identities) : i.pw \in {None, seal}
    /\ \A k \in Range(d.keys) : k.held \in {None, seal}

forget_references_to(d, ids) ==
    LET gone(x) == IF x \in ids THEN None ELSE x IN
    [d EXCEPT
       !.servers = Mapped(@, LAMBDA s : [s EXCEPT !.identity = gone(@), !.key = gone(@),
                                                  !.jump = gone(@)]),
       !.identities = Mapped(@, LAMBDA i : [i EXCEPT !.key = gone(@)]),
       !.rules = Mapped(@, LAMBDA r : [r EXCEPT !.via = gone(@)])]

(* The bookmarks that are on none of these hosts. *)
Off(marks, ids) == Selected(marks, {b \in Range(marks) : b.server \notin ids})

remove_servers(d, ids) ==
    [forget_references_to([d EXCEPT !.servers = Without(@, ids)], ids) EXCEPT
       !.marks = Off(@, ids),
       !.history = @ \ ids]

(* What the commands store of what a form sent: an empty box keeps the     *)
(* password that was there, a key or answers typed at connect leave none.  *)
OldPassword(list, id) == IF Present(list, id) THEN find_by_id(list, id).pw ELSE None

(* Mutant: a password lingers beside the key chosen instead of it.         *)
KeepsPassword(list, s, typed) ==
    [s EXCEPT !.pw = IF typed THEN "master" ELSE OldPassword(list, s.id)]

ServerToSave(list, s, typed) ==
    [s EXCEPT !.pw = IF s.key # None \/ s.prompts THEN None
                     ELSE IF typed THEN "master" ELSE OldPassword(list, s.id)]

IdentityToSave(list, i, typed) ==
    IF i.prompts THEN [i EXCEPT !.pw = None, !.key = None]
    ELSE [i EXCEPT !.pw = IF typed THEN "master"
                          ELSE IF i.key # None THEN None ELSE OldPassword(list, i.id)]

----------------------------------------------------------------------------
(* Signing in.                                                             *)

KeyMaterial(d, id) ==
    IF ~Present(d.keys, id) THEN None
    ELSE LET k == find_by_id(d.keys, id) IN
         IF k.held # None THEN <<"key", k.held, id>>
         ELSE IF k.path # None THEN <<"file", k.path>> ELSE None

Saved(pw, id) == IF pw = None THEN None ELSE <<"password", pw, id>>

(* resolveServerAuth picks the credential, resolve_auth says what it is.   *)
Credential(d, s) ==
    IF s.identity # None THEN
        IF ~Present(d.identities, s.identity) THEN None
        ELSE LET i == find_by_id(d.identities, s.identity) IN
             IF i.prompts THEN <<"prompts">>
             ELSE IF i.pw # None THEN Saved(i.pw, i.id)
             ELSE IF i.key # None THEN KeyMaterial(d, i.key) ELSE None
    ELSE IF s.prompts THEN <<"prompts">>
    ELSE IF s.key # None THEN KeyMaterial(d, s.key)
    ELSE Saved(s.pw, s.id)

(* The hosts a connect goes through, nearest to the target first; None     *)
(* when one is missing, is met twice, cannot be signed in to, or is one    *)
(* too many.                                                               *)
ChainOf(d, s) ==
    LET from[n \in 0..(MaxHops + 1)] ==
            IF n = 0 THEN <<s>>
            ELSE LET so == from[n - 1] IN
                 IF so = None \/ Last(so).jump = None THEN so
                 ELSE IF \/ ~Present(d.servers, Last(so).jump)
                         \/ Last(so).jump \in Ids(so)
                         \/ n > MaxHops
                         \/ Credential(d, find_by_id(d.servers, Last(so).jump)) = None
                      THEN None
                      ELSE Append(so, find_by_id(d.servers, Last(so).jump))
    IN from[MaxHops + 1]

(* Where and with what a host is signed in to, hop by hop.                 *)
SignsIn(d, s) ==
    LET hops == ChainOf(d, s) IN
    IF hops = None \/ Credential(d, s) = None THEN None
    ELSE Mapped(hops, LAMBDA h : <<h.addr, Credential(d, h)>>)

----------------------------------------------------------------------------
(* An export and its merge.                                                *)

rekey(held, from, to) == IF held = from THEN to ELSE None

rekey_all(p, from, to) ==
    [p EXCEPT
       !.servers = Mapped(@, LAMBDA s : [s EXCEPT !.pw = rekey(@, from, to)]),
       !.identities = Mapped(@, LAMBDA i : [i EXCEPT !.pw = rekey(@, from, to)]),
       !.keys = Mapped(@, LAMBDA k : [k EXCEPT !.held = rekey(@, from, to)])]

(* Bookmarks and history stay behind.                                      *)
build_export(d, secrets) ==
    rekey_all([d EXCEPT !.marks = <<>>, !.history = {}],
              IF secrets THEN "master" ELSE "no secret is", "export")

same_server(a, b) == a.id = b.id \/ a.addr = b.addr
same_identity(a, b) == a.id = b.id \/ a.name = b.name
same_key(a, b) ==
    \/ a.id = b.id
    \/ IF a.path # None /\ b.path # None THEN a.path = b.path ELSE a.name = b.name
same_forwarding(a, b) == a.id = b.id \/ a.label = b.label

Same(kind, a, b) ==
    CASE kind = "servers"    -> same_server(a, b)
      [] kind = "identities" -> same_identity(a, b)
      [] kind = "keys"       -> same_key(a, b)
      [] kind = "rules"      -> same_forwarding(a, b)

(* Adds what is not there; ids says where each incoming id ended up.       *)
Merging(kind, so, item) ==
    LET hits == {n \in DOMAIN so.list : Same(kind, item, so.list[n])} IN
    IF hits = {}
    THEN [list |-> Append(so.list, item), added |-> so.added \union {item.id},
          ids |-> so.ids \union {<<item.id, item.id>>}]
    ELSE LET first == CHOOSE n \in hits : \A m \in hits : n <= m IN
         [so EXCEPT !.ids = @ \union {<<item.id, so.list[first].id>>}]

merge_into(incoming, current, kind) ==
    FoldLeft(LAMBDA so, item : Merging(kind, so, item),
             [list |-> current, added |-> {}, ids |-> {}], incoming)

(* Mutant: the references of what came are taken as they are.              *)
ResolveAsIs(id, ids) == id

resolve(id, ids) ==
    IF \E p \in ids : p[1] = id THEN (CHOOSE p \in ids : p[1] = id)[2] ELSE None

(* Mutant: a key is looked for among the identities.                       *)
KeyAmongIdentities(x, s, i, k) ==
    [x EXCEPT !.identity = resolve(@, i.ids), !.key = resolve(@, i.ids),
              !.jump = resolve(@, s.ids)]

(* A record that came has its references rewritten; one that was there     *)
(* does not.                                                               *)
PointedServer(x, s, i, k) ==
    LET jump == resolve(x.jump, s.ids) IN
    [x EXCEPT !.identity = resolve(@, i.ids), !.key = resolve(@, k.ids),
              !.jump = IF jump = x.id THEN None ELSE jump]

PointAdded(list, s, i, k) ==
    Mapped(list, LAMBDA x : IF x.id \in s.added THEN PointedServer(x, s, i, k) ELSE x)

apply_merge(payload, d, opts) ==
    LET p == rekey_all(payload, "export", "master")
        Merged(kind) == merge_into(IF kind \in opts THEN p[kind] ELSE <<>>, d[kind], kind)
        i == Merged("identities")
        k == Merged("keys")
        s == Merged("servers")
        r == Merged("rules")
    IN [d EXCEPT !.identities = i.list, !.keys = k.list,
                 !.servers = PointAdded(s.list, s, i, k),
                 !.rules = Mapped(r.list, LAMBDA x : IF x.id \notin r.added THEN x
                                    ELSE [x EXCEPT !.via = resolve(@, s.ids)])]

(* What the preview counts as already there.                               *)
duplicates(incoming, current, kind) ==
    Cardinality({n \in DOMAIN incoming : \E e \in Range(current) : Same(kind, incoming[n], e)})

plan_merge(p, d) ==
    LET Found(kind) == duplicates(p[kind], d[kind], kind)
    IN Found("servers") + Found("keys") + Found("identities") + Found("rules")

----------------------------------------------------------------------------
(* Hosts out of an ssh config: a file is a sequence of directives, each a  *)
(* keyword and the words after it.                                         *)

(* Every Include replaced by what it names, as deep as it may go. A file   *)
(* that is not there adds nothing.                                         *)
Included(files, l, flat) ==
    FlattenSeq(Mapped(Selected(l.value, DOMAIN files), LAMBDA v : flat[v]))

expand_includes(files, main) ==
    LET flat[depth \in 0..MaxDepth] ==
          [f \in DOMAIN files |->
             FlattenSeq(Mapped(files[f], LAMBDA l :
                IF l.key # "include" THEN <<l>>
                ELSE IF depth = 0 THEN <<>> ELSE Included(files, l, flat[depth - 1])))]
    IN flat[MaxDepth][main]

NoHost(alias) == [alias |-> alias, hostname |-> alias, file |-> None, jump |-> <<>>]
Directive(h, l) ==
    CASE l.key = "hostname"                          -> [h EXCEPT !.hostname = l.value[1]]
      [] l.key = "identityfile" /\ h.file = None     -> [h EXCEPT !.file = l.value[1]]
      [] l.key = "proxyjump"                         -> [h EXCEPT !.jump = l.value]
      [] OTHER                                       -> h

(* Aliases sharing a Host line all get the directives after it; nothing    *)
(* after a Match belongs to a host for certain.                            *)
ParseLine(so, l) ==
    CASE l.key = "host" ->
           LET named == Selected(l.value, Range(l.value) \ {"*"}) IN
           [hosts |-> so.hosts \o Mapped(named, NoHost),
            current |-> (Len(so.hosts) + 1)..(Len(so.hosts) + Len(named))]
      [] l.key = "match" -> [so EXCEPT !.current = {}]
      [] OTHER ->
           [so EXCEPT !.hosts = [n \in DOMAIN so.hosts |->
               IF n \in so.current THEN Directive(so.hosts[n], l) ELSE so.hosts[n]]]

parse(lines) == FoldLeft(ParseLine, [hosts |-> <<>>, current |-> {}], lines).hosts

scan_content(files, main) == parse(expand_includes(files, main))

(* The links of one chain, the target through the last hop and so on       *)
(* inwards; none when a hop was not imported with it, or comes twice.      *)
chain_links(server, hops, by_alias) ==
    LET known == hops # <<>> /\ \A h \in Range(hops) : h \in DOMAIN by_alias
        ids == <<server>> \o Reverse(Mapped(hops, LAMBDA h : by_alias[h]))
    IN IF ~known \/ ~IsInjective(ids) THEN {}
       ELSE {<<ids[n], ids[n + 1]>> : n \in 1..Len(hops)}

(* What was picked of a scan, an alias said twice being its first entry.   *)
Picked(scan, aliases) ==
    Mapped(Selected(aliases, {h.alias : h \in Range(scan)}),
           LAMBDA a : Selected(scan, {h \in Range(scan) : h.alias = a})[1])

(* A new id: no two records are made under one name by one call.           *)
Fresh(name, at) == <<name, at>>

(* The first pass adds hosts, and the keys they name by path.              *)
SshHost(so, h, onDisk, at) ==
    LET here == Selected(so.d.keys, {k \in Range(so.d.keys) : h.file # None /\ k.path = h.file})
        key  == IF h.file \notin onDisk THEN None
                ELSE IF here # <<>> THEN here[1].id ELSE Fresh(h.file, at)
        new  == KeyEntry(key, h.file, h.file, None)
    IN IF \E s \in Range(so.d.servers) : s.addr = h.hostname THEN so
       ELSE [d |-> [so.d EXCEPT
                      !.keys = IF key = None \/ here # <<>> THEN @ ELSE Append(@, new),
                      !.servers = Append(@, NewServer(Fresh(h.alias, at), h.hostname, key, None))],
             by_alias |-> [a \in DOMAIN so.by_alias \union {h.alias} |->
                             IF a = h.alias THEN Fresh(a, at) ELSE so.by_alias[a]]]

(* The second links a chain among the hosts just added. What a hop already *)
(* goes through stands, and then none of the chain is written.             *)
SshLinks(d, h, by_alias) ==
    LET links == IF h.alias \notin DOMAIN by_alias THEN {}
                 ELSE chain_links(by_alias[h.alias], h.jump, by_alias)
        writable == \A l \in links : find_by_id(d.servers, l[1]).jump \in {None, l[2]}
        Linked(s) == IF \E l \in links : l[1] = s.id
                     THEN [s EXCEPT !.jump = (CHOOSE l \in links : l[1] = s.id)[2]] ELSE s
    IN IF writable THEN [d EXCEPT !.servers = Mapped(@, Linked)] ELSE d

AddHosts(d, hosts, onDisk, at) ==
    FoldLeft(LAMBDA so, h : SshHost(so, h, onDisk, at), [d |-> d, by_alias |-> <<>>], hosts)
LinkHosts(d, hosts, by_alias) == FoldLeft(LAMBDA so, h : SshLinks(so, h, by_alias), d, hosts)

import_ssh_config_hosts(d, scan, aliases, onDisk, at) ==
    LET hosts == Picked(scan, aliases)
        first == AddHosts(d, hosts, onDisk, at)
    IN LinkHosts(first.d, hosts, first.by_alias)

----------------------------------------------------------------------------
(* Hosts out of another client's file: each reader gives hosts, and what   *)
(* it recognised and does not offer.                                       *)

Nothing == [hosts |-> <<>>, skipped |-> 0]
Taken(so, protocol, address, password) ==
    IF protocol \in {None, "ssh"} /\ address # None
    THEN [so EXCEPT !.hosts = Append(@, [addr |-> address, password |-> password])]
    ELSE [so EXCEPT !.skipped = @ + 1]

TermiusHosts(rows) ==
    FoldLeft(LAMBDA so, r : Taken(so, r.protocol, r.address, r.password), Nothing, rows)

(* A session's settings come one by one, the last said of each counts; a   *)
(* section that is not a session's is no host and not skipped either.      *)
Setting(c, key) ==
    LET said == Selected(c.settings, {t \in Range(c.settings) : t[1] = key})
    IN IF said = <<>> THEN None ELSE Last(said)[2]
PuttySession(so, c) ==
    IF c.name = None THEN so ELSE Taken(so, Setting(c, "Protocol"), Setting(c, "HostName"), FALSE)
PuttyHosts(sections) == FoldLeft(PuttySession, Nothing, sections)

(* Only the lines of bookmark sections count.                              *)
MobaLine(so, l) ==
    IF l.section # None THEN [so EXCEPT !.inside = l.section = "bookmarks"]
    ELSE IF ~so.inside THEN so
    ELSE [so EXCEPT !.scan = Taken(@, l.kind, l.address, FALSE)]
MobaHosts(lines) == FoldLeft(MobaLine, [inside |-> FALSE, scan |-> Nothing], lines).scan

Hosts(source, content) == CASE source = "termius" -> TermiusHosts(content)
                            [] source = "putty"   -> PuttyHosts(content)
                            [] OTHER              -> MobaHosts(content)

(* The rows picked, in the order picked; one that is here already, or was  *)
(* just added, is passed over.                                             *)
ClientHost(so, h, with_passwords, at) ==
    IF \E s \in Range(so.servers) : s.addr = h.addr THEN so
    ELSE [so EXCEPT !.servers = Append(@,
            NewServer(Fresh(h.addr, at), h.addr, None,
                      IF with_passwords /\ h.password THEN "master" ELSE None))]

import_client_hosts(d, scan, picked, with_passwords, at) ==
    FoldLeft(LAMBDA so, n : IF n \notin DOMAIN scan THEN so
                            ELSE ClientHost(so, scan[n], with_passwords, at),
             d, picked)
=============================================================================
