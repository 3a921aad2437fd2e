---------------------------- MODULE DriverRegistry ---------------------------
(***************************************************************************)
(* The map of drivers: dbiInitialize() loads the libraries of a directory,   *)
(* initCheck() loads two directories when the map is empty and looks a       *)
(* driver up, dbiShutdown() unloads everything.  A library is loaded while   *)
(* it has been opened more often than closed; a dlclose of one that is not   *)
(* loaded, which the standard leaves undefined, is taken to do nothing.      *)
(*                                                                         *)
(* The client shuts down only when it has no handle left.                    *)
(***************************************************************************)
EXTENDS Naturals, Sequences

CONSTANTS Dirs,     \* directories
          Files,    \* libraries that match the pattern, by inode
          Kind,     \* [Files -> {"driver", "no_connect", "no_info", "unloadable"}]
          NameOf,   \* [Files -> Names]: what dbdInfo() says
          Names,
          Contents, \* sets of initial contents: SUBSET [Dirs -> SUBSET Files]
          Packages  \* libraries that may be installed while the client runs

Own     == "./lib/dbic++"
Default == "/usr/lib/dbic++"
NULL    == "NULL"
NoName  == "no_name"

RegistryAssumption ==
  /\ {Own, Default} \subseteq Dirs
  /\ Kind \in [Files -> {"driver", "no_connect", "no_info", "unloadable"}]
  /\ NameOf \in [Files -> Names]
  /\ Contents \subseteq [Dirs -> SUBSET Files]
  /\ NULL \notin Files /\ NoName \notin Names
  /\ "null" \notin Names \* dbiInitialize() keeps that name for itself
  /\ Packages \subseteq Files

VARIABLES client,   \* whether it initializes again what it has initialized, and
                    \* whether libraries are installed while it runs
          present,  \* the files of each directory
          drivers,  \* the map: names to files, or to NULL
          opens,    \* of each file, dlopen calls less dlclose calls
          todo,     \* directories the running call has still to read
          scan,     \* files of the open directory not read yet
          read,     \* directories read since the map was empty
          asked,    \* the driver the running Handle() wants
          live,     \* files whose handles are in use
          denied    \* the driver the last call could not find

vars == <<client, present, drivers, opens, todo, scan, read, asked, live, denied>>

Clients == [again: BOOLEAN, installs: BOOLEAN]

TypeOK ==
  /\ client \in Clients
  /\ present \in [Dirs -> SUBSET Files] /\ opens \in [Files -> Nat]
  /\ DOMAIN drivers \subseteq Names \cup {"null"}
  /\ \A n \in DOMAIN drivers : drivers[n] \in {f \in Files : NameOf[f] = n} \cup {NULL}
  /\ todo \in Seq(Dirs) /\ scan \subseteq Files /\ read \subseteq Dirs
  /\ asked \in Names \cup {NoName} /\ denied \in Names \cup {NoName}
  /\ live \subseteq Files

EmptyMap == [n \in {} |-> NULL]
Put(n, f) == [m \in DOMAIN drivers \cup {n} |-> IF m = n THEN f ELSE drivers[m]]
Get(n)    == IF n \in DOMAIN drivers THEN drivers[n] ELSE NULL

Init ==
  /\ client \in Clients
  /\ present \in Contents /\ drivers = EmptyMap /\ opens = [f \in Files |-> 0]
  /\ todo = <<>> /\ scan = {} /\ read = {}
  /\ asked = NoName /\ live = {} /\ denied = NoName

Between == todo = <<>> /\ scan = {}
Idle    == Between /\ asked = NoName

-----------------------------------------------------------------------------
(* dbiInitialize(d), by the client.                                        *)
Initialize(d) ==
  /\ Idle /\ (client.again \/ drivers = EmptyMap)
  /\ todo' = <<d>> /\ denied' = NoName
  /\ UNCHANGED <<client, present, drivers, opens, scan, read, asked, live>>

OpenDirectory ==
  /\ todo # <<>> /\ scan = {}
  /\ todo' = Tail(todo) /\ scan' = present[Head(todo)] /\ read' = read \cup {Head(todo)}
  /\ drivers' = Put("null", NULL)
  /\ UNCHANGED <<client, present, opens, asked, live, denied>>

NoRest(f) == {}
Rest(f)   == scan \ {f}

Opened(f) == [opens EXCEPT ![f] = @ + 1]

(* dlclose, and delete, whose destructor closes again.                       *)
BelowZero(o, f)   == [o EXCEPT ![f] = @ - 3]
NotClosed(o, f)   == o
ClosedTwice(o, f) == [o EXCEPT ![f] = IF @ > 2 THEN @ - 2 ELSE 0]

(* Of two drivers of one name the later is closed.                           *)
Earlier(f) == Get(NameOf[f])
Later(f)   == f

Load(f) ==
  /\ f \in scan /\ Kind[f] = "driver"
  /\ scan' = Rest(f)
  /\ IF Get(NameOf[f]) = NULL
     THEN drivers' = Put(NameOf[f], f) /\ opens' = Opened(f)
     ELSE opens' = ClosedTwice(Opened(f), Later(f)) /\ UNCHANGED drivers
  /\ UNCHANGED <<client, present, todo, read, asked, live, denied>>

(* A library without dbdInfo stays loaded; how often it was opened makes no   *)
(* difference.                                                             *)
Stays(f) == [opens EXCEPT ![f] = 1]

Ignore(f) ==
  /\ f \in scan /\ Kind[f] \in {"no_info", "unloadable"}
  /\ scan' = Rest(f)
  /\ opens' = IF Kind[f] = "no_info" THEN Stays(f) ELSE opens
  /\ UNCHANGED <<client, present, drivers, todo, read, asked, live, denied>>

(* A library without dbdConnect ends the call with an exception.             *)
Throw(f) ==
  /\ f \in scan /\ Kind[f] = "no_connect"
  /\ opens' = Stays(f)
  /\ scan' = {} /\ todo' = <<>> /\ asked' = NoName
  /\ UNCHANGED <<client, present, drivers, read, live, denied>>

-----------------------------------------------------------------------------
(* Handle(n, ...): initCheck(n), then connect() of the driver.                *)
DefaultOnly == <<Default>>
Looked      == <<Own, Default>>

Connect(n) ==
  /\ Idle
  /\ asked' = n /\ denied' = NoName
  /\ todo' = IF drivers = EmptyMap THEN Looked ELSE <<>>
  /\ UNCHANGED <<client, present, drivers, opens, scan, read, live>>

(* The look up puts a name it does not find into the map.                     *)
Look ==
  /\ Between /\ asked # NoName
  /\ asked' = NoName
  /\ IF Get(asked) = NULL
     THEN denied' = asked /\ drivers' = Put(asked, NULL) /\ UNCHANGED live
     ELSE live' \in {live, live \cup {Get(asked)}} /\ UNCHANGED <<client, denied, drivers>>
  /\ UNCHANGED <<client, present, opens, todo, scan, read>>

(* delete of the handles of a driver.                                       *)
Delete(f) ==
  /\ Idle /\ f \in live /\ live' = live \ {f}
  /\ UNCHANGED <<client, present, drivers, opens, todo, scan, read, asked, denied>>

(* available_drivers() reads the default directory into an empty map.         *)
AvailableDrivers ==
  /\ Idle
  /\ todo' = IF drivers = EmptyMap THEN DefaultOnly ELSE <<>>
  /\ denied' = NoName
  /\ UNCHANGED <<client, present, drivers, opens, scan, read, asked, live>>

Registered == {f \in Files : \E n \in DOMAIN drivers : drivers[n] = f}

(* dbiShutdown(), by the client or at exit.                                 *)
Shutdown ==
  /\ Idle /\ live = {}
  /\ opens' = [f \in Files |-> IF f \in Registered THEN ClosedTwice(opens, f)[f] ELSE opens[f]]
  /\ drivers' = EmptyMap /\ read' = {} /\ denied' = NoName
  /\ UNCHANGED <<client, present, todo, scan, asked, live>>

(* A package is installed.                                                 *)
Install(f, d) ==
  /\ client.installs /\ Idle /\ f \notin present[d]
  /\ present' = [present EXCEPT ![d] = @ \cup {f}]
  /\ denied' = NoName
  /\ UNCHANGED <<client, drivers, opens, todo, scan, read, asked, live>>

Next ==
  \/ \E d \in Dirs : Initialize(d)
  \/ OpenDirectory
  \/ \E f \in Files : Load(f) \/ Ignore(f) \/ Throw(f) \/ Delete(f)
  \/ \E n \in Names : Connect(n)
  \/ Look \/ AvailableDrivers \/ Shutdown
  \/ \E f \in Packages, d \in Dirs : Install(f, d)

Spec == Init /\ [][Next]_vars

-----------------------------------------------------------------------------
(* A library that the map or a handle points into is loaded, if no directory  *)
(* is read twice and none has a library of another (dbic++.cc:52-72,        *)
(* dbic++.cc:88-97).                                                       *)
Apart == \A d, e \in Dirs : d # e => present[d] \cap present[e] = {}

LoadedWhileUsed ==
  ~client.again /\ ~client.installs /\ Apart => \A f \in Registered \cup live : opens[f] > 0

(* With nothing in the map no driver is left loaded: what was opened and      *)
(* refused has been closed too (dbic++.cc:63-69, dbic++.cc:91-93).          *)
NoneLeftLoaded ==
  drivers = EmptyMap => \A f \in Files : Kind[f] = "driver" => opens[f] = 0

(* A driver that could not be found is in none of the directories that were   *)
(* read, unless it was installed later or a library without dbdConnect ended *)
(* the reading (dbic++.cc:111-119).                                         *)
Sound == \A d \in Dirs : \A f \in present[d] : Kind[f] # "no_connect"

DeniedRightly ==
  ~client.installs /\ Sound /\ denied # NoName =>
    ~ \E d \in read : \E f \in present[d] : Kind[f] = "driver" /\ NameOf[f] = denied
=============================================================================
