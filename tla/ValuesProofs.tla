----------------------------- MODULE ValuesProofs ----------------------------
(***************************************************************************)
(* Proofs about the map of drivers, the reading of MySQL's binary rows and    *)
(* the rewriting of placeholders, as MCValues puts them side by side.        *)
(***************************************************************************)
EXTENDS MCValues, FiniteSetTheorems, WellFoundedInduction, SequenceTheorems, TLAPS

LEMMA OneMoves ==
  ASSUME [Next]_vars
  PROVE  /\ Query!Next \/ UNCHANGED Query!vars
         /\ Row!Next \/ UNCHANGED Row!vars
         /\ Registry!Next \/ UNCHANGED Registry!vars
BY DEF Next, vars, QueryVars, RowVars, RegistryVars, Query!vars, Row!vars, Registry!vars

-----------------------------------------------------------------------------
(* The map of drivers.                                                      *)
LEMMA RegistryAssumed == Registry!RegistryAssumption
BY ValuesAssumption

LEMMA TwoDirectories ==
  /\ Registry!Own \in Dirs /\ Registry!Default \in Dirs /\ Registry!Own # Registry!Default
<1>1. Registry!Own # Registry!Default
  BY Zenon DEF Registry!Own, Registry!Default
<1> QED
  BY <1>1, RegistryAssumed DEF Registry!RegistryAssumption

LEMMA DriversNamed ==
  /\ Kind \in [Files -> {"driver", "no_connect", "no_info", "unloadable"}]
  /\ NameOf \in [Files -> Names]
  /\ Registry!NULL \notin Files /\ Registry!NoName \notin Names /\ "null" \notin Names
BY RegistryAssumed DEF Registry!RegistryAssumption

(* A directory is known by the directories read since the map was empty.      *)
Found(f) == \E d \in read : f \in present[d]

(* A driver is loaded at most once, and then it is in the map; what the map   *)
(* has, and what is still to be read, was found in a directory.              *)
MapKnown ==
  /\ \A f \in Files : Kind[f] = "driver" => opens[f] = 0 \/ (opens[f] = 1 /\ f \in Registry!Registered)
  /\ \A f \in scan \cup Registry!Registered : Found(f)
  /\ drivers = Registry!EmptyMap => read = {}
  /\ scan # {} => drivers # Registry!EmptyMap

(* No directory is read twice, so nothing is loaded that is in use.           *)
ReadOnce ==
  ~client.again /\ ~client.installs /\ Registry!Apart =>
    /\ \A i \in 1..Len(todo) : todo[i] \notin read
    /\ \A i, k \in 1..Len(todo) : i # k => todo[i] # todo[k]
    /\ \A f \in Registry!Registered : opens[f] > 0 /\ f \notin scan

(* Every driver of a directory that was read is in the map, or still to come; *)
(* the name that was denied has none.                                       *)
AllMapped ==
  /\ ~client.installs /\ Registry!Sound =>
       \A f \in Files : Kind[f] = "driver" /\ Found(f) =>
                          f \in scan \/ Registry!Get(NameOf[f]) # Registry!NULL
  /\ denied # Registry!NoName =>
       Registry!Idle /\ Registry!Get(denied) = Registry!NULL

RegistryInv ==
  /\ Registry!TypeOK /\ live \subseteq Registry!Registered
  /\ MapKnown /\ ReadOnce /\ AllMapped

(* What an entry put under a name that had none does to the map.              *)
LEMMA PutSays ==
  ASSUME NEW m, NEW f \in Files \cup {Registry!NULL},
         Registry!Get(m) = Registry!NULL, drivers' = Registry!Put(m, f)
  PROVE  /\ drivers' # Registry!EmptyMap
         /\ Registry!Get(m)' = f
         /\ \A k : k # m => Registry!Get(k)' = Registry!Get(k)
         /\ \A g \in Files : g \in Registry!Registered' <=> g \in Registry!Registered \/ g = f
<1>1. DOMAIN drivers' = DOMAIN drivers \cup {m} /\ DOMAIN Registry!EmptyMap = {}
  BY DEF Registry!Put, Registry!EmptyMap
<1>2. drivers'[m] = f /\ \A k \in DOMAIN drivers : k # m => drivers'[k] = drivers[k]
  BY DEF Registry!Put
<1>3. m \in DOMAIN drivers => drivers[m] = Registry!NULL
  BY DEF Registry!Get
<1>4. ASSUME NEW g \in Files
      PROVE  g \in Registry!Registered' <=> g \in Registry!Registered \/ g = f
  BY <1>1, <1>2, <1>3, DriversNamed DEF Registry!Registered
<1> QED
  BY <1>1, <1>2, <1>4 DEF Registry!Get

(* The same of the entry under "null", which is never a driver's.             *)
LEMMA NullSays ==
  ASSUME Registry!TypeOK, drivers' = Registry!Put("null", Registry!NULL)
  PROVE  /\ drivers' # Registry!EmptyMap
         /\ \A k : Registry!Get(k)' = Registry!Get(k)
         /\ Registry!Registered' = Registry!Registered
<1>1. Registry!Get("null") = Registry!NULL
  BY DriversNamed DEF Registry!TypeOK, Registry!Get
<1>2. \A g \in Files : g \in Registry!Registered' <=> g \in Registry!Registered
  BY <1>1, PutSays, DriversNamed
<1>3. Registry!Registered' = Registry!Registered
  BY <1>2 DEF Registry!Registered
<1> QED
  BY <1>1, <1>3, PutSays

(* A file in the map is the entry of its own name.                           *)
LEMMA OwnEntry ==
  ASSUME Registry!TypeOK, NEW f \in Files
  PROVE  f \in Registry!Registered <=> Registry!Get(NameOf[f]) = f
BY DriversNamed DEF Registry!TypeOK, Registry!Registered, Registry!Get

-----------------------------------------------------------------------------
(* The types.                                                               *)
LEMMA PutTyped ==
  ASSUME Registry!TypeOK, NEW m \in Names \cup {"null"},
         NEW f \in {g \in Files : NameOf[g] = m} \cup {Registry!NULL}, drivers' = Registry!Put(m, f)
  PROVE  /\ DOMAIN drivers' \subseteq Names \cup {"null"}
         /\ \A k \in DOMAIN drivers' :
              drivers'[k] \in {g \in Files : NameOf[g] = k} \cup {Registry!NULL}
<1>1. DOMAIN drivers' = DOMAIN drivers \cup {m}
  BY DEF Registry!Put
<1>2. drivers'[m] = f /\ \A k \in DOMAIN drivers : k # m => drivers'[k] = drivers[k]
  BY DEF Registry!Put
<1> QED
  BY <1>1, <1>2 DEF Registry!TypeOK

LEMMA ClosedTyped ==
  ASSUME NEW o \in [Files -> Nat], NEW f \in Files
  PROVE  /\ Registry!ClosedTwice(o, f) \in [Files -> Nat]
         /\ \A g \in Files : g # f => Registry!ClosedTwice(o, f)[g] = o[g]
         /\ o[f] <= 2 => Registry!ClosedTwice(o, f)[f] = 0
BY DEF Registry!ClosedTwice

LEMMA RegistryStarts == Registry!Init => RegistryInv
<1> SUFFICES ASSUME Registry!Init PROVE RegistryInv
  OBVIOUS
<1>1. DOMAIN drivers = {}
  BY DEF Registry!Init, Registry!EmptyMap
<1>2. Registry!Registered = {} /\ \A k : Registry!Get(k) = Registry!NULL
  BY <1>1 DEF Registry!Registered, Registry!Get
<1>3. present \in [Dirs -> SUBSET Files]
  BY RegistryAssumed DEF Registry!Init, Registry!RegistryAssumption
<1>4. Registry!TypeOK
  BY <1>1, <1>3 DEF Registry!Init, Registry!TypeOK
<1>5. MapKnown /\ ReadOnce
  BY <1>2 DEF Registry!Init, MapKnown, ReadOnce
<1>6. AllMapped
  BY <1>2 DEF Registry!Init, AllMapped, Found
<1> QED
  BY <1>4, <1>5, <1>6 DEF RegistryInv, Registry!Init

-----------------------------------------------------------------------------
(* Each action keeps the invariant.                                          *)
USE DEF RegistryInv

(* The calls that only say what is to be read.                               *)
LEMMA AsksKeep ==
  ASSUME RegistryInv, Registry!Idle, NEW dirs \in Seq(Dirs), todo' = dirs,
         asked' \in Names \cup {Registry!NoName}, denied' = Registry!NoName,
         dirs # <<>> => client.again \/ drivers = Registry!EmptyMap,
         \A i, k \in 1..Len(dirs) : i # k => dirs[i] # dirs[k],
         UNCHANGED <<client, present, drivers, opens, scan, read, live>>
  PROVE  RegistryInv'
<1>1. Registry!Registered' = Registry!Registered /\ \A k : Registry!Get(k)' = Registry!Get(k)
  BY DEF Registry!Registered, Registry!Get
<1>2. Registry!TypeOK'
  BY DEF Registry!TypeOK
<1>3. MapKnown'
  BY <1>1 DEF MapKnown, Found
<1>4. Len(dirs) # 0 => dirs # <<>>
  OBVIOUS
<1>5. ReadOnce'
  <2> SUFFICES ASSUME ~client.again, ~client.installs, Registry!Apart PROVE ReadOnce'
    BY DEF ReadOnce, Registry!Apart
  <2>1. 1..Len(dirs) # {} => read = {}
    BY <1>4 DEF MapKnown
  <2> QED
    BY <1>1, <2>1 DEF ReadOnce
<1>6. AllMapped'
  BY <1>1 DEF AllMapped, Found, Registry!Sound
<1> QED
  BY <1>1, <1>2, <1>3, <1>5, <1>6

LEMMA InitializeKeeps ==
  ASSUME RegistryInv, NEW d \in Dirs, Registry!Initialize(d)
  PROVE  RegistryInv'
<1>1. <<d>> \in Seq(Dirs) /\ \A i, k \in 1..Len(<<d>>) : i # k => <<d>>[i] # <<d>>[k]
  OBVIOUS
<1> QED
  BY <1>1, AsksKeep DEF Registry!Initialize, Registry!Idle

LEMMA ConnectKeeps ==
  ASSUME RegistryInv, NEW m \in Names, Registry!Connect(m)
  PROVE  RegistryInv'
<1> DEFINE dirs == IF drivers = Registry!EmptyMap THEN Registry!Looked ELSE <<>>
<1>1. dirs \in Seq(Dirs) /\ \A i, k \in 1..Len(dirs) : i # k => dirs[i] # dirs[k]
  BY TwoDirectories DEF Registry!Looked
<1>2. todo' = dirs /\ (dirs # <<>> => drivers = Registry!EmptyMap)
  BY DEF Registry!Connect
<1>3. PICK ds \in Seq(Dirs) : ds = dirs
  BY <1>1
<1> HIDE DEF dirs
<1> QED
  BY <1>1, <1>2, <1>3, AsksKeep DEF Registry!Connect

LEMMA AvailableDriversKeeps ==
  ASSUME RegistryInv, Registry!AvailableDrivers
  PROVE  RegistryInv'
<1> DEFINE dirs == IF drivers = Registry!EmptyMap THEN Registry!DefaultOnly ELSE <<>>
<1>1. dirs \in Seq(Dirs) /\ \A i, k \in 1..Len(dirs) : i # k => dirs[i] # dirs[k]
  BY TwoDirectories DEF Registry!DefaultOnly
<1>2. todo' = dirs /\ (dirs # <<>> => drivers = Registry!EmptyMap)
  BY DEF Registry!AvailableDrivers
<1>3. PICK ds \in Seq(Dirs) : ds = dirs
  BY <1>1
<1> HIDE DEF dirs
<1> QED
  BY <1>1, <1>2, <1>3, AsksKeep DEF Registry!AvailableDrivers, Registry!Idle

LEMMA OpenDirectoryKeeps ==
  ASSUME RegistryInv, Registry!OpenDirectory
  PROVE  RegistryInv'
<1> USE DEF Registry!OpenDirectory
<1>1. /\ drivers' # Registry!EmptyMap /\ Registry!Registered' = Registry!Registered
      /\ \A k : Registry!Get(k)' = Registry!Get(k)
  BY NullSays
<1>2. PICK d \in Dirs : d = Head(todo)
  BY DEF Registry!TypeOK
<1>3. /\ Len(todo) \in Nat \ {0} /\ Len(todo') = Len(todo) - 1 /\ todo[1] = d
      /\ \A i \in 1..Len(todo') : todo'[i] = todo[i + 1]
  BY <1>2 DEF Registry!TypeOK
<1>4. Registry!TypeOK'
  <2>1. DOMAIN drivers' \subseteq Names \cup {"null"} /\
        \A k \in DOMAIN drivers' :
           drivers'[k] \in {g \in Files : NameOf[g] = k} \cup {Registry!NULL}
    BY PutTyped
  <2>2. todo' \in Seq(Dirs) /\ scan' \subseteq Files /\ read' \subseteq Dirs
    BY <1>2 DEF Registry!TypeOK
  <2> QED
    BY <2>1, <2>2 DEF Registry!TypeOK
<1>5. MapKnown'
  <2>1. \A f : f \in scan' \/ Found(f) => Found(f)'
    BY <1>2 DEF Found
  <2> QED
    BY <1>1, <2>1 DEF MapKnown
<1>6. ReadOnce'
  <2> SUFFICES ASSUME ~client.again, ~client.installs, Registry!Apart PROVE ReadOnce'
    BY DEF ReadOnce, Registry!Apart
  <2>1. d \notin read /\ \A i \in 1..Len(todo') : todo'[i] \notin read \cup {d}
    BY <1>3 DEF ReadOnce
  <2>2. \A i, k \in 1..Len(todo') : i # k => todo'[i] # todo'[k]
    BY <1>3 DEF ReadOnce
  <2>3. \A f \in Registry!Registered : f \notin scan'
    BY <1>2, <2>1 DEF MapKnown, Found, Registry!Apart, Registry!TypeOK
  <2> QED
    BY <1>1, <1>2, <2>1, <2>2, <2>3 DEF ReadOnce
<1>7. AllMapped'
  <2>1. \A f : Found(f)' => Found(f) \/ f \in scan'
    BY <1>2 DEF Found
  <2>2. denied = Registry!NoName
    BY DEF AllMapped, Registry!Idle, Registry!Between
  <2> QED
    BY <1>1, <2>1, <2>2 DEF AllMapped, Registry!Sound
<1> QED
  BY <1>1, <1>4, <1>5, <1>6, <1>7

LEMMA LoadKeeps ==
  ASSUME RegistryInv, NEW f \in Files, Registry!Load(f)
  PROVE  RegistryInv'
<1> USE DEF Registry!Load, Registry!Rest, Registry!Later
<1>1. opens \in [Files -> Nat] /\ NameOf[f] \in Names /\ f \in scan /\ scan' = scan \ {f}
  BY DriversNamed DEF Registry!TypeOK
<1>2. Registry!Opened(f) \in [Files -> Nat] /\ Registry!Opened(f)[f] = opens[f] + 1
      /\ \A g \in Files : g # f => Registry!Opened(f)[g] = opens[g]
  BY <1>1 DEF Registry!Opened
<1>3. denied = Registry!NoName
  BY <1>1 DEF AllMapped, Registry!Idle, Registry!Between
<1>4. f \in Registry!Registered <=> Registry!Get(NameOf[f]) = f
  BY OwnEntry
<1>5. opens[f] = 0 \/ (opens[f] = 1 /\ f \in Registry!Registered)
  BY DEF MapKnown
<1>6. CASE Registry!Get(NameOf[f]) = Registry!NULL
  <2>1. drivers' = Registry!Put(NameOf[f], f) /\ opens' = Registry!Opened(f)
    BY <1>6
  <2>2. /\ drivers' # Registry!EmptyMap
        /\ Registry!Get(NameOf[f])' = f
        /\ \A k : k # NameOf[f] => Registry!Get(k)' = Registry!Get(k)
        /\ \A g \in Files : g \in Registry!Registered' <=> g \in Registry!Registered \/ g = f
    BY <1>1, <1>6, <2>1, PutSays
  <2>3. opens' \in [Files -> Nat] /\ opens'[f] = 1
        /\ \A g \in Files : g # f => opens'[g] = opens[g]
    BY <1>2, <1>4, <1>5, <1>6, <2>1, DriversNamed
  <2>4. Registry!TypeOK'
    <3>1. DOMAIN drivers' \subseteq Names \cup {"null"} /\
          \A k \in DOMAIN drivers' :
             drivers'[k] \in {g \in Files : NameOf[g] = k} \cup {Registry!NULL}
      BY <1>1, <2>1, PutTyped
    <3> QED
      BY <3>1, <2>3 DEF Registry!TypeOK
  <2>5. MapKnown'
    <3>1. \A g : Found(g)' <=> Found(g)
      BY DEF Found
    <3>2. Registry!Registered' \subseteq Files
      BY DEF Registry!Registered
    <3> QED
      BY <1>1, <2>2, <2>3, <3>1, <3>2 DEF MapKnown
  <2>6. ReadOnce'
    <3>1. Registry!Registered' \subseteq Files
      BY DEF Registry!Registered
    <3> QED
      BY <1>1, <2>2, <2>3, <3>1 DEF ReadOnce, Registry!Apart
  <2>7. AllMapped'
    BY <1>1, <1>3, <2>2, DriversNamed DEF AllMapped, Found, Registry!Sound
  <2>8. live' \subseteq Registry!Registered'
    BY <2>2 DEF Registry!TypeOK
  <2> QED
    BY <2>4, <2>5, <2>6, <2>7, <2>8
<1>7. CASE Registry!Get(NameOf[f]) # Registry!NULL
  <2>1. opens' = Registry!ClosedTwice(Registry!Opened(f), f) /\ drivers' = drivers
    BY <1>7
  <2>2. opens' \in [Files -> Nat] /\ opens'[f] = 0
        /\ \A g \in Files : g # f => opens'[g] = opens[g]
    BY <1>1, <1>2, <1>5, <2>1, ClosedTyped
  <2>3. Registry!Registered' = Registry!Registered /\ \A k : Registry!Get(k)' = Registry!Get(k)
    BY <2>1 DEF Registry!Registered, Registry!Get
  <2>4. Registry!TypeOK'
    BY <1>1, <2>1, <2>2 DEF Registry!TypeOK
  <2>5. MapKnown'
    BY <1>1, <2>1, <2>2, <2>3 DEF MapKnown, Found
  <2>6. ReadOnce'
    <3>1. Registry!Registered \subseteq Files
      BY DEF Registry!Registered
    <3> QED
      BY <1>1, <2>2, <2>3, <3>1 DEF ReadOnce, Registry!Apart
  <2>7. AllMapped'
    <3>1. \A g \in Files : g \in scan /\ g \notin scan' => Registry!Get(NameOf[g]) # Registry!NULL
      BY <1>1, <1>7
    <3> QED
      BY <1>3, <2>3, <3>1 DEF AllMapped, Found, Registry!Sound
  <2> QED
    BY <2>3, <2>4, <2>5, <2>6, <2>7
<1> QED
  BY <1>6, <1>7

(* A library that is no driver: it is ignored, or ends the call.              *)
LEMMA StaysTyped ==
  ASSUME opens \in [Files -> Nat], NEW f \in Files
  PROVE  /\ Registry!Stays(f) \in [Files -> Nat] /\ Registry!Stays(f)[f] = 1
         /\ \A g \in Files : g # f => Registry!Stays(f)[g] = opens[g]
BY DEF Registry!Stays

LEMMA OthersKeep ==
  ASSUME RegistryInv, NEW f \in Files, f \in scan, Kind[f] # "driver",
         opens' \in {opens, Registry!Stays(f)}, scan' \subseteq scan,
         asked' \in {asked, Registry!NoName},
         \/ (todo' = todo /\ scan \subseteq scan' \cup {f})
         \/ (todo' = <<>> /\ Kind[f] = "no_connect"),
         UNCHANGED <<client, present, drivers, read, live, denied>>
  PROVE  RegistryInv'
<1>1. opens' \in [Files -> Nat] /\ \A g \in Files : opens'[g] = opens[g] \/ (g = f /\ opens'[g] = 1)
  BY StaysTyped DEF Registry!TypeOK
<1>2. Registry!Registered' = Registry!Registered /\ \A k : Registry!Get(k)' = Registry!Get(k)
  BY DEF Registry!Registered, Registry!Get
<1>3. Registry!TypeOK'
  <2>1. <<>> \in Seq(Dirs)
    OBVIOUS
  <2>2. todo' \in Seq(Dirs) /\ scan' \subseteq Files /\ asked' \in Names \cup {Registry!NoName}
    BY <2>1 DEF Registry!TypeOK
  <2>3. client \in Registry!Clients /\ present \in [Dirs -> SUBSET Files]
    BY DEF Registry!TypeOK
  <2> QED
    BY <1>1, <2>2, <2>3 DEF Registry!TypeOK
<1>4. MapKnown'
  BY <1>1, <1>2 DEF MapKnown, Found
<1>5. ReadOnce'
  <2>1. Registry!Registered \subseteq Files
    BY DEF Registry!Registered
  <2> QED
    BY <1>1, <1>2, <2>1 DEF ReadOnce, Registry!Apart
<1>6. AllMapped'
  <2>1. denied = Registry!NoName
    BY DEF AllMapped, Registry!Idle, Registry!Between
  <2>2. Registry!Sound => Kind[f] # "no_connect"
    BY DEF MapKnown, Found, Registry!Sound, Registry!TypeOK
  <2> QED
    BY <1>2, <2>1, <2>2 DEF AllMapped, Found, Registry!Sound
<1> QED
  BY <1>2, <1>3, <1>4, <1>5, <1>6

LEMMA IgnoreKeeps ==
  ASSUME RegistryInv, NEW f \in Files, Registry!Ignore(f)
  PROVE  RegistryInv'
BY OthersKeep DEF Registry!Ignore, Registry!Rest

LEMMA ThrowKeeps ==
  ASSUME RegistryInv, NEW f \in Files, Registry!Throw(f)
  PROVE  RegistryInv'
BY OthersKeep DEF Registry!Throw

LEMMA LookKeeps ==
  ASSUME RegistryInv, Registry!Look
  PROVE  RegistryInv'
<1> USE DEF Registry!Look
<1>1. asked \in Names /\ Registry!Between /\ UNCHANGED <<client, present, opens, todo, scan, read>>
  BY DEF Registry!TypeOK
<1>2. CASE Registry!Get(asked) = Registry!NULL
  <2>1. denied' = asked /\ drivers' = Registry!Put(asked, Registry!NULL) /\ live' = live
    BY <1>2
  <2>2. /\ drivers' # Registry!EmptyMap /\ \A k : Registry!Get(k)' = Registry!Get(k)
        /\ \A g \in Files : g \in Registry!Registered' <=> g \in Registry!Registered
    BY <1>2, <2>1, PutSays, DriversNamed
  <2>3. Registry!Registered' = Registry!Registered
    BY <2>2 DEF Registry!Registered
  <2>4. Registry!TypeOK'
    <3>1. DOMAIN drivers' \subseteq Names \cup {"null"} /\
          \A k \in DOMAIN drivers' :
             drivers'[k] \in {g \in Files : NameOf[g] = k} \cup {Registry!NULL}
      BY <1>1, <2>1, PutTyped
    <3> QED
      BY <1>1, <2>1, <3>1 DEF Registry!TypeOK
  <2>5. MapKnown'
    BY <1>1, <2>2, <2>3 DEF MapKnown, Found
  <2>6. ReadOnce'
    BY <1>1, <2>3 DEF ReadOnce, Registry!Apart, Registry!Between
  <2>7. AllMapped'
    BY <1>1, <1>2, <2>1, <2>2 DEF AllMapped, Found, Registry!Sound, Registry!Idle, Registry!Between
  <2> QED
    BY <2>1, <2>3, <2>4, <2>5, <2>6, <2>7
<1>3. CASE Registry!Get(asked) # Registry!NULL
  <2>1. drivers' = drivers /\ denied' = denied /\ live' \subseteq live \cup {Registry!Get(asked)}
    BY <1>3
  <2>2. Registry!Registered' = Registry!Registered /\ \A k : Registry!Get(k)' = Registry!Get(k)
    BY <2>1 DEF Registry!Registered, Registry!Get
  <2>3. Registry!Get(asked) \in Registry!Registered
    BY <1>3 DEF Registry!Get, Registry!Registered, Registry!TypeOK
  <2>4. live' \subseteq Registry!Registered /\ Registry!Registered \subseteq Files
    BY <2>1, <2>3 DEF Registry!Registered
  <2>5. Registry!TypeOK'
    BY <1>1, <2>1, <2>4 DEF Registry!TypeOK
  <2>6. MapKnown' /\ ReadOnce'
    BY <1>1, <2>1, <2>2 DEF MapKnown, ReadOnce, Found, Registry!Apart
  <2>7. AllMapped'
    BY <1>1, <2>1, <2>2 DEF AllMapped, Found, Registry!Sound, Registry!Idle, Registry!Between
  <2> QED
    BY <2>2, <2>4, <2>5, <2>6, <2>7
<1> QED
  BY <1>2, <1>3

LEMMA DeleteKeeps ==
  ASSUME RegistryInv, NEW f \in Files, Registry!Delete(f)
  PROVE  RegistryInv'
<1> USE DEF Registry!Delete
<1>1. Registry!Registered' = Registry!Registered /\ \A k : Registry!Get(k)' = Registry!Get(k)
  BY DEF Registry!Registered, Registry!Get
<1>2. Registry!TypeOK'
  BY DEF Registry!TypeOK
<1>3. MapKnown' /\ ReadOnce'
  BY <1>1 DEF MapKnown, ReadOnce, Found, Registry!Apart
<1>4. AllMapped'
  BY <1>1 DEF AllMapped, Found, Registry!Sound, Registry!Idle, Registry!Between
<1> QED
  BY <1>1, <1>2, <1>3, <1>4

LEMMA ShutdownKeeps ==
  ASSUME RegistryInv, Registry!Shutdown
  PROVE  RegistryInv'
<1> USE DEF Registry!Shutdown
<1>1. DOMAIN drivers' = {}
  BY DEF Registry!EmptyMap
<1>2. Registry!Registered' = {}
  BY <1>1 DEF Registry!Registered
<1>3. ASSUME NEW f \in Files
      PROVE  /\ opens'[f] \in Nat
             /\ f \in Registry!Registered /\ opens[f] <= 2 => opens'[f] = 0
             /\ f \notin Registry!Registered => opens'[f] = opens[f]
  BY ClosedTyped DEF Registry!TypeOK, Registry!ClosedTwice
<1>4. opens' \in [Files -> Nat]
  BY <1>3
<1>5. Registry!TypeOK'
  BY <1>1, <1>4 DEF Registry!TypeOK
<1>6. MapKnown'
  <2>1. \A f \in Files : Kind[f] = "driver" => opens'[f] = 0
    BY <1>3 DEF MapKnown, Registry!TypeOK
  <2> QED
    BY <1>2, <2>1 DEF MapKnown, Registry!Idle, Registry!Between
<1>7. ReadOnce'
  BY <1>2 DEF ReadOnce, Registry!Idle, Registry!Between
<1>8. AllMapped'
  BY DEF AllMapped, Found
<1> QED
  BY <1>5, <1>6, <1>7, <1>8

LEMMA InstallKeeps ==
  ASSUME RegistryInv, NEW f \in Packages, NEW d \in Dirs, Registry!Install(f, d)
  PROVE  RegistryInv'
<1> USE DEF Registry!Install
<1>1. f \in Files
  BY RegistryAssumed DEF Registry!RegistryAssumption
<1>2. present' \in [Dirs -> SUBSET Files] /\ \A e \in Dirs : present[e] \subseteq present'[e]
  BY <1>1 DEF Registry!TypeOK
<1>3. Registry!Registered' = Registry!Registered /\ \A k : Registry!Get(k)' = Registry!Get(k)
  BY DEF Registry!Registered, Registry!Get
<1>4. Registry!TypeOK'
  BY <1>2 DEF Registry!TypeOK
<1>5. \A g : Found(g) => Found(g)'
  BY <1>2 DEF Found, Registry!TypeOK
<1>6. MapKnown'
  BY <1>3, <1>5 DEF MapKnown
<1>7. ReadOnce' /\ AllMapped'
  BY DEF ReadOnce, AllMapped
<1> QED
  BY <1>3, <1>4, <1>6, <1>7

LEMMA RegistryUnmoved == RegistryInv /\ UNCHANGED Registry!vars => RegistryInv'
<1> SUFFICES ASSUME RegistryInv, UNCHANGED Registry!vars PROVE RegistryInv'
  OBVIOUS
<1> USE DEF Registry!vars
<1>1. Registry!Registered' = Registry!Registered /\ \A k : Registry!Get(k)' = Registry!Get(k)
  BY DEF Registry!Registered, Registry!Get
<1>2. Registry!TypeOK' /\ MapKnown' /\ ReadOnce'
  BY <1>1 DEF Registry!TypeOK, MapKnown, ReadOnce, Found, Registry!Apart
<1>3. AllMapped'
  BY <1>1 DEF AllMapped, Found, Registry!Sound, Registry!Idle, Registry!Between
<1> QED
  BY <1>1, <1>2, <1>3

LEMMA RegistrySteps == RegistryInv /\ Registry!Next => RegistryInv'
BY InitializeKeeps, OpenDirectoryKeeps, LoadKeeps, IgnoreKeeps, ThrowKeeps, DeleteKeeps,
   ConnectKeeps, LookKeeps, AvailableDriversKeeps, ShutdownKeeps, InstallKeeps
   DEF Registry!Next

LEMMA RegistryHolds == Spec => []RegistryInv
<1>1. Init => RegistryInv
  BY RegistryStarts DEF Init, RegistryRests
<1>2. RegistryInv /\ [Next]_vars => RegistryInv'
  BY OneMoves, RegistrySteps, RegistryUnmoved
<1> QED
  BY <1>1, <1>2, PTL DEF Spec

(* A driver that is used is loaded, for a program that fills the map once, with *)
(* directories that have no library in common and no package installed        *)
(* meanwhile; and for every program, when the map is empty no driver is       *)
(* loaded (dbic++.cc:52-72, dbic++.cc:88-97).                               *)
THEOREM UsedIsLoaded == Spec => []LoadedWhileUsed
<1>1. RegistryInv => LoadedWhileUsed
  <2> SUFFICES ASSUME RegistryInv PROVE LoadedWhileUsed
    OBVIOUS
  <2>1. Registry!LoadedWhileUsed
    BY DEF ReadOnce, Registry!LoadedWhileUsed
  <2>2. DOMAIN Registry!EmptyMap = {}
    BY DEF Registry!EmptyMap
  <2>3. drivers = Registry!EmptyMap => Registry!Registered = {}
    BY <2>2 DEF Registry!Registered
  <2>4. Registry!NoneLeftLoaded
    BY <2>3 DEF MapKnown, Registry!NoneLeftLoaded
  <2> QED
    BY <2>1, <2>4 DEF LoadedWhileUsed
<1> QED
  BY <1>1, RegistryHolds, PTL

(* A driver that is denied is in no directory that was read, when none has a    *)
(* library without dbdConnect, which ends the reading, and no package was     *)
(* installed meanwhile (dbic++.cc:111-119).                                 *)
THEOREM DeniedIsAbsent == Spec => []DeniedRightly
<1>1. RegistryInv => DeniedRightly
  BY DEF AllMapped, Found, Registry!Idle, Registry!Between, Registry!TypeOK,
         Registry!DeniedRightly, DeniedRightly
<1> QED
  BY <1>1, RegistryHolds, PTL

-----------------------------------------------------------------------------
(* The rows of MySQL's binary protocol.                                      *)
LEMMA RowAssumed == Row!BinaryRowAssumption
BY ValuesAssumption

LEMMA OfLength ==
  ASSUME NEW v \in Seq(Int)
  PROVE  /\ Len(v) = 1 => v = <<v[1]>>
         /\ Len(v) = 3 => v = <<v[1], v[2], v[3]>>
         /\ Len(v) = 4 => v = <<v[1], v[2], v[3], v[4]>>
OBVIOUS

LEMMA TwoValues ==
  ASSUME NEW v \in Seq(Int), Len(v) = 2
  PROVE  v = <<v[1], v[2]>>
OBVIOUS

LEMMA OneValue ==
  ASSUME NEW t \in Row!Types \ ({"TIME", "DATETIME"} \cup Row!Float), NEW v, Row!ValueOf(t, v)
  PROVE  Len(v) = 1 /\ v[1] \in Int /\ (t \notin Row!Integer => v[1] \in Nat)
<1>1. v \in Seq(Int) /\ Len(v) = 1
  BY DEF Row!ValueOf, Row!Arity
<1>2. v[1] \in Int
  BY <1>1
<1>3. t \notin Row!Integer => v[1] >= 0
  <2>1. 1 \in 1..Row!Arity(t)
    BY DEF Row!Arity, Row!Float
  <2> QED
    BY <2>1 DEF Row!ValueOf
<1> QED
  BY <1>1, <1>2, <1>3

(* What fetchRow() makes of a value, and how far it moves.                    *)
LEMMA HalvesKnown ==
  ASSUME NEW t \in Row!Types
  PROVE  /\ Row!Width(t) \in {1, 2, 4, 8} /\ Half[Row!Width(t)] \in Nat \ {0} /\ Half[1] \in Nat \ {0}
         /\ t = "TINY" => Row!Width(t) = 1
BY RowAssumed DEF Row!BinaryRowAssumption, Row!Width, Row!Types

LEMMA ReadRight ==
  ASSUME NEW t \in Row!Types, NEW v, Row!ValueOf(t, v)
  PROVE  /\ Row!Read(t, v) \in Seq(Int)
         /\ Row!Printable(t, v) => Row!Read(t, v) = Row!Text(t, v)
<1> USE DEF Row!ValueOf, Row!Arity, Row!Read, Row!Printable, Row!Text, Row!Integer, Row!Float, Row!Unlisted
<1>0. v \in Seq(Int) /\ v # Row!NULL
  BY DEF Row!NULL
<1>1. CASE t = "TINY"
  <2>1. Len(v) = 1 /\ v[1] \in Int /\ Half[1] \in Nat
    BY <1>1, OneValue, HalvesKnown
  <2>2. Row!Unsigned(v[1], 1) \in Int /\ (v[1] >= 0 => Row!Unsigned(v[1], 1) = v[1])
    BY <2>1 DEF Row!Unsigned, Row!Bytes
  <2>3. Row!Read(t, v) = <<Row!Unsigned(v[1], 1)>> /\ v = <<v[1]>> /\ Row!Text(t, v) = v
    BY <1>0, <1>1, <2>1, OfLength
  <2> QED
    BY <1>1, <2>2, <2>3
<1>2. CASE t \in {"SHORT", "LONG", "LONGLONG"}
  <2>1. PICK w : w = Row!Width(t)
    OBVIOUS
  <2>2. Len(v) = 1 /\ v[1] \in Int /\ Half[w] \in Nat /\ -Half[w] <= v[1]
    BY <1>2, <2>1, OneValue, HalvesKnown
  <2>3. PICK x \in Int : x = Row!Signed(v[1], w) /\ (v[1] < Half[w] => x = v[1])
    BY <2>2 DEF Row!Signed, Row!Bytes
  <2>4. Row!Read(t, v) = <<x>> /\ v = <<v[1]>> /\ Row!Text(t, v) = v
    BY <1>0, <1>2, <2>1, <2>2, <2>3, OfLength
  <2>5. Row!Printable(t, v) => x = v[1]
    BY <1>2, <2>1, <2>3
  <2>6. <<x>> \in Seq(Int)
    OBVIOUS
  <2>7. Row!Printable(t, v) => Row!Read(t, v) = v
    BY <2>4, <2>5
  <2> QED
    BY <2>4, <2>6, <2>7
<1>3. CASE t \in {"FLOAT", "DOUBLE"}
  <2>1. v = <<v[1], v[2]>> /\ Row!Text(t, v) = v
    BY <1>0, <1>3, TwoValues
  <2>0. Len(v) = 2 /\ \A i \in 1..2 : v[i] >= 0
    BY <1>3
  <2>2. v[1] \in Nat /\ v[2] \in Nat /\ Row!Line(t) \in Nat \ {0}
    BY <1>0, <1>3, <2>0 DEF Row!Line
  <2>3. PICK d \in Nat, i \in Nat : Row!Printed(t, v) = <<d, i>>
    BY <2>2 DEF Row!Printed, Row!Least
  <2>4. Row!Printable(t, v) => Row!Printed(t, v) = <<v[1], v[2]>>
    BY <1>3, <2>2 DEF Row!Printed, Row!Least
  <2>5. Row!Read(t, v) = Row!Printed(t, v) /\ <<d, i>> \in Seq(Int)
    BY <1>3, <2>3
  <2> HIDE DEF Row!Read, Row!Printable, Row!Text
  <2> QED
    BY <2>1, <2>3, <2>4, <2>5
<1>4. CASE t = "TIME"
  BY <1>0, <1>4, OfLength DEF Row!TimeRead
<1>5. CASE t = "DATETIME"
  BY <1>0, <1>5, OfLength DEF Row!DateTimeRead
<1>6. CASE t \in {"STRING", "DATE"}
  BY <1>0, <1>6
<1>7. CASE t \in {"INT24", "YEAR"}
  BY <1>7 DEF Row!Garbage
<1> QED
  BY <1>1, <1>2, <1>3, <1>4, <1>5, <1>6, <1>7 DEF Row!Types

LEMMA MovedRight ==
  ASSUME NEW t \in Row!Types, NEW v, Row!ValueOf(t, v)
  PROVE  /\ Row!Size(t, v) \in Nat
         /\ t \notin Row!Unlisted => Row!Moved(t, v) = Row!Size(t, v)
<1> USE DEF Row!ValueOf, Row!Arity, Row!Size, Row!Moved, Row!Integer, Row!Float, Row!Unlisted
<1>1. Row!Size(t, v) \in Nat
  BY HalvesKnown DEF Row!Header, Row!TimeLength, Row!DateTimeLength
<1>2. CASE t = "STRING"
  <2>1. v[1] \in Nat
    BY <1>2, OneValue
  <2>2. Row!Prefix(Row!FirstByte(v[1])) = Row!Header(v[1])
    BY <2>1 DEF Row!Prefix, Row!FirstByte, Row!Header
  <2> QED
    BY <1>1, <1>2, <2>2
<1> QED
  BY <1>1, <1>2

(* The first byte of a number, and the lengths it is taken for.               *)
LEMMA LengthsKnown ==
  /\ Misread \subseteq Nat \cup {-1}
  /\ \A t \in Row!Types : \A v : Row!ValueOf(t, v) /\ t \in Row!Unlisted =>
       /\ Row!Lengths(Row!Byte(t, v)) \subseteq Nat \cup {-1}
       /\ Row!Prefix(Row!Byte(t, v)) \in Nat \ {0}
<1>1. Misread \subseteq Nat \cup {-1}
  BY RowAssumed DEF Row!BinaryRowAssumption, Row!NullLength
<1>2. ASSUME NEW t \in Row!Types, NEW v, Row!ValueOf(t, v), t \in Row!Unlisted
      PROVE  Row!Byte(t, v) \in 0..255
  <2>1. PICK h \in Nat : h = Half[Row!Width(t)]
    BY HalvesKnown
  <2>2. v[1] \in Int
    BY <1>2, OneValue DEF Row!Unlisted, Row!Float
  <2>3. PICK b \in Int : b = Row!Bytes(v[1], Row!Width(t))
    BY <2>1, <2>2 DEF Row!Bytes
  <2> QED
    BY <2>3 DEF Row!Byte
<1> QED
  BY <1>1, <1>2 DEF Row!Lengths, Row!Prefix, Row!NullLength

LEMMA FilledRight ==
  ASSUME NEW p \in [text : Seq(Int), alloc : Nat, used : Nat],
         NEW x \in Seq(Int), NEW length \in Nat \cup {-1}
  PROVE  /\ Row!Filled(p, x, length) \in [text : Seq(Int), alloc : Nat, used : Nat]
         /\ Row!Filled(p, x, length).text = x
         /\ length \in Nat => Row!Filled(p, x, length).used <= Row!Filled(p, x, length).alloc
<1>1. Row!Room(p, length) \in Nat /\ (length \in Nat => length + 1 <= Row!Room(p, length))
  BY DEF Row!Room
<1>2. PICK room \in Nat, used \in Nat :
        /\ room = Row!Room(p, length) /\ (length \in Nat => used <= room)
        /\ used = IF length = -1 THEN Row!Room(p, length) + 1 ELSE length + 1
  BY <1>1
<1>3. Row!Filled(p, x, length) = [text |-> x, alloc |-> room, used |-> used]
  BY Zenon, <1>2 DEF Row!Filled, Row!NullLength
<1> QED
  BY <1>2, <1>3

(* What the server sends does not change, and is of the types it says.         *)
RowsKnown ==
  /\ \E r \in Results : fields = r.fields /\ Row!Rows = r.count
  /\ Row!Columns \in Nat /\ Row!Rows \in Nat
  /\ \A c \in 1..Row!Columns :
       /\ fields[c].type \in Row!Types
       /\ \A i \in 1..Row!Rows : rows[i][c] # Row!NULL => Row!ValueOf(fields[c].type, rows[i][c])

(* The reader is at its bit of the bitmap.                                   *)
AtItsBit == nulls = (j + 1) \div 8 /\ bit = Row!Power((j + 1) % 8)

PoolKnown == pool \in [1..Row!Columns -> [text : Seq(Int), alloc : Nat, used : Nat]]

RowInv ==
  /\ RowsKnown
  /\ rowno \in 1..Row!Rows + 1 /\ j \in 1..Row!Columns + 1 /\ place \in Nat /\ row \in Nat
  /\ AtItsBit /\ PoolKnown /\ Row!InStep /\ Row!ReadAsSent /\ Row!BufferHolds

LEMMA Powers ==
  ASSUME NEW i \in 0..7
  PROVE  /\ \A k \in 0..7 : Row!Power(i) = Row!Power(k) => i = k
         /\ i = 7 <=> Row!Power(i) = 128
         /\ i < 7 => Row!Power(i + 1) = 2 * Row!Power(i)
         /\ Row!Power(0) = 1 /\ Row!Power(2) = 4
BY DEF Row!Power

LEMMA RowTyped == RowInv => Row!TypeOK
<1> SUFFICES ASSUME RowInv PROVE Row!TypeOK
  OBVIOUS
<1>1. nulls \in Nat /\ (j + 1) % 8 \in 0..7
  BY DEF RowInv, AtItsBit, RowsKnown
<1> QED
  BY <1>1 DEF RowInv, RowsKnown, AtItsBit, PoolKnown, Row!TypeOK

(* The bitmap tells of the field to be read whether it is NULL.               *)
LEMMA BitTells ==
  ASSUME RowInv, rowno <= Row!Rows, j <= Row!Columns
  PROVE  Row!NullBit(rowno, nulls, bit) <=> rows[rowno][j] = Row!NULL
<1>1. j \in 1..Row!Columns
  BY DEF RowInv, RowsKnown
<1>2. rows[rowno][j] = Row!NULL => Row!NullBit(rowno, nulls, bit)
  BY <1>1 DEF RowInv, AtItsBit, Row!NullBit
<1>3. ASSUME NEW c \in 1..Row!Columns, nulls = (c + 1) \div 8, bit = Row!Power((c + 1) % 8)
      PROVE  c = j
  <2>1. c \in Nat /\ j \in Nat /\ (c + 1) % 8 \in 0..7 /\ (j + 1) % 8 \in 0..7
    BY <1>1 DEF RowInv, RowsKnown
  <2>2. (c + 1) % 8 = (j + 1) % 8
    BY <1>3, <2>1, Powers DEF RowInv, AtItsBit
  <2>3. (c + 1) \div 8 = (j + 1) \div 8
    BY <1>3 DEF RowInv, AtItsBit
  <2> QED
    BY <2>1, <2>2, <2>3
<1> QED
  BY <1>2, <1>3 DEF Row!NullBit

LEMMA NextBit ==
  ASSUME RowInv, Row!Shifted, j' = j + 1
  PROVE  AtItsBit'
<1>1. j \in Nat /\ (j + 1) % 8 \in 0..7
  BY DEF RowInv, RowsKnown
<1>2. PICK i \in 0..7 : i = (j + 1) % 8
  BY <1>1
<1>3. nulls = (j + 1) \div 8 /\ bit = Row!Power(i)
  BY <1>2 DEF RowInv, AtItsBit
<1>4. CASE i = 7
  <2>1. (j + 2) % 8 = 0 /\ (j + 2) \div 8 = (j + 1) \div 8 + 1
    BY <1>1, <1>2, <1>4
  <2>2. bit' = 1 /\ nulls' = nulls + 1
    BY <1>3, <1>4, Powers DEF Row!Shifted
  <2> QED
    BY <1>1, <1>3, <2>1, <2>2, Powers DEF AtItsBit
<1>5. CASE i # 7
  <2>1. (j + 2) % 8 = i + 1 /\ (j + 2) \div 8 = (j + 1) \div 8
    BY <1>1, <1>2, <1>5
  <2>2. bit' = 2 * bit /\ nulls' = nulls
    BY <1>3, <1>5, Powers DEF Row!Shifted
  <2>3. bit' = Row!Power(i + 1)
    BY <1>3, <1>5, <2>2, Powers
  <2> QED
    BY <1>1, <1>3, <2>1, <2>2, <2>3 DEF AtItsBit
<1> QED
  BY <1>4, <1>5

LEMMA RowStarts == Row!Init => RowInv
<1> SUFFICES ASSUME Row!Init PROVE RowInv
  OBVIOUS
<1> USE DEF Row!Init
<1>1. PICK r \in Results : fields = r.fields /\ rows \in [1..r.count -> Row!RowOf(r.fields)]
  OBVIOUS
<1>2. /\ r.count \in Nat /\ DOMAIN fields = 1..Row!Columns /\ Row!Columns \in Nat
      /\ \A c \in DOMAIN fields : /\ fields[c].type \in Row!Types
                                 /\ \A v \in fields[c].values : Row!ValueOf(fields[c].type, v)
  BY <1>1, RowAssumed DEF Row!BinaryRowAssumption, Row!Columns
<1>3. Row!Rows = r.count
  BY <1>1, <1>2 DEF Row!Rows
<1>4. ASSUME NEW i \in 1..Row!Rows, NEW c \in 1..Row!Columns, rows[i][c] # Row!NULL
      PROVE  Row!ValueOf(fields[c].type, rows[i][c])
  <2>1. rows[i] \in Row!RowOf(fields)
    BY <1>1, <1>3
  <2>2. rows[i][c] \in fields[c].values \cup {Row!NULL}
    BY <1>2, <2>1 DEF Row!RowOf
  <2> QED
    BY <1>2, <1>4, <2>2
<1>5. RowsKnown
  BY <1>1, <1>2, <1>3, <1>4 DEF RowsKnown
<1>6. Row!BitmapBytes \in Nat
  BY <1>2 DEF Row!BitmapBytes
<1>7. PoolKnown /\ Row!BufferHolds
  <2>1. Row!NULL \in Seq(Int)
    BY DEF Row!NULL
  <2> QED
    BY <1>2, <2>1 DEF PoolKnown, Row!BufferHolds, Row!Held
<1>8. AtItsBit
  BY Powers DEF AtItsBit
<1>9. Row!InStep /\ Row!ReadAsSent
  BY DEF Row!InStep, Row!ReadAsSent
<1> QED
  BY <1>2, <1>3, <1>5, <1>6, <1>7, <1>8, <1>9 DEF RowInv

(* What one turn of the loop does to pool and row.                           *)
TurnRight(v) ==
  /\ pool' \in [1..Row!Columns -> [text : Seq(Int), alloc : Nat, used : Nat]]
  /\ \A c \in 1..Row!Columns : c # j => pool'[c] = pool[c]
  /\ row' \in Nat
  /\ ~Row!Unhandled(j) =>
       /\ v = Row!NULL \/ fields[j].type \notin Row!Unlisted =>
            row' = Row!NextPlace /\ pool'[j].used <= pool'[j].alloc
       /\ v = Row!NULL \/ Row!Printable(fields[j].type, v) =>
            pool'[j].text = Row!Text(fields[j].type, v)

LEMMA NullTurn ==
  ASSUME RowInv, Row!Held, Row!ReadNull
  PROVE  TurnRight(rows[rowno][j])
<1> USE DEF Row!ReadNull
<1>1. rows[rowno][j] = Row!NULL /\ j \in 1..Row!Columns
  BY BitTells DEF RowInv, RowsKnown
<1>2. PICK p \in [text : Seq(Int), alloc : Nat, used : Nat] : p = pool[j] /\ p.used <= p.alloc
  BY <1>1 DEF RowInv, PoolKnown, Row!Held
<1>3. Row!NULL \in Seq(Int)
  BY DEF Row!NULL
<1>4. [p EXCEPT !.text = Row!NULL] \in [text : Seq(Int), alloc : Nat, used : Nat]
      /\ [p EXCEPT !.text = Row!NULL].text = Row!NULL
      /\ [p EXCEPT !.text = Row!NULL].used <= [p EXCEPT !.text = Row!NULL].alloc
  BY <1>2, <1>3
<1>5. pool' = [pool EXCEPT ![j] = [p EXCEPT !.text = Row!NULL]]
  BY <1>2
<1>6. /\ pool' \in [1..Row!Columns -> [text : Seq(Int), alloc : Nat, used : Nat]]
      /\ \A c \in 1..Row!Columns : c # j => pool'[c] = pool[c]
      /\ pool'[j] = [p EXCEPT !.text = Row!NULL]
  BY <1>1, <1>4, <1>5 DEF RowInv, PoolKnown
<1>7. ~Row!Unhandled(j) => row' = Row!NextPlace
  BY <1>1 DEF RowInv, Row!InStep, Row!NextPlace
<1>8. Row!Text(fields[j].type, rows[rowno][j]) = Row!NULL
  BY <1>1 DEF Row!Text
<1> QED
  BY <1>1, <1>4, <1>6, <1>7, <1>8 DEF TurnRight, RowInv

LEMMA FieldTurn ==
  ASSUME RowInv, Row!ReadField
  PROVE  TurnRight(rows[rowno][j])
<1> DEFINE t == fields[j].type
           v == rows[rowno][j]
<1>1. v # Row!NULL /\ j \in 1..Row!Columns /\ rowno \in 1..Row!Rows /\ t \notin Row!Unlisted /\ row = place
  BY BitTells DEF RowInv, RowsKnown, Row!ReadField
<1>2. t \in Row!Types /\ Row!ValueOf(t, v)
  BY <1>1 DEF RowInv, RowsKnown
<1>3. PICK p \in [text : Seq(Int), alloc : Nat, used : Nat] : p = pool[j]
  BY <1>1 DEF RowInv, PoolKnown
<1>4. row \in Nat /\ pool \in [1..Row!Columns -> [text : Seq(Int), alloc : Nat, used : Nat]]
  BY DEF RowInv, PoolKnown
<1>5. PICK length \in Nat : length = IF Row!Sized(t) THEN v[1] ELSE 0
  <2>1. Row!Sized(t) => v[1] \in Nat
    BY <1>1, <1>2, OneValue DEF Row!Sized, Row!Unlisted, Row!Integer, Row!Float
  <2> QED
    BY <2>1
<1>6. PICK x \in Seq(Int) : x = Row!Read(t, v) /\ (Row!Printable(t, v) => x = Row!Text(t, v))
  BY <1>2, ReadRight
<1>7. PICK q \in [text : Seq(Int), alloc : Nat, used : Nat] :
        q = Row!Filled(p, x, length) /\ q.text = x /\ q.used <= q.alloc
  BY FilledRight
<1>8. pool' = [pool EXCEPT ![j] = q] /\ row' = row + Row!Moved(t, v)
  BY <1>3, <1>5, <1>6, <1>7 DEF Row!ReadField
<1>9. /\ pool' \in [1..Row!Columns -> [text : Seq(Int), alloc : Nat, used : Nat]]
      /\ \A c \in 1..Row!Columns : c # j => pool'[c] = pool[c]
      /\ pool'[j] = q
  BY <1>1, <1>4, <1>8
<1>10. row' \in Nat /\ row' = Row!NextPlace
  BY <1>1, <1>2, <1>4, <1>8, MovedRight DEF Row!NextPlace
<1> QED
  BY <1>1, <1>6, <1>7, <1>9, <1>10 DEF TurnRight

(* A string of whatever length disturbs no column but its own.                *)
LEMMA WildTurn ==
  ASSUME RowInv, rowno <= Row!Rows, j <= Row!Columns, ~Row!NullBit(rowno, nulls, bit),
         NEW length \in Nat \cup {-1},
         pool' = [pool EXCEPT ![j] = Row!Filled(@, Row!Garbage, length)],
         row' \in Nat,
         Row!Unhandled(j) \/ fields[j].type \in Row!Unlisted
  PROVE  TurnRight(rows[rowno][j])
<1>1. rows[rowno][j] # Row!NULL /\ j \in 1..Row!Columns /\ rowno \in 1..Row!Rows
  BY BitTells DEF RowInv, RowsKnown
<1>2. PICK p \in [text : Seq(Int), alloc : Nat, used : Nat] : p = pool[j]
  BY <1>1 DEF RowInv, PoolKnown
<1>3. Row!Garbage \in Seq(Int)
  BY DEF Row!Garbage
<1>4. PICK q \in [text : Seq(Int), alloc : Nat, used : Nat] : q = Row!Filled(p, Row!Garbage, length)
  BY <1>2, <1>3, FilledRight
<1>5. pool' = [pool EXCEPT ![j] = q]
  BY <1>2, <1>4
<1>6. /\ pool' \in [1..Row!Columns -> [text : Seq(Int), alloc : Nat, used : Nat]]
      /\ \A c \in 1..Row!Columns : c # j => pool'[c] = pool[c]
  BY <1>1, <1>5 DEF RowInv, PoolKnown
<1>7. fields[j].type \in Row!Unlisted => ~Row!Printable(fields[j].type, rows[rowno][j])
  BY DEF Row!Printable, Row!Unlisted, Row!Float
<1> QED
  BY <1>1, <1>6, <1>7 DEF TurnRight

LEMMA StringTurn ==
  ASSUME RowInv, Row!ReadAsString
  PROVE  TurnRight(rows[rowno][j])
<1>1. rows[rowno][j] # Row!NULL /\ j \in 1..Row!Columns /\ rowno \in 1..Row!Rows
      /\ fields[j].type \in Row!Unlisted
  BY BitTells DEF RowInv, RowsKnown, Row!ReadAsString
<1>2. fields[j].type \in Row!Types /\ Row!ValueOf(fields[j].type, rows[rowno][j])
  BY <1>1 DEF RowInv, RowsKnown
<1>3. PICK b : b = Row!Byte(fields[j].type, rows[rowno][j])
  OBVIOUS
<1>4. Row!Lengths(b) \subseteq Nat \cup {-1} /\ Row!Prefix(b) \in Nat \ {0}
  BY <1>1, <1>2, <1>3, LengthsKnown
<1>5. PICK length \in Row!Lengths(b) :
        /\ pool' = [pool EXCEPT ![j] = Row!Filled(@, Row!Garbage, length)]
        /\ row' = row + Row!Prefix(b) + length
  BY <1>3 DEF Row!ReadAsString
<1>6. row' \in Nat
  BY <1>4, <1>5 DEF RowInv
<1> QED
  BY <1>1, <1>4, <1>5, <1>6, WildTurn DEF Row!ReadAsString

LEMMA AstrayTurn ==
  ASSUME RowInv, Row!ReadAstray
  PROVE  TurnRight(rows[rowno][j])
<1>1. rows[rowno][j] # Row!NULL /\ j \in 1..Row!Columns /\ rowno \in 1..Row!Rows /\ row # place
  BY BitTells DEF RowInv, RowsKnown, Row!ReadAstray
<1>2. Row!Unhandled(j)
  BY <1>1 DEF RowInv, RowsKnown, Row!InStep
<1>3. PICK length \in Misread :
        /\ pool' = [pool EXCEPT ![j] = Row!Filled(@, Row!Garbage, IF Row!Sized(fields[j].type) THEN length ELSE 0)]
        /\ row' = row + 1 + length
  BY DEF Row!ReadAstray
<1>4. length \in Nat \cup {-1} /\ row' \in Nat
  BY <1>3, LengthsKnown DEF RowInv
<1>5. PICK k \in Nat \cup {-1} : k = IF Row!Sized(fields[j].type) THEN length ELSE 0
  BY <1>4
<1> QED
  BY <1>2, <1>3, <1>4, <1>5, WildTurn DEF Row!ReadAstray

LEMMA FetchColumnKeeps ==
  ASSUME RowInv, Row!FetchColumn
  PROVE  RowInv'
<1> DEFINE t == fields[j].type
           v == rows[rowno][j]
<1>1. /\ TurnRight(v) /\ rowno \in 1..Row!Rows /\ j \in 1..Row!Columns
      /\ j' = j + 1 /\ place' = Row!NextPlace
      /\ UNCHANGED <<fields, rows, rowno>>
  <2>1. rowno <= Row!Rows /\ j <= Row!Columns
    BY DEF Row!FetchColumn, Row!ReadNull, Row!ReadField, Row!ReadAsString, Row!ReadAstray
  <2>2. TurnRight(v)
    BY NullTurn, FieldTurn, StringTurn, AstrayTurn DEF Row!FetchColumn
  <2> QED
    BY <2>1, <2>2 DEF Row!FetchColumn, RowInv, RowsKnown
<1>2. /\ Row!Columns' = Row!Columns /\ Row!Rows' = Row!Rows /\ Row!Columns \in Nat /\ j \in Nat
      /\ \A c : Row!Unhandled(c)' = Row!Unhandled(c)
  BY <1>1 DEF Row!Columns, Row!Rows, Row!Unhandled, RowInv, RowsKnown
<1>2a. \A c \in 1..Row!Columns : pool[c].used <= pool[c].alloc
  BY DEF Row!FetchColumn, Row!Held
<1>3. t \in Row!Types /\ (v # Row!NULL => Row!ValueOf(t, v))
  BY <1>1 DEF RowInv, RowsKnown
<1>4. Row!Unhandled(j + 1) <=> Row!Unhandled(j) \/ (t \in Row!Unlisted /\ v # Row!NULL)
  <2>1. \A b : b \in 1..j + 1 - 1 <=> b \in 1..j - 1 \/ b = j
    BY <1>1, <1>2
  <2> QED
    BY <2>1 DEF Row!Unhandled
<1>5. RowsKnown'
  BY <1>1, <1>2 DEF RowInv, RowsKnown
<1>6. rowno' \in 1..Row!Rows' + 1 /\ j' \in 1..Row!Columns' + 1 /\ row' \in Nat
  BY <1>1, <1>2 DEF TurnRight, RowInv
<1>7. place' \in Nat
  BY <1>1, <1>3, MovedRight DEF RowInv, Row!NextPlace
<1>8. AtItsBit'
  BY <1>1, NextBit DEF Row!FetchColumn
<1>9. PoolKnown' /\ Row!BufferHolds'
  <2>1. pool' \in [1..Row!Columns -> [text : Seq(Int), alloc : Nat, used : Nat]]
    BY <1>1 DEF TurnRight
  <2>2. ASSUME NEW c \in 1..Row!Columns, ~Row!Unhandled(j + 1)
        PROVE  pool'[c].used <= pool'[c].alloc
    BY <1>1, <1>2a, <1>4, <2>2 DEF TurnRight
  <2>3. PoolKnown'
    BY <1>2, <2>1 DEF PoolKnown
  <2>4. ~Row!Unhandled(j + 1) => Row!Held'
    BY <1>2, <2>2 DEF Row!Held
  <2>5. Row!Unhandled(j)' <=> Row!Unhandled(j + 1)
    BY <1>1 DEF Row!Unhandled
  <2>6. rowno' <= Row!Rows'
    BY <1>1, <1>2 DEF RowInv, RowsKnown
  <2> QED
    BY <2>3, <2>4, <2>5, <2>6 DEF Row!BufferHolds
<1>10. Row!InStep'
  <2>1. ~Row!Unhandled(j + 1) => row' = Row!NextPlace
    BY <1>1, <1>4 DEF TurnRight
  <2> QED
    BY <1>1, <1>2, <2>1 DEF Row!InStep
<1>11. Row!ReadAsSent'
  <2>1. ASSUME NEW c \in 1..j, ~Row!Unhandled(c),
               rows[rowno][c] # Row!NULL => Row!Printable(fields[c].type, rows[rowno][c])
        PROVE  pool'[c].text = Row!Text(fields[c].type, rows[rowno][c])
    <3>1. CASE c = j
      BY <1>1, <2>1, <3>1 DEF TurnRight
    <3>2. CASE c # j
      <4>1. c \in 1..j - 1 /\ c \in 1..Row!Columns
        BY <1>1, <1>2, <3>2
      <4>2. pool'[c] = pool[c]
        BY <1>1, <3>2, <4>1 DEF TurnRight
      <4> QED
        BY <1>1, <2>1, <4>1, <4>2 DEF RowInv, Row!ReadAsSent
    <3> QED
      BY <3>1, <3>2
  <2>2. 1..j' - 1 = 1..j
    BY <1>1, <1>2
  <2> QED
    BY <1>1, <1>2, <2>1, <2>2 DEF Row!ReadAsSent
<1> QED
  BY <1>5, <1>6, <1>7, <1>8, <1>9, <1>10, <1>11 DEF RowInv

LEMMA NextRowKeeps ==
  ASSUME RowInv, Row!NextRow
  PROVE  RowInv'
<1> USE DEF Row!NextRow
<1>1. Row!Columns' = Row!Columns /\ Row!Rows' = Row!Rows /\ Row!Columns \in Nat /\ Row!Rows \in Nat
  BY DEF Row!Columns, Row!Rows, RowInv, RowsKnown
<1>2. RowsKnown' /\ PoolKnown' /\ Row!BufferHolds'
  BY <1>1 DEF RowInv, RowsKnown, PoolKnown, Row!BufferHolds, Row!Held
<1>3. rowno' \in 1..Row!Rows + 1 /\ j' \in 1..Row!Columns + 1 /\ Row!BitmapBytes \in Nat
  BY <1>1 DEF RowInv, Row!BitmapBytes
<1>4. AtItsBit'
  BY Powers DEF AtItsBit
<1>5. Row!InStep' /\ Row!ReadAsSent'
  BY DEF Row!InStep, Row!ReadAsSent
<1> QED
  BY <1>1, <1>2, <1>3, <1>4, <1>5 DEF RowInv

LEMMA RowUnmoved == RowInv /\ UNCHANGED Row!vars => RowInv'
BY DEF Row!vars, RowInv, RowsKnown, AtItsBit, PoolKnown, Row!BufferHolds, Row!Held, Row!InStep,
       Row!ReadAsSent, Row!Columns, Row!Rows, Row!Unhandled

LEMMA RowHolds == Spec => []RowInv
<1>1. Init => RowInv
  BY RowStarts DEF Init, RowRests
<1>2. RowInv /\ [Next]_vars => RowInv'
  BY OneMoves, FetchColumnKeeps, NextRowKeeps, RowUnmoved DEF Row!Next
<1> QED
  BY <1>1, <1>2, PTL DEF Spec

(* In every row, up to the first INT24 or YEAR that is not NULL, each field is   *)
(* read from where the server has put it, into a buffer that holds it, and   *)
(* as it was sent if its function prints it whole: such columns have none,   *)
(* and are read as strings (binary_result.cc:116-192, 240-307).             *)
THEOREM FieldsReadAsSent == Spec => []ReadAsSent
<1>1. RowInv => ReadAsSent
  BY DEF RowInv, ReadAsSent
<1> QED
  BY <1>1, RowHolds, PTL

-----------------------------------------------------------------------------
(* The rewriting of placeholders.                                            *)
Holders   == Query!PlaceholdersOf(query)
ToReplace == {i \in Holders : query[i].is \in Query!Rewritten}

(* What the code puts for a placeholder, and the query rewritten at D.        *)
Put(i) == IF driver = "pg" THEN Query!Number(Query!Rank(Holders, i)) ELSE Query!Plain("qmark")

Halfway(i, D) == IF i \in D THEN Put(i) ELSE query[i]

RewrittenAt(D) ==
  /\ Len(text) = Len(query)
  /\ \A i \in 1..Len(query) : text[i] = Halfway(i, D)

(* The placeholders are numbered from the left.                              *)
FromLeft(D) ==
  driver = "pg" => /\ n = Cardinality(D)
                   /\ \A i \in D, k \in Holders : k < i => k \in D

(* The values are put in from the left: up to place k the text is as meant,   *)
(* and the rest is the rewritten query from there.                           *)
InterpolatedTo(k) ==
  /\ Len(text) = k /\ \A i \in 1..k : text[i] = Query!Meant[i]
  /\ Len(rest) = Len(query) - k
  /\ \A i \in 1..Len(rest) : rest[i] = Halfway(k + i, ToReplace)
  /\ n = Query!Rank(Holders, k)

WhileRewriting ==
  phase = "rewriting" => \E D \in SUBSET ToReplace : RewrittenAt(D) /\ FromLeft(D)

WhenSent ==
  phase = "at_server" =>
    RewrittenAt(IF Query!Preprocessed(driver, call, bound) THEN ToReplace ELSE {})

WhileInterpolating ==
  phase = "interpolating" =>
    driver = "mysql" /\ Query!Interpolated /\ (Query!Matching => \E k \in 0..Len(query) : InterpolatedTo(k))

QueryInv ==
  /\ Query!TypeOK
  /\ ~bound => values = 0
  /\ phase = "rewriting" => Query!Preprocessed(driver, call, bound)
  /\ Query!Careful => WhileRewriting /\ WhenSent /\ WhileInterpolating
  /\ Query!RunAsMeant /\ Query!RefusedRightly

LEMMA QueryAssumed == Query!PlaceholdersAssumption
BY ValuesAssumption

LEMMA Counting == \A S : Query!Cardinality(S) = Cardinality(S)
BY Zenon DEF Query!Cardinality, Cardinality

LEMMA Smallest ==
  ASSUME NEW T, T \subseteq Nat, T # {}
  PROVE  Query!Min(T) \in T /\ \A y \in T : Query!Min(T) <= y
<1> DEFINE R == {xy \in Nat \X Nat : xy[1] < xy[2]}
<1>1. IsWellFoundedOn(R, Nat)
  BY NatLessThanWellFounded DEF OpToRel
<1>2. \A x, y \in Nat : x < y => <<x, y>> \in R
  OBVIOUS
<1> HIDE DEF R
<1>3. PICK x \in T : \A y \in T : ~(<<y, x>> \in R)
  BY <1>1, WFMin, Zenon
<1>4. \A y \in T : y \in Nat /\ x \in Nat /\ ~(y < x)
  BY <1>2, <1>3
<1>5. \A y \in T : x <= y
  BY <1>4
<1> QED
  BY <1>5 DEF Query!Min

(* Places of a text are counted in natural numbers.                          *)
LEMMA RankKnown ==
  ASSUME NEW l \in Nat, NEW S, S \subseteq 1..l
  PROVE  /\ IsFiniteSet(S) /\ Cardinality(S) \in Nat
         /\ \A k : Query!Rank(S, k) \in Nat
         /\ \A k : Query!Rank(S, k) = Cardinality({i \in S : i <= k})
<1>1. IsFiniteSet(1..l)
  BY FS_Interval
<1>2. IsFiniteSet(S) /\ \A k : IsFiniteSet({i \in S : i <= k})
  BY <1>1, FS_Subset
<1> QED
  BY <1>2, FS_CardinalityType, Counting DEF Query!Rank

LEMMA RankBounded ==
  ASSUME NEW l \in Nat, NEW S, S \subseteq 1..l
  PROVE  \A k : Query!Rank(S, k) <= Cardinality(S)
<1>1. IsFiniteSet(S) /\ \A k : Query!Rank(S, k) = Cardinality({i \in S : i <= k})
  BY RankKnown
<1> TAKE k
<1>2. {i \in S : i <= k} \in SUBSET S
  OBVIOUS
<1>3. Cardinality({i \in S : i <= k}) <= Cardinality(S)
  BY <1>1, <1>2, FS_Subset
<1> QED
  BY <1>1, <1>3

(* One more is counted at a member, and none between two.                    *)
LEMMA RankSteps ==
  ASSUME NEW l \in Nat, NEW S, S \subseteq 1..l, NEW k \in Nat, NEW i \in Nat, k <= i
  PROVE  /\ (\A h \in S : h <= k \/ i < h) => Query!Rank(S, i) = Query!Rank(S, k)
         /\ i \in S /\ k < i /\ (\A h \in S : h <= k \/ i <= h) =>
              Query!Rank(S, i) = Query!Rank(S, k) + 1
         /\ (\A h \in S : h <= k) => Query!Rank(S, k) = Cardinality(S)
         /\ i \in S /\ k < i => Query!Rank(S, k) < Cardinality(S)
         /\ Query!Rank(S, 0) = 0
<1> DEFINE Upto(h) == {g \in S : g <= h}
<1>0. S \subseteq Nat /\ IsFiniteSet(S) /\ Cardinality(S) \in Nat
  <2>1. S \subseteq Nat
    OBVIOUS
  <2> QED
    BY <2>1, RankKnown, Zenon
<1>1. ASSUME NEW h \in Nat
      PROVE  Query!Rank(S, h) = Cardinality(Upto(h)) /\ Cardinality(Upto(h)) \in Nat
  BY RankKnown
<1>2. IsFiniteSet(Upto(k)) /\ Upto(k) \in SUBSET S
  BY <1>0, <1>1, FS_Subset
<1>3. ASSUME \A h \in S : h <= k \/ i < h PROVE Query!Rank(S, i) = Query!Rank(S, k)
  <2>1. \A g \in S : g <= i <=> g <= k
    BY <1>0, <1>3
  <2> QED
    BY <1>0, <1>1, <2>1
<1>4. ASSUME i \in S, k < i, \A h \in S : h <= k \/ i <= h
      PROVE  Query!Rank(S, i) = Query!Rank(S, k) + 1
  <2>1. \A g \in S : g <= i <=> (g <= k \/ g = i)
    BY <1>0, <1>4
  <2>3. Upto(i) = Upto(k) \cup {i} /\ i \notin Upto(k)
    <3>1. \A g : g \in Upto(i) <=> g \in Upto(k) \cup {i}
      BY <1>4, <2>1, Zenon
    <3>2. i \notin Upto(k)
      BY <1>4
    <3> QED
      BY <3>1, <3>2, Zenon
  <2>2. Cardinality(Upto(k) \cup {i}) = Cardinality(Upto(k)) + 1
    BY <1>2, <2>3, FS_AddElement
  <2> QED
    BY <1>0, <1>1, <2>3, <2>2
<1>5. ASSUME \A h \in S : h <= k PROVE Query!Rank(S, k) = Cardinality(S)
  <2>1. Upto(k) = S
    BY <1>5
  <2> QED
    BY <1>0, <1>1, <2>1
<1>6. ASSUME i \in S, k < i PROVE Query!Rank(S, k) < Cardinality(S)
  <2>1. i \notin Upto(k)
    BY <1>0, <1>1, <1>6
  <2>2. Cardinality(Upto(k)) <= Cardinality(S) /\ Cardinality(S) # Cardinality(Upto(k))
    BY <1>0, <1>1, <1>2, <1>6, <2>1, FS_Subset
  <2> QED
    BY <1>0, <1>1, <2>2
<1>7. Query!Rank(S, 0) = 0
  <2>1. Upto(0) = {}
    <3>1. \A g \in S : ~(g <= 0)
      OBVIOUS
    <3> QED
      BY <3>1
  <2> QED
    BY <1>0, <1>1, <2>1, FS_EmptySet
<1> QED
  BY <1>3, <1>4, <1>5, <1>6, <1>7

LEMMA RankSame ==
  ASSUME NEW l \in Nat, NEW S, S \subseteq 1..l, NEW k \in Nat, NEW i \in Nat, k <= i,
         \A h \in S : h <= k \/ i < h
  PROVE  Query!Rank(S, i) = Query!Rank(S, k)
BY RankSteps, Zenon

LEMMA RankNext ==
  ASSUME NEW l \in Nat, NEW S, S \subseteq 1..l, NEW k \in Nat, NEW i \in S, i \in Nat, k <= i, k < i,
         \A h \in S : h <= k \/ i <= h
  PROVE  Query!Rank(S, i) = Query!Rank(S, k) + 1
BY RankSteps, Zenon

LEMMA RankLess ==
  ASSUME NEW l \in Nat, NEW S, S \subseteq 1..l, NEW k \in Nat, NEW i \in S, i \in Nat, k <= i, k < i
  PROVE  Query!Rank(S, k) < Cardinality(S)
BY RankSteps, Zenon

LEMMA RankAll ==
  ASSUME NEW l \in Nat, NEW S, S \subseteq 1..l, NEW k \in Nat, \A h \in S : h <= k
  PROVE  Query!Rank(S, k) = Cardinality(S)
<1>1. k <= k
  OBVIOUS
<1> QED
  BY <1>1, RankSteps, Zenon

(* What is in a literal, or touches a quote, depends on the quotes alone.     *)
LEMMA SameQuotes ==
  ASSUME NEW s, NEW u, Len(s) = Len(u), Len(s) \in Nat,
         \A k \in 1..Len(s) : s[k].is = "quote" <=> u[k].is = "quote",
         NEW i \in 1..Len(s)
  PROVE  /\ Query!InLiteral(s, i) <=> Query!InLiteral(u, i)
         /\ Query!Touches(s, i) <=> Query!Touches(u, i)
<1>1. {k \in 1..i - 1 : s[k].is = "quote"} = {k \in 1..i - 1 : u[k].is = "quote"}
  OBVIOUS
<1>2. Query!InLiteral(s, i) <=> Query!InLiteral(u, i)
  BY <1>1 DEF Query!InLiteral
<1>3. Query!Touches(s, i) <=> Query!Touches(u, i)
  BY DEF Query!Touches
<1> QED
  BY <1>2, <1>3

LEMMA QueryKnown ==
  ASSUME Query!TypeOK
  PROVE  /\ Len(query) \in Nat /\ DOMAIN query = 1..Len(query)
         /\ Holders \subseteq 1..Len(query) /\ ToReplace \subseteq Holders
         /\ \A i \in 1..Len(query) :
              /\ query[i] \in Query!Written /\ query[i] \in Query!Tokens
              /\ query[i].is \in {"qmark", "format", "quote", "other"}
              /\ i \in Holders <=> query[i].is \in Query!Marks /\ ~Query!InLiteral(query, i)
              /\ i \in ToReplace <=> i \in Holders /\ query[i].is \in Query!Rewritten
<1>1. Len(query) \in Nat /\ DOMAIN query = 1..Len(query)
  BY DEF Query!TypeOK
<1>2. \A i \in 1..Len(query) : query[i] \in Query!Written
  BY DEF Query!TypeOK
<1>3. \A q \in Query!Written : q \in Query!Tokens /\ q.is \in {"qmark", "format", "quote", "other"}
  BY DEF Query!Written, Query!Tokens
<1>4. \A i \in 1..Len(query) :
        i \in Holders <=> query[i].is \in Query!Marks /\ ~Query!InLiteral(query, i)
  BY <1>1 DEF Holders, Query!PlaceholdersOf
<1>5. Holders \subseteq 1..Len(query) /\ ToReplace \subseteq Holders
  BY <1>1 DEF Holders, ToReplace, Query!PlaceholdersOf
<1> QED
  BY <1>1, <1>2, <1>3, <1>4, <1>5 DEF ToReplace

LEMMA PutKnown ==
  ASSUME Query!TypeOK, NEW i
  PROVE  /\ Put(i) \in Query!Tokens
         /\ Put(i).is = IF driver = "pg" THEN "number" ELSE "qmark"
<1>1. Query!Rank(Holders, i) \in Nat
  BY QueryKnown, RankKnown
<1> QED
  BY <1>1 DEF Put, Query!Number, Query!Plain, Query!Tokens

LEMMA SameQuery ==
  ASSUME UNCHANGED <<driver, call, bound, values, query>>
  PROVE  /\ Query!Careful' = Query!Careful /\ Query!Matching' = Query!Matching
         /\ Query!Interpolated' = Query!Interpolated /\ Query!Meant' = Query!Meant
         /\ Query!Uncounted' = Query!Uncounted
         /\ Holders' = Holders /\ ToReplace' = ToReplace
         /\ \A i, D : Halfway(i, D)' = Halfway(i, D)
<1>1. Holders' = Holders /\ ToReplace' = ToReplace
  BY DEF Holders, ToReplace, Query!Rewritten
<1>2. /\ Query!Careful' = Query!Careful /\ Query!Interpolated' = Query!Interpolated
      /\ Query!Uncounted' = Query!Uncounted
  BY DEF Query!Careful, Query!Interpolated, Query!Uncounted
<1>3. Query!Matching' = Query!Matching /\ Query!Meant' = Query!Meant
  BY DEF Query!Matching, Query!Meant
<1> QED
  BY <1>1, <1>2, <1>3 DEF Halfway, Put

(* A rewritten query has its quotes where they were.                         *)
LEMMA QuotesStay ==
  ASSUME Query!TypeOK, NEW D, D \subseteq ToReplace, RewrittenAt(D)
  PROVE  \A i \in 1..Len(query) :
           /\ Query!InLiteral(text, i) <=> Query!InLiteral(query, i)
           /\ Query!Touches(text, i) <=> Query!Touches(query, i)
<1>1. ASSUME NEW i \in 1..Len(query) PROVE text[i].is = "quote" <=> query[i].is = "quote"
  <2>1. CASE i \in D
    <3>1. text[i].is # "quote"
      BY <2>1, PutKnown DEF RewrittenAt, Halfway
    <3>2. query[i].is # "quote"
      BY <2>1, QueryKnown DEF Query!Marks
    <3> QED
      BY <3>1, <3>2
  <2>2. CASE i \notin D
    BY <2>2 DEF RewrittenAt, Halfway
  <2> QED
    BY <2>1, <2>2
<1>2. Len(text) = Len(query) /\ Len(text) \in Nat
  BY QueryKnown DEF RewrittenAt
<1> QED
  BY <1>1, <1>2, SameQuotes

(* What a careful client's query has left to rewrite.                        *)
LEMMA MatchesLeft ==
  ASSUME Query!TypeOK, Query!Careful, NEW D, D \subseteq ToReplace, RewrittenAt(D)
  PROVE  Query!Matches = ToReplace \ D
<1>1. DOMAIN text = 1..Len(query)
  BY DEF Query!TypeOK, RewrittenAt
<1>2. ASSUME NEW i \in 1..Len(query)
      PROVE  text[i].is \in Query!Rewritten /\ ~Query!Touches(text, i) <=> i \in ToReplace /\ i \notin D
  <2>1. CASE i \in D
    <3>1. text[i].is \notin Query!Rewritten
      BY <2>1, PutKnown DEF RewrittenAt, Halfway, Query!Rewritten, Query!Marks
    <3> QED
      BY <2>1, <3>1
  <2>2. CASE i \notin D
    <3>1. text[i] = query[i]
      BY <2>2 DEF RewrittenAt, Halfway
    <3>2. query[i].is \in Query!Rewritten => query[i].is \in Query!Marks
      BY DEF Query!Rewritten, Query!Marks
    <3>3. query[i].is \in Query!Marks => (Query!InLiteral(query, i) <=> Query!Touches(query, i))
      BY QueryKnown DEF Query!Careful
    <3> QED
      BY <2>2, <3>1, <3>2, <3>3, QuotesStay, QueryKnown
  <2> QED
    BY <2>1, <2>2
<1>3. \A i : i \in Query!Matches <=> i \in ToReplace \ D
  BY <1>1, <1>2, QueryKnown DEF Query!Matches
<1> QED
  BY <1>3

LEMMA RewriteFirstKeeps ==
  ASSUME QueryInv, Query!RewriteFirst
  PROVE  QueryInv'
<1> USE DEF Query!RewriteFirst
<1>1. /\ Query!TypeOK /\ Query!Preprocessed(driver, call, bound) /\ (~bound => values = 0)
      /\ phase = "rewriting" /\ phase' = "rewriting"
      /\ UNCHANGED <<driver, call, bound, values, query>>
  BY DEF QueryInv
<1>2. PICK m \in 1..Len(text) :
        m = Query!Min(Query!Matches) /\ m \in Query!Matches /\ \A i \in Query!Matches : m <= i
  <2>1. Query!Matches \subseteq 1..Len(text) /\ Query!Matches # {}
    BY <1>1 DEF Query!Matches, Query!TypeOK
  <2>2. 1..Len(text) \subseteq Nat
    BY <1>1 DEF Query!TypeOK
  <2> QED
    BY <2>1, <2>2, Smallest
<1>3. text' = [text EXCEPT ![m] = Query!Replacement]
  BY <1>2
<1>4. Query!Replacement \in Query!Tokens /\ n' \in Nat
  <2>1. n \in Nat /\ n + 1 \in Nat
    BY <1>1 DEF Query!TypeOK
  <2>2. n' \in Nat
    BY <2>1
  <2>3. Query!Replacement \in Query!Tokens
    BY <2>1 DEF Query!Replacement, Query!Number, Query!Plain, Query!Tokens
  <2> QED
    BY <2>2, <2>3
<1>5. Len(text') = Len(text) /\ text' \in Seq(Query!Tokens) /\ text'[m] = Query!Replacement
      /\ \A i \in 1..Len(text) : i # m => text'[i] = text[i]
  BY <1>1, <1>2, <1>3, <1>4 DEF Query!TypeOK
<1>6. Query!TypeOK'
  BY <1>1, <1>4, <1>5 DEF Query!TypeOK
<1>7. ASSUME Query!Careful
      PROVE  \E D \in SUBSET ToReplace : RewrittenAt(D)' /\ FromLeft(D)'
  <2>1. PICK D \in SUBSET ToReplace : RewrittenAt(D) /\ FromLeft(D)
    BY <1>1, <1>7 DEF QueryInv, WhileRewriting
  <2>2. m \in ToReplace \ D /\ \A i \in ToReplace : i \in D \/ m <= i
    BY <1>1, <1>2, <1>7, <2>1, MatchesLeft
  <2>3. Holders \subseteq 1..Len(query) /\ ToReplace \subseteq Holders /\ Len(query) \in Nat
    BY <1>1, QueryKnown
  <2>4. IsFiniteSet(D) /\ Cardinality(D) \in Nat
    BY <2>1, <2>3, RankKnown
  <2>5. Cardinality(D \cup {m}) = Cardinality(D) + 1
    BY <2>2, <2>4, FS_AddElement
  <2>6. ASSUME driver = "pg"
        PROVE  /\ n = Cardinality(D) /\ Query!Rank(Holders, m) = n + 1
               /\ \A i \in D \cup {m}, k \in Holders : k < i => k \in D \cup {m}
    <3>1. ToReplace = Holders
      BY <1>1, <2>6, QueryKnown DEF Query!Rewritten
    <3>2. \A i \in Holders : i \in Nat /\ m \in Nat
      BY <1>2, <2>2, <2>3
    <3>3. \A i \in D : i < m
      BY <2>1, <2>2, <2>6, <3>1, <3>2 DEF FromLeft
    <3>4. \A i \in Holders : i <= m <=> i \in D \cup {m}
      BY <2>1, <2>2, <3>1, <3>2, <3>3
    <3>5. {i \in Holders : i <= m} = D \cup {m}
      BY <2>1, <2>2, <3>1, <3>4
    <3>6. Query!Rank(Holders, m) = Cardinality(D) + 1
      BY <2>5, <3>5, Counting DEF Query!Rank
    <3>7. n = Cardinality(D) /\ \A i \in D, k \in Holders : k < i => k \in D
      BY <2>1, <2>6 DEF FromLeft
    <3>8. \A k \in Holders : k < m => k \in D
      BY <2>2, <3>1, <3>2
    <3> QED
      BY <3>6, <3>7, <3>8
  <2>7. Query!Replacement = Put(m)
    BY <2>6 DEF Query!Replacement, Put
  <2>8. \A i \in 1..Len(query) : text'[i] = Halfway(i, D \cup {m})
    <3>1. Len(text) = Len(query) /\ \A i \in 1..Len(query) : text[i] = Halfway(i, D)
      BY <2>1 DEF RewrittenAt
    <3> QED
      BY <1>5, <2>7, <3>1 DEF Halfway
  <2>9. RewrittenAt(D \cup {m})'
    <3>1. Len(text') = Len(query)
      BY <1>5, <2>1 DEF RewrittenAt
    <3>2. \A i, E : Halfway(i, E)' = Halfway(i, E)
      BY <1>1, SameQuery
    <3> QED
      BY <1>1, <2>8, <3>1, <3>2 DEF RewrittenAt
  <2>10. FromLeft(D \cup {m})'
    <3>1. Holders' = Holders
      BY <1>1, SameQuery
    <3>2. driver = "pg" => n' = Cardinality(D \cup {m})
      BY <1>1, <2>5, <2>6
    <3> QED
      BY <1>1, <2>6, <3>1, <3>2 DEF FromLeft
  <2>11. D \cup {m} \in SUBSET ToReplace
    BY <2>1, <2>2
  <2> QED
    BY <2>9, <2>10, <2>11
<1>8. Query!Careful' = Query!Careful /\ ToReplace' = ToReplace
  BY <1>1, SameQuery
<1>9. Query!Careful' => WhileRewriting' /\ WhenSent' /\ WhileInterpolating'
  BY <1>1, <1>7, <1>8 DEF WhileRewriting, WhenSent, WhileInterpolating
<1>10. Query!RunAsMeant' /\ Query!RefusedRightly'
  BY <1>1 DEF Query!RunAsMeant, Query!RefusedRightly
<1> QED
  BY <1>1, <1>6, <1>9, <1>10 DEF QueryInv

LEMMA WrittenTokens == Query!Written \subseteq Query!Tokens
BY DEF Query!Written, Query!Tokens

LEMMA NoneRewritten ==
  ASSUME text = query, n = 0
  PROVE  {} \in SUBSET ToReplace /\ RewrittenAt({}) /\ FromLeft({})
BY FS_EmptySet DEF RewrittenAt, FromLeft, Halfway

LEMMA QueryStarts == Query!Init => QueryInv
<1> SUFFICES ASSUME Query!Init PROVE QueryInv
  OBVIOUS
<1> USE DEF Query!Init
<1>1. query \in Seq(Query!Written)
  <2>1. query \in Query!SeqOf(Query!Written, MaxLength)
    BY DEF Query!Queries
  <2> QED
    BY <2>1, QueryAssumed DEF Query!SeqOf, Query!PlaceholdersAssumption
<1>2. text \in Seq(Query!Tokens) /\ rest \in Seq(Query!Tokens)
  BY <1>1, WrittenTokens
<1>3. Query!TypeOK
  BY <1>1, <1>2 DEF Query!TypeOK
<1>4. WhileRewriting /\ WhenSent /\ WhileInterpolating
  BY NoneRewritten DEF WhileRewriting, WhenSent, WhileInterpolating
<1>5. Query!RunAsMeant /\ Query!RefusedRightly
  BY DEF Query!RunAsMeant, Query!RefusedRightly
<1> QED
  BY <1>3, <1>4, <1>5 DEF QueryInv

LEMMA QueryRestsWell == QueryRests => QueryInv
<1> SUFFICES ASSUME QueryRests PROVE QueryInv
  OBVIOUS
<1> USE DEF QueryRests
<1>1. Query!Plain("other") \in Query!Written
  BY DEF Query!Plain, Query!Written
<1>2. query \in Seq(Query!Written) /\ Len(query) = 1 /\ query[1] = Query!Plain("other")
  BY <1>1
<1>3. text \in Seq(Query!Tokens) /\ rest \in Seq(Query!Tokens)
  BY <1>1, WrittenTokens
<1>4. driver \in Drivers /\ call \in Calls /\ values \in 0..MaxValues
  BY QueryAssumed DEF Query!PlaceholdersAssumption
<1>5. Query!TypeOK
  BY <1>2, <1>3, <1>4 DEF Query!TypeOK
<1>6. Holders = {}
  <2>1. \A i \in 1..Len(query) : query[i].is = "other"
    BY <1>2 DEF Query!Plain
  <2> QED
    BY <1>5, <2>1, QueryKnown DEF Query!Marks
<1>7. Query!Matching
  BY <1>6, Counting, FS_EmptySet DEF Query!Matching, Holders
<1>8. text = Query!Meant
  <2>1. Query!Meant = [i \in DOMAIN query |-> query[i]]
    BY <1>6 DEF Query!Meant, Holders
  <2> QED
    BY <1>2, <2>1
<1> QED
  BY <1>5, <1>7, <1>8 DEF QueryInv, WhileRewriting, WhenSent, WhileInterpolating,
                          Query!RunAsMeant, Query!RefusedRightly

LEMMA RewriteDoneKeeps ==
  ASSUME QueryInv, Query!RewriteDone
  PROVE  QueryInv'
<1> USE DEF Query!RewriteDone
<1>1. /\ Query!TypeOK /\ Query!Preprocessed(driver, call, bound) /\ (~bound => values = 0)
      /\ phase = "rewriting" /\ Query!Matches = {} /\ n' = 0
      /\ phase' \in {"interpolating", "at_server"}
      /\ UNCHANGED <<driver, call, bound, values, query>>
  BY DEF QueryInv
<1>2. text' \in Seq(Query!Tokens) /\ rest' \in Seq(Query!Tokens)
  <2>1. text' \in {text, <<>>} /\ rest' \in {text, rest}
    OBVIOUS
  <2>2. <<>> \in Seq(Query!Tokens)
    OBVIOUS
  <2> QED
    BY <1>1, <2>1, <2>2 DEF Query!TypeOK
<1>3. Query!TypeOK'
  BY <1>1, <1>2 DEF Query!TypeOK
<1>4. Query!Careful => RewrittenAt(ToReplace)
  <2> SUFFICES ASSUME Query!Careful PROVE RewrittenAt(ToReplace)
    OBVIOUS
  <2>1. PICK D \in SUBSET ToReplace : RewrittenAt(D)
    BY <1>1 DEF QueryInv, WhileRewriting
  <2>2. D = ToReplace
    BY <1>1, <2>1, MatchesLeft
  <2> QED
    BY <2>1, <2>2
<1>5. /\ Query!Careful' = Query!Careful /\ Query!Interpolated' = Query!Interpolated
      /\ ToReplace' = ToReplace /\ Holders' = Holders
      /\ \A i, D : Halfway(i, D)' = Halfway(i, D)
  BY <1>1, SameQuery
<1>6. CASE Query!Interpolated
  <2>1. phase' = "interpolating" /\ text' = <<>> /\ rest' = text /\ driver = "mysql"
    BY <1>6 DEF Query!Interpolated
  <2>2. ASSUME Query!Careful PROVE InterpolatedTo(0)'
    <3>1. Len(text) = Len(query) /\ Len(query) \in Nat
          /\ \A i \in 1..Len(query) : text[i] = Halfway(i, ToReplace)
      BY <1>1, <1>4, <2>2, QueryKnown DEF RewrittenAt
    <3>2. Query!Rank(Holders, 0) = 0
      BY <1>1, QueryKnown, RankSteps
    <3>3. Len(text') = 0 /\ Len(rest') = Len(query) /\ \A i \in 1..Len(rest') : rest'[i] = Halfway(0 + i, ToReplace)
      BY <2>1, <3>1
    <3>4. Query!Rank(Holders, 0)' = Query!Rank(Holders, 0)
      BY <1>5 DEF Query!Rank
    <3> QED
      BY <1>1, <1>5, <3>1, <3>2, <3>3, <3>4 DEF InterpolatedTo
  <2>3. 0 \in 0..Len(query) /\ Len(query)' = Len(query)
    BY <1>1, QueryKnown
  <2>4. Query!Careful' => WhileInterpolating'
    BY <1>1, <1>5, <1>6, <2>1, <2>2, <2>3 DEF WhileInterpolating
  <2> QED
    BY <1>1, <1>3, <2>1, <2>4 DEF QueryInv, WhileRewriting, WhenSent, Query!RunAsMeant, Query!RefusedRightly
<1>7. CASE ~Query!Interpolated
  <2>1. phase' = "at_server" /\ text' = text
    BY <1>7
  <2>2. Query!Careful' => RewrittenAt(ToReplace)'
    BY <1>1, <1>4, <1>5, <2>1 DEF RewrittenAt
  <2>3. Query!Preprocessed(driver, call, bound)'
    BY <1>1 DEF Query!Preprocessed
  <2>4. Query!Careful' => WhenSent'
    BY <2>2, <2>3 DEF WhenSent
  <2> QED
    BY <1>1, <1>3, <2>1, <2>4 DEF QueryInv, WhileRewriting, WhileInterpolating, Query!RunAsMeant, Query!RefusedRightly
<1> QED
  BY <1>6, <1>7

(* What is meant, place by place.                                            *)
LEMMA MeantKnown ==
  ASSUME Query!TypeOK
  PROVE  /\ Query!Meant \in [1..Len(query) -> Query!Tokens]
         /\ \A i \in 1..Len(query) :
              Query!Meant[i] = IF i \in Holders THEN Query!Value(Query!Rank(Holders, i)) ELSE query[i]
<1>1. DOMAIN query = 1..Len(query) /\ \A i \in 1..Len(query) : query[i] \in Query!Tokens
  BY QueryKnown
<1>2. \A i : Query!Value(Query!Rank(Holders, i)) \in Query!Tokens
  <2>1. \A i : Query!Rank(Holders, i) \in Nat
    BY QueryKnown, RankKnown
  <2> QED
    BY <2>1 DEF Query!Value, Query!Tokens
<1> QED
  BY <1>1, <1>2 DEF Query!Meant, Holders

(* The rewritten query has a slot for each placeholder, and nothing else that *)
(* the server would take for one; one that is not rewritten has no slots.     *)
LEMMA SlotsKnown ==
  ASSUME QueryInv, Query!Careful, phase = "at_server"
  PROVE  /\ Query!Preprocessed(driver, call, bound) =>
              /\ Query!Slots = Holders /\ Query!PlaceholdersOf(text) \subseteq Query!Slots
              /\ \A i \in Query!Slots :
                   driver = "pg" => text[i].no = Query!Rank(Query!Slots, i)
         /\ ~Query!Preprocessed(driver, call, bound) =>
              Query!Slots = {} /\ Query!PlaceholdersOf(text) = Holders
         /\ \A i \in 1..Len(query) : i \notin Query!Slots => text[i] = query[i]
         /\ DOMAIN text = 1..Len(query)
<1> DEFINE D == IF Query!Preprocessed(driver, call, bound) THEN ToReplace ELSE {}
<1>1. Query!TypeOK /\ RewrittenAt(D) /\ D \subseteq ToReplace
  BY DEF QueryInv, WhenSent
<1>2. DOMAIN text = 1..Len(query)
  BY <1>1 DEF Query!TypeOK, RewrittenAt
<1>3. \A i \in 1..Len(query) : Query!InLiteral(text, i) <=> Query!InLiteral(query, i)
  BY <1>1, QuotesStay
<1>4. \A i \in 1..Len(query) : text[i] = IF i \in D THEN Put(i) ELSE query[i]
  BY <1>1 DEF RewrittenAt, Halfway
<1> HIDE DEF D
<1>5. ASSUME NEW i \in 1..Len(query)
      PROVE  /\ i \in Query!Slots <=> i \in D \/ (i \in Holders /\ driver # "pg" /\ query[i].is = "qmark")
             /\ i \in Query!PlaceholdersOf(text) => i \in Holders
             /\ i \in Query!PlaceholdersOf(text) /\ driver = "pg" => i \notin D
             /\ i \in Holders /\ i \notin D => i \in Query!PlaceholdersOf(text)
  <2>1. i \in Query!Slots <=> /\ ~Query!InLiteral(query, i)
                             /\ text[i].is = IF driver = "pg" THEN "number" ELSE "qmark"
    BY <1>2, <1>3 DEF Query!Slots
  <2>2. i \in Query!PlaceholdersOf(text) <=> text[i].is \in Query!Marks /\ ~Query!InLiteral(query, i)
    BY <1>2, <1>3 DEF Query!PlaceholdersOf
  <2>3. CASE i \in D
    <3>1. i \in Holders /\ ~Query!InLiteral(query, i)
      BY <1>1, <2>3, QueryKnown
    <3>2. text[i].is = IF driver = "pg" THEN "number" ELSE "qmark"
      BY <1>1, <1>4, <2>3, PutKnown
    <3> QED
      BY <2>1, <2>2, <2>3, <3>1, <3>2 DEF Query!Marks
  <2>4. CASE i \notin D
    <3>1. text[i] = query[i] /\ query[i].is # "number"
      BY <1>1, <1>4, <2>4, QueryKnown
    <3>2. i \in Holders <=> query[i].is \in Query!Marks /\ ~Query!InLiteral(query, i)
      BY <1>1, QueryKnown
    <3> QED
      BY <2>1, <2>2, <2>4, <3>1, <3>2 DEF Query!Marks
  <2> QED
    BY <2>3, <2>4
<1>6. ASSUME NEW i \in 1..Len(query)
      PROVE  i \in Holders <=> i \in ToReplace \/ (i \in Holders /\ driver # "pg" /\ query[i].is = "qmark")
  BY <1>1, QueryKnown DEF Query!Rewritten, Query!Marks
<1>7. Query!Slots \subseteq 1..Len(query) /\ Query!PlaceholdersOf(text) \subseteq 1..Len(query)
      /\ Holders \subseteq 1..Len(query)
  BY <1>1, <1>2, QueryKnown DEF Query!Slots, Query!PlaceholdersOf
<1>8. ASSUME Query!Preprocessed(driver, call, bound)
      PROVE  /\ Query!Slots = Holders /\ Query!PlaceholdersOf(text) \subseteq Query!Slots
             /\ \A i \in Query!Slots :
                  driver = "pg" => text[i].no = Query!Rank(Query!Slots, i)
  <2>1. D = ToReplace
    BY <1>8 DEF D
  <2>2. \A i \in 1..Len(query) : i \in Query!Slots <=> i \in Holders
    BY <1>5, <1>6, <2>1
  <2>3. Query!Slots = Holders
    BY <1>7, <2>2
  <2>4. Query!PlaceholdersOf(text) \subseteq Query!Slots
    BY <1>5, <1>7, <2>3
  <2>5. ASSUME NEW i \in Query!Slots, driver = "pg"
        PROVE  text[i].no = Query!Rank(Query!Slots, i)
    <3>1. i \in D /\ i \in 1..Len(query)
      BY <1>5, <1>7, <2>5
    <3>2. text[i] = Query!Number(Query!Rank(Holders, i))
      BY <1>4, <2>5, <3>1 DEF Put
    <3>3. text[i].no = Query!Rank(Holders, i)
      BY <3>2 DEF Query!Number
    <3> QED
      BY <2>3, <3>3
  <2> QED
    BY <2>3, <2>4, <2>5
<1>9. ASSUME ~Query!Preprocessed(driver, call, bound)
      PROVE  Query!Slots = {} /\ Query!PlaceholdersOf(text) = Holders
  <2>1. D = {} /\ driver = "pg"
    BY <1>9 DEF D, Query!Preprocessed
  <2> QED
    BY <1>5, <1>7, <2>1
<1>10. \A i \in 1..Len(query) : i \notin Query!Slots => text[i] = query[i]
  BY <1>4, <1>5
<1> QED
  BY <1>2, <1>8, <1>9, <1>10

LEMMA ServeKeeps ==
  ASSUME QueryInv, Query!Serve
  PROVE  QueryInv'
<1> USE DEF Query!Serve
<1>1. /\ Query!TypeOK /\ (~bound => values = 0)
      /\ phase = "at_server" /\ phase' \in {"run", "refused", "crashed"}
      /\ UNCHANGED <<driver, call, bound, values, query, rest, n>>
  BY DEF QueryInv
<1>2. /\ Query!Careful' = Query!Careful /\ Query!Matching' = Query!Matching
      /\ Query!Meant' = Query!Meant /\ Query!Uncounted' = Query!Uncounted
  BY <1>1, SameQuery
<1>3. Query!Matching <=> values = Cardinality(Holders)
  BY Counting DEF Query!Matching, Holders
<1> DEFINE Served == [i \in DOMAIN text |->
                        IF i \in Query!Slots THEN Query!Taken(Query!Rank(Query!Slots, i)) ELSE text[i]]
<1>4. Served \in Seq(Query!Tokens)
  <2>1. DOMAIN text = 1..Len(text) /\ Len(text) \in Nat /\ \A i \in 1..Len(text) : text[i] \in Query!Tokens
    BY <1>1 DEF Query!TypeOK
  <2>2. \A i : Query!Rank(Query!Slots, i) \in Nat
    BY <2>1, RankKnown DEF Query!Slots
  <2>3. \A i : Query!Taken(Query!Rank(Query!Slots, i)) \in Query!Tokens
    BY <2>2 DEF Query!Taken, Query!NobodysValue, Query!Value, Query!Tokens
  <2>4. Served \in [1..Len(text) -> Query!Tokens]
    BY <2>1, <2>3
  <2> QED
    BY <2>1, <2>4
<1>5. CASE phase' = "run"
  <2>1. /\ Query!Uncounted \/ Cardinality(Query!Slots) = values
        /\ Query!PlaceholdersOf(text) \subseteq Query!Slots
        /\ text' = Served
    BY <1>5, Counting DEF Query!Parses
  <2>2. Query!TypeOK'
    BY <1>1, <1>4, <1>5, <2>1 DEF Query!TypeOK
  <2>3. ASSUME Query!Careful, Query!Uncounted => Query!Matching
        PROVE  Query!Matching /\ text' = Query!Meant
    <3>1. Query!Slots = Holders
      BY <2>1, <2>3, SlotsKnown
    <3>2. Query!Matching
      BY <1>3, <2>1, <2>3, <3>1
    <3>3. Served = Query!Meant
      <4>1. /\ DOMAIN text = 1..Len(query) /\ DOMAIN query = 1..Len(query)
            /\ \A i \in 1..Len(query) : i \notin Holders => text[i] = query[i]
        BY <1>1, <2>3, <3>1, SlotsKnown, QueryKnown
      <4>2. \A i : Query!Rank(Holders, i) <= values
        BY <1>1, <1>3, <3>2, QueryKnown, RankBounded
      <4>3. \A i : Query!Taken(Query!Rank(Holders, i)) = Query!Value(Query!Rank(Holders, i))
        BY <4>2 DEF Query!Taken
      <4> QED
        BY <3>1, <4>1, <4>3 DEF Query!Meant, Holders
    <3> QED
      BY <2>1, <3>2, <3>3
  <2>4. Query!RunAsMeant'
    BY <1>2, <2>3 DEF Query!RunAsMeant
  <2> QED
    BY <1>1, <1>5, <2>2, <2>4 DEF QueryInv, WhileRewriting, WhenSent, WhileInterpolating, Query!RefusedRightly
<1>6. CASE phase' \in {"refused", "crashed"}
  <2>0. Cardinality(Query!Slots) \in Nat /\ values \in Nat
    <3>1. Query!Slots \subseteq 1..Len(text) /\ Len(text) \in Nat
      BY <1>1 DEF Query!Slots, Query!TypeOK
    <3> QED
      BY <1>1, <3>1, RankKnown, QueryAssumed DEF Query!TypeOK, Query!PlaceholdersAssumption
  <2>1. /\ text' = text
        /\ ~(/\ Cardinality(Query!Slots) = values
             /\ \A i \in Query!Slots : driver = "pg" => text[i].no = Query!Rank(Query!Slots, i)
             /\ Query!PlaceholdersOf(text) \subseteq Query!Slots)
    <3>1. text' = text /\ ~(Query!Parses /\ Cardinality(Query!Slots) = values)
      BY <1>6, <2>0, Counting DEF Query!Overread
    <3> QED
      BY <3>1 DEF Query!Parses
  <2>2. Query!TypeOK'
    BY <1>1, <1>6, <2>1 DEF Query!TypeOK
  <2>3. ASSUME Query!Careful PROVE ~Query!Matching
    <3>1. CASE Query!Preprocessed(driver, call, bound)
      BY <1>1, <1>3, <2>1, <2>3, <3>1, SlotsKnown
    <3>2. CASE ~Query!Preprocessed(driver, call, bound)
      <4>1. Query!Slots = {} /\ Query!PlaceholdersOf(text) = Holders /\ values = 0
        BY <1>1, <2>3, <3>2, SlotsKnown DEF Query!Preprocessed
      <4>2. Holders # {}
        BY <2>1, <4>1, FS_EmptySet
      <4>3. IsFiniteSet(Holders)
        BY <1>1, QueryKnown, RankKnown
      <4> QED
        BY <1>3, <4>1, <4>2, <4>3, FS_EmptySet
    <3> QED
      BY <3>1, <3>2
  <2>4. Query!RefusedRightly'
    BY <1>2, <2>3 DEF Query!RefusedRightly
  <2> QED
    BY <1>1, <1>6, <2>2, <2>4 DEF QueryInv, WhileRewriting, WhenSent, WhileInterpolating, Query!RunAsMeant
<1> QED
  BY <1>1, <1>5, <1>6

(* The next ? of the rest, or the place behind it.                           *)
LEMMA NextMarkKnown ==
  ASSUME Query!TypeOK
  PROVE  /\ Query!NextMark \in 1..Len(rest) + 1
         /\ \A i \in 1..Len(rest) : i < Query!NextMark => rest[i].is # "qmark"
         /\ Query!NextMark <= Len(rest) => rest[Query!NextMark].is = "qmark"
<1> DEFINE T == {i \in DOMAIN rest : rest[i].is = "qmark"}
<1>1. Len(rest) \in Nat /\ DOMAIN rest = 1..Len(rest)
  BY DEF Query!TypeOK
<1>2. Query!NextMark = IF T = {} THEN Len(rest) + 1 ELSE Query!Min(T)
  BY DEF Query!NextMark
<1>3. T \subseteq 1..Len(rest) /\ T \subseteq Nat
      /\ \A i \in 1..Len(rest) : i \in T <=> rest[i].is = "qmark"
  BY <1>1
<1> HIDE DEF T
<1>4. CASE T = {}
  BY <1>1, <1>2, <1>3, <1>4
<1>5. CASE T # {}
  <2>1. PICK m \in T : m = Query!Min(T) /\ \A i \in T : m <= i
    BY <1>3, <1>5, Smallest
  <2>2. Query!NextMark = m /\ m \in 1..Len(rest)
    BY <1>2, <1>3, <1>5, <2>1
  <2>3. ASSUME NEW i \in 1..Len(rest), i < m PROVE i \notin T
    BY <1>1, <2>1, <2>2, <2>3
  <2> QED
    BY <1>1, <1>3, <2>1, <2>2, <2>3
<1> QED
  BY <1>4, <1>5

(* For a careful client of MySQL, the ?s of the rewritten query are its       *)
(* placeholders.                                                            *)
LEMMA MarksAreHolders ==
  ASSUME Query!TypeOK, Query!Careful, driver = "mysql", NEW i \in 1..Len(query)
  PROVE  /\ Halfway(i, ToReplace).is = "qmark" <=> i \in Holders
         /\ i \notin Holders => Halfway(i, ToReplace) = Query!Meant[i]
<1>1. CASE i \in ToReplace
  BY <1>1, PutKnown, QueryKnown DEF Halfway
<1>2. CASE i \notin ToReplace
  <2>1. Halfway(i, ToReplace) = query[i]
    BY <1>2 DEF Halfway
  <2>2. query[i].is = "qmark" => ~Query!InLiteral(query, i)
    BY QueryKnown DEF Query!Careful
  <2>3. i \in Holders => query[i].is = "qmark"
    BY <1>2, QueryKnown DEF Query!Rewritten, Query!Marks
  <2>4. query[i].is = "qmark" => i \in Holders
    BY <2>2, QueryKnown DEF Query!Marks
  <2> QED
    BY <2>1, <2>3, <2>4, MeantKnown
<1> QED
  BY <1>1, <1>2

LEMMA InterpolateTyped ==
  ASSUME Query!TypeOK, Query!Interpolate
  PROVE  Query!TypeOK'
<1> USE DEF Query!Interpolate
<1>1. CASE rest = <<>>
  BY <1>1 DEF Query!TypeOK
<1>2. CASE rest # <<>>
  <2>1. PICK m \in 1..Len(rest) + 1 : m = Query!NextMark
    BY NextMarkKnown
  <2>2. Len(rest) \in Nat /\ text \in Seq(Query!Tokens) /\ rest \in Seq(Query!Tokens)
        /\ n \in Nat /\ values \in Nat
    BY QueryAssumed DEF Query!TypeOK, Query!PlaceholdersAssumption
  <2>3. SubSeq(rest, 1, m - 1) \in Seq(Query!Tokens) /\ SubSeq(rest, m + 1, Len(rest)) \in Seq(Query!Tokens)
    BY <2>2
  <2>4. Query!Behind \in Seq(Query!Tokens)
    <3>1. Query!Value(n + 1) \in Query!Tokens
      BY <2>2 DEF Query!Value, Query!Tokens
    <3>2. <<Query!Value(n + 1)>> \in Seq(Query!Tokens) /\ <<>> \in Seq(Query!Tokens)
      BY <3>1
    <3> QED
      BY <3>2 DEF Query!Behind, Query!OncePerPart
  <2>5. text \o SubSeq(rest, 1, m - 1) \in Seq(Query!Tokens)
    BY <2>2, <2>3
  <2>6. text' \in Seq(Query!Tokens)
    <3>1. text' = text \o SubSeq(rest, 1, m - 1) \o Query!Behind
      BY <1>2, <2>1
    <3> QED
      BY <2>4, <2>5, <3>1
  <2>7. rest' \in Seq(Query!Tokens)
    BY <1>2, <2>1, <2>3
  <2>8. n' \in Nat
    BY <1>2, <2>2
  <2> QED
    BY <1>2, <2>6, <2>7, <2>8 DEF Query!TypeOK
<1> QED
  BY <1>1, <1>2

LEMMA Joined ==
  ASSUME NEW S, NEW s \in Seq(S), NEW b \in Seq(S)
  PROVE  /\ s \o b \in Seq(S) /\ Len(s \o b) = Len(s) + Len(b)
         /\ \A i \in 1..Len(s) : (s \o b)[i] = s[i]
         /\ \A i \in 1..Len(b) : (s \o b)[Len(s) + i] = b[i]
OBVIOUS

(* What is put together and cut off, place by place.                         *)
Glued(s, r, b, m) == s \o SubSeq(r, 1, m - 1) \o b

LEMMA Together ==
  ASSUME NEW S, NEW s \in Seq(S), NEW r \in Seq(S), NEW b \in Seq(S), NEW m \in 1..Len(r) + 1
  PROVE  /\ Len(Glued(s, r, b, m)) = Len(s) + m - 1 + Len(b)
         /\ \A i \in 1..Len(s) : Glued(s, r, b, m)[i] = s[i]
         /\ \A i \in 1..m - 1 : Glued(s, r, b, m)[Len(s) + i] = r[i]
         /\ \A i \in 1..Len(b) : Glued(s, r, b, m)[Len(s) + m - 1 + i] = b[i]
<1>0. PICK u : u = Glued(s, r, b, m)
  OBVIOUS
<1>1. PICK p \in Seq(S) : p = SubSeq(r, 1, m - 1) /\ Len(p) = m - 1 /\ \A i \in 1..m - 1 : p[i] = r[i]
  <2>1. /\ SubSeq(r, 1, m - 1) \in Seq(S) /\ Len(SubSeq(r, 1, m - 1)) = m - 1
        /\ \A i \in 1..m - 1 : SubSeq(r, 1, m - 1)[i] = r[i]
    OBVIOUS
  <2> QED
    BY <2>1
<1>2. PICK q \in Seq(S) :
        /\ q = s \o p /\ Len(q) = Len(s) + m - 1
        /\ \A i \in 1..Len(s) : q[i] = s[i]
        /\ \A i \in 1..m - 1 : q[Len(s) + i] = p[i]
  <2>1. s \o p \in Seq(S) /\ Len(s \o p) = Len(s) + Len(p)
        /\ (\A i \in 1..Len(s) : (s \o p)[i] = s[i])
        /\ \A i \in 1..Len(p) : (s \o p)[Len(s) + i] = p[i]
    BY Joined
  <2>2. Len(s) \in Nat /\ m \in Nat
    OBVIOUS
  <2> QED
    BY <1>1, <2>1, <2>2
<1>3. u = q \o b
  BY <1>0, <1>1, <1>2 DEF Glued
<1>4. Len(u) = Len(q) + Len(b) /\ (\A i \in 1..Len(q) : u[i] = q[i])
      /\ \A i \in 1..Len(b) : u[Len(q) + i] = b[i]
  <2>1. Len(q \o b) = Len(q) + Len(b) /\ (\A i \in 1..Len(q) : (q \o b)[i] = q[i])
        /\ \A i \in 1..Len(b) : (q \o b)[Len(q) + i] = b[i]
    BY Joined
  <2> QED
    BY <1>3, <2>1
<1>5. Len(s) \in Nat /\ Len(r) \in Nat /\ Len(b) \in Nat /\ m \in Nat
  OBVIOUS
<1>6. ASSUME NEW i \in 1..Len(s) PROVE u[i] = s[i]
  <2>1. i \in 1..Len(q)
    BY <1>2, <1>5
  <2> QED
    BY <1>2, <1>4, <2>1
<1>7. ASSUME NEW i \in 1..m - 1 PROVE u[Len(s) + i] = r[i]
  <2>1. Len(s) + i \in 1..Len(q)
    BY <1>2, <1>5
  <2>2. u[Len(s) + i] = q[Len(s) + i] /\ q[Len(s) + i] = p[i] /\ p[i] = r[i]
    BY <1>1, <1>2, <1>4, <2>1
  <2> QED
    BY <2>2
<1>8. ASSUME NEW i \in 1..Len(b) PROVE u[Len(s) + m - 1 + i] = b[i]
  <2>1. Len(s) + m - 1 + i = Len(q) + i
    BY <1>2, <1>5
  <2> QED
    BY <1>4, <2>1
<1> QED
  BY <1>0, <1>2, <1>4, <1>6, <1>7, <1>8

LEMMA CutOff ==
  ASSUME NEW S, NEW r \in Seq(S), NEW m \in 1..Len(r) + 1, NEW v, v = SubSeq(r, m + 1, Len(r))
  PROVE  /\ Len(v) = IF m <= Len(r) THEN Len(r) - m ELSE 0
         /\ \A i \in 1..Len(v) : v[i] = r[m + i]
OBVIOUS

(* One part of the text, and the value behind it.                            *)
LEMMA PartPut ==
  ASSUME Query!TypeOK, Query!Careful, driver = "mysql", Query!Matching, Query!Interpolate, rest # <<>>,
         NEW k \in 0..Len(query), InterpolatedTo(k)
  PROVE  \E p \in 0..Len(query) : InterpolatedTo(p)'
<1> DEFINE l == Len(query)
<1>1. /\ l \in Nat /\ k \in Nat /\ k <= l /\ Holders \subseteq 1..l
      /\ Len(text) = k /\ Len(rest) = l - k /\ n = Query!Rank(Holders, k) /\ n \in Nat
      /\ values = Cardinality(Holders) /\ values \in Nat
  BY QueryKnown, RankKnown, Counting DEF InterpolatedTo, Query!Matching, Holders, Query!TypeOK
<1>2. PICK m \in 1..Len(rest) + 1 :
        /\ m = Query!NextMark
        /\ \A i \in 1..Len(rest) : i < m => rest[i].is # "qmark"
        /\ m <= Len(rest) => rest[m].is = "qmark"
  BY NextMarkKnown
<1>3. \A i \in 1..Len(rest) : rest[i] = Halfway(k + i, ToReplace)
  BY DEF InterpolatedTo
<1>4. ASSUME NEW i \in 1..l
      PROVE  /\ Halfway(i, ToReplace).is = "qmark" <=> i \in Holders
             /\ i \notin Holders => Halfway(i, ToReplace) = Query!Meant[i]
  BY MarksAreHolders
<1>5. ASSUME NEW i \in 1..m - 1
      PROVE  k + i \in 1..l /\ k + i \notin Holders /\ rest[i] = Query!Meant[k + i]
  <2>1. i \in 1..Len(rest) /\ i < m /\ k + i \in 1..l
    BY <1>1
  <2>2. rest[i].is # "qmark" /\ rest[i] = Halfway(k + i, ToReplace)
    BY <1>2, <1>3, <2>1
  <2> QED
    BY <1>4, <2>1, <2>2
<1>6. ASSUME NEW h \in Holders PROVE h <= k \/ k + m <= h
  <2>1. h \in Nat /\ m \in Nat
    BY <1>1
  <2>2. ASSUME ~(h <= k), ~(k + m <= h) PROVE FALSE
    <3>1. h - k \in 1..m - 1 /\ k + (h - k) = h
      BY <1>1, <2>1, <2>2
    <3> QED
      BY <1>5, <3>1
  <2> QED
    BY <2>2
<1>7. /\ text' = text \o SubSeq(rest, 1, m - 1) \o Query!Behind
      /\ rest' = SubSeq(rest, m + 1, Len(rest))
      /\ n' = IF n < values THEN n + 1 ELSE n
      /\ UNCHANGED <<driver, call, bound, values, query>>
  BY <1>2 DEF Query!Interpolate
<1>8. Query!Behind = IF n < values THEN <<Query!Value(n + 1)>> ELSE <<>>
  BY DEF Query!Behind, Query!OncePerPart
<1>9. PICK b \in Seq(Query!Tokens) : b = Query!Behind
  <2>1. Query!Value(n + 1) \in Query!Tokens
    BY <1>1 DEF Query!Value, Query!Tokens
  <2>2. <<Query!Value(n + 1)>> \in Seq(Query!Tokens) /\ <<>> \in Seq(Query!Tokens)
    BY <2>1
  <2> QED
    BY <1>8, <2>2
<1>10. /\ Len(text') = k + m - 1 + Len(b)
       /\ \A i \in 1..k : text'[i] = text[i]
       /\ \A i \in 1..m - 1 : text'[k + i] = rest[i]
       /\ \A i \in 1..Len(b) : text'[k + m - 1 + i] = b[i]
       /\ Len(rest') = IF m <= Len(rest) THEN Len(rest) - m ELSE 0
       /\ \A i \in 1..Len(rest') : rest'[i] = rest[m + i]
  <2>1. PICK s \in Seq(Query!Tokens) : s = text
    BY DEF Query!TypeOK
  <2>2. PICK r \in Seq(Query!Tokens) : r = rest
    BY DEF Query!TypeOK
  <2>3. m \in 1..Len(r) + 1 /\ Len(s) = k /\ Len(r) = Len(rest)
    BY <1>1, <2>1, <2>2
  <2>4. text' = s \o SubSeq(r, 1, m - 1) \o b /\ rest' = SubSeq(r, m + 1, Len(r))
    BY <1>7, <1>9, <2>1, <2>2
  <2>5. PICK u : u = text'
    OBVIOUS
  <2>6. PICK v : v = rest'
    OBVIOUS
  <2>7. /\ Len(u) = Len(s) + m - 1 + Len(b)
        /\ \A i \in 1..Len(s) : u[i] = s[i]
        /\ \A i \in 1..m - 1 : u[Len(s) + i] = r[i]
        /\ \A i \in 1..Len(b) : u[Len(s) + m - 1 + i] = b[i]
    <3>1. u = Glued(s, r, b, m)
      BY <2>4, <2>5 DEF Glued
    <3>2. /\ Len(Glued(s, r, b, m)) = Len(s) + m - 1 + Len(b)
          /\ \A i \in 1..Len(s) : Glued(s, r, b, m)[i] = s[i]
          /\ \A i \in 1..m - 1 : Glued(s, r, b, m)[Len(s) + i] = r[i]
          /\ \A i \in 1..Len(b) : Glued(s, r, b, m)[Len(s) + m - 1 + i] = b[i]
      <4>1. s \in Seq(Query!Tokens) /\ r \in Seq(Query!Tokens) /\ b \in Seq(Query!Tokens)
        OBVIOUS
      <4>2. ASSUME NEW x \in 1..Len(r) + 1
            PROVE  /\ Len(Glued(s, r, b, x)) = Len(s) + x - 1 + Len(b)
                   /\ \A i \in 1..Len(s) : Glued(s, r, b, x)[i] = s[i]
                   /\ \A i \in 1..x - 1 : Glued(s, r, b, x)[Len(s) + i] = r[i]
                   /\ \A i \in 1..Len(b) : Glued(s, r, b, x)[Len(s) + x - 1 + i] = b[i]
        <5>1. Len(Glued(s, r, b, x)) = Len(s) + x - 1 + Len(b)
          <6>1. \A y \in 1..Len(r) + 1 : Len(Glued(s, r, b, y)) = Len(s) + y - 1 + Len(b)
            BY <4>1, Together
          <6> QED
            BY <6>1, Zenon
        <5>2. \A i \in 1..Len(s) : Glued(s, r, b, x)[i] = s[i]
          BY <4>1, Together
        <5>3. \A i \in 1..x - 1 : Glued(s, r, b, x)[Len(s) + i] = r[i]
          BY <4>1, Together
        <5>4. \A i \in 1..Len(b) : Glued(s, r, b, x)[Len(s) + x - 1 + i] = b[i]
          BY <4>1, Together
        <5> QED
          BY <5>1, <5>2, <5>3, <5>4
      <4> QED
        BY <2>3, <4>2, Zenon
    <3> QED
      BY <3>1, <3>2
  <2>8. /\ Len(v) = IF m <= Len(r) THEN Len(r) - m ELSE 0
        /\ \A i \in 1..Len(v) : v[i] = r[m + i]
    <3>1. v = SubSeq(r, m + 1, Len(r))
      BY <2>4, <2>6
    <3> QED
      BY <2>3, <3>1, CutOff
  <2> QED
    BY <2>1, <2>2, <2>3, <2>5, <2>6, <2>7, <2>8
<1>11. ASSUME NEW i \in 1..k + m - 1 PROVE text'[i] = Query!Meant[i]
  <2>1. CASE i <= k
    <3>1. i \in 1..k
      BY <2>1
    <3> QED
      BY <1>10, <3>1 DEF InterpolatedTo
  <2>2. CASE ~(i <= k)
    <3>1. PICK h \in 1..m - 1 : k + h = i
      <4>1. i - k \in 1..m - 1 /\ k + (i - k) = i
        BY <1>1, <2>2
      <4> QED
        BY <4>1
    <3>2. text'[k + h] = rest[h] /\ rest[h] = Query!Meant[k + h]
      BY <1>5, <1>10
    <3> QED
      BY <3>1, <3>2
  <2> QED
    BY <2>1, <2>2
<1>12. /\ Query!Meant' = Query!Meant /\ ToReplace' = ToReplace /\ Holders' = Holders
       /\ \A i, D : Halfway(i, D)' = Halfway(i, D)
  BY <1>7, SameQuery
<1>13. CASE m = Len(rest) + 1
  <2>1. \A h \in Holders : h <= k /\ (h <= k \/ l < h)
    BY <1>1, <1>6, <1>13
  <2>2. n = values
    <3>1. \A h \in Holders : h <= k
      BY <2>1
    <3> QED
      BY <1>1, <3>1, RankAll
  <2>3. b = <<>> /\ n' = n /\ Len(b) = 0
    BY <1>1, <1>7, <1>8, <1>9, <2>2
  <2>4. Len(text') = l /\ Len(rest') = 0 /\ k + m - 1 = l
    BY <1>1, <1>10, <1>13, <2>3
  <2>5. Query!Rank(Holders, l) = n
    BY <1>1, <2>1, RankSame
  <2>6. InterpolatedTo(l)'
    <3>1. PICK q \in Nat : q = l
      BY <1>1
    <3>2. InterpolatedTo(q)'
      <4>1. Query!Rank(Holders, q)' = n'
        BY <1>12, <2>3, <2>5, <3>1 DEF Query!Rank
      <4>2. Len(query)' - q = 0 /\ Len(rest)' = 0 /\ Len(text)' = q
        BY <1>1, <1>7, <2>4, <3>1
      <4>3. \A i \in 1..q : text'[i] = Query!Meant'[i]
        BY <1>11, <1>12, <2>4, <3>1
      <4> QED
        BY <4>1, <4>2, <4>3 DEF InterpolatedTo
    <3> QED
      BY <1>7, <3>1, <3>2
  <2> QED
    BY <1>1, <1>7, <2>6
<1>14. CASE m <= Len(rest)
  <2>1. PICK p \in 1..l : p = k + m
    BY <1>1, <1>14
  <2>2. p \in Holders /\ k < p /\ p \in Nat
    <3>1. m \in 1..Len(rest) /\ rest[m].is = "qmark" /\ rest[m] = Halfway(p, ToReplace)
      BY <1>1, <1>2, <1>3, <1>14, <2>1
    <3> QED
      BY <1>1, <1>4, <2>1, <3>1
  <2>3. n < values
    <3>1. k <= p
      BY <2>2
    <3> QED
      BY <1>1, <2>2, <3>1, RankLess
  <2>4. Query!Rank(Holders, p) = n + 1
    <3>1. k <= p /\ \A h \in Holders : h <= k \/ p <= h
      BY <1>1, <1>6, <2>1, <2>2
    <3> QED
      BY <1>1, <2>2, <3>1, RankNext
  <2>5. b = <<Query!Value(n + 1)>> /\ Len(b) = 1 /\ b[1] = Query!Value(n + 1) /\ n' = n + 1
    BY <1>7, <1>8, <1>9, <2>3
  <2>6. Len(text') = p /\ text'[p] = Query!Value(n + 1)
    BY <1>1, <1>10, <2>1, <2>5
  <2>7. Query!Meant[p] = Query!Value(n + 1)
    BY <2>1, <2>2, <2>4, MeantKnown
  <2>8. ASSUME NEW i \in 1..p PROVE text'[i] = Query!Meant[i]
    <3>1. i = p \/ i \in 1..k + m - 1
      BY <1>1, <2>1
    <3> QED
      BY <1>11, <2>6, <2>7, <3>1
  <2>9. Len(rest') = l - p /\ \A i \in 1..Len(rest') : rest'[i] = Halfway(p + i, ToReplace)
    <3>1. Len(rest') = l - p
      BY <1>1, <1>10, <1>14, <2>1
    <3>2. ASSUME NEW i \in 1..Len(rest') PROVE rest'[i] = Halfway(p + i, ToReplace)
      <4>1. m + i \in 1..Len(rest) /\ k + (m + i) = p + i
        BY <1>1, <2>1, <3>1
      <4> QED
        BY <1>3, <1>10, <4>1
    <3> QED
      BY <3>1, <3>2
  <2>10. InterpolatedTo(p)'
    <3>1. Query!Rank(Holders, p)' = n'
      BY <1>12, <2>4, <2>5 DEF Query!Rank
    <3>2. Len(text)' = p /\ Len(rest)' = Len(query)' - p
      BY <1>7, <2>6, <2>9
    <3>3. \A i \in 1..p : text'[i] = Query!Meant'[i]
      BY <1>12, <2>8
    <3>4. \A i \in 1..Len(rest)' : rest'[i] = Halfway(p + i, ToReplace)'
      BY <1>12, <2>9
    <3> QED
      BY <3>1, <3>2, <3>3, <3>4 DEF InterpolatedTo
  <2> QED
    BY <1>1, <1>7, <2>10
<1> QED
  BY <1>1, <1>13, <1>14

LEMMA InterpolateKeeps ==
  ASSUME QueryInv, Query!Interpolate
  PROVE  QueryInv'
<1>1. /\ Query!TypeOK /\ (~bound => values = 0) /\ phase = "interpolating"
      /\ UNCHANGED <<driver, call, bound, values, query>>
  BY DEF QueryInv, Query!Interpolate
<1>2. /\ Query!Careful' = Query!Careful /\ Query!Matching' = Query!Matching
      /\ Query!Meant' = Query!Meant /\ Query!Interpolated' = Query!Interpolated
      /\ Query!Uncounted' = Query!Uncounted
  BY <1>1, SameQuery
<1>3. Query!TypeOK'
  BY <1>1, InterpolateTyped
<1>4. Query!Careful => driver = "mysql" /\ Query!Interpolated /\ Query!Uncounted
  BY <1>1 DEF QueryInv, WhileInterpolating, Query!Interpolated, Query!Uncounted
<1>5. ASSUME Query!Careful, Query!Matching PROVE \E k \in 0..Len(query) : InterpolatedTo(k)
  BY <1>1, <1>5 DEF QueryInv, WhileInterpolating
<1>6. CASE rest = <<>>
  <2>1. phase' = "run" /\ UNCHANGED <<text, rest, n>>
    BY <1>6 DEF Query!Interpolate
  <2>2. ASSUME Query!Careful, Query!Matching PROVE text = Query!Meant
    <3>1. PICK k \in 0..Len(query) : InterpolatedTo(k)
      BY <1>5, <2>2
    <3>2. Len(query) \in Nat /\ Len(text) = Len(query) /\ \A i \in 1..Len(query) : text[i] = Query!Meant[i]
      <4>1. Len(query) \in Nat /\ k \in Nat /\ Len(rest) = 0
        BY <1>1, <1>6, QueryKnown
      <4>2. Len(text) = k /\ Len(rest) = Len(query) - k /\ \A i \in 1..k : text[i] = Query!Meant[i]
        BY <3>1 DEF InterpolatedTo
      <4>3. k = Len(query)
        BY <4>1, <4>2
      <4> QED
        BY <4>1, <4>2, <4>3
    <3>3. Query!Meant \in [1..Len(query) -> Query!Tokens]
      BY <1>1, MeantKnown
    <3>4. text \in Seq(Query!Tokens)
      BY <1>1 DEF Query!TypeOK
    <3>5. text \in [1..Len(query) -> Query!Tokens]
      BY <3>2, <3>4
    <3> QED
      BY <3>2, <3>3, <3>5
  <2>3. Query!RunAsMeant'
    BY <1>2, <1>4, <2>1, <2>2 DEF Query!RunAsMeant
  <2> QED
    BY <1>1, <1>3, <2>1, <2>3 DEF QueryInv, WhileRewriting, WhenSent, WhileInterpolating, Query!RefusedRightly
<1>7. CASE rest # <<>>
  <2>1. phase' = "interpolating"
    BY <1>1, <1>7 DEF Query!Interpolate
  <2>2. ASSUME Query!Careful, Query!Matching PROVE \E p \in 0..Len(query) : InterpolatedTo(p)'
    BY <1>1, <1>4, <1>5, <1>7, <2>2, PartPut
  <2>3. Query!Careful' => WhileInterpolating'
    <3>1. Len(query)' = Len(query) /\ driver' = driver
      BY <1>1
    <3> QED
      BY <1>2, <1>4, <2>2, <3>1 DEF WhileInterpolating
  <2> QED
    BY <1>1, <1>3, <2>1, <2>3 DEF QueryInv, WhileRewriting, WhenSent, Query!RunAsMeant, Query!RefusedRightly
<1> QED
  BY <1>6, <1>7

LEMMA QueryUnmoved == QueryInv /\ UNCHANGED Query!vars => QueryInv'
<1> SUFFICES ASSUME QueryInv, UNCHANGED Query!vars PROVE QueryInv'
  OBVIOUS
<1> USE DEF Query!vars
<1>1. UNCHANGED <<driver, call, bound, values, query>> /\ UNCHANGED <<text, rest, n, phase>>
  OBVIOUS
<1>2. /\ Query!Careful' = Query!Careful /\ Query!Matching' = Query!Matching
      /\ Query!Interpolated' = Query!Interpolated /\ Query!Meant' = Query!Meant
      /\ Query!Uncounted' = Query!Uncounted
      /\ Holders' = Holders /\ ToReplace' = ToReplace
      /\ \A i, D : Halfway(i, D)' = Halfway(i, D)
  BY <1>1, SameQuery
<1>3. Query!TypeOK'
  BY <1>1 DEF QueryInv, Query!TypeOK
<1>4. \A D : RewrittenAt(D)' = RewrittenAt(D) /\ FromLeft(D)' = FromLeft(D)
  BY <1>1, <1>2 DEF RewrittenAt, FromLeft
<1>5. \A k : InterpolatedTo(k)' = InterpolatedTo(k)
  BY <1>1, <1>2 DEF InterpolatedTo, Query!Rank
<1>6. WhileRewriting' = WhileRewriting /\ WhenSent' = WhenSent
  BY <1>1, <1>2, <1>4 DEF WhileRewriting, WhenSent, Query!Preprocessed
<1>7. WhileInterpolating' = WhileInterpolating
  BY <1>1, <1>2, <1>5 DEF WhileInterpolating
<1>8. Query!RunAsMeant' /\ Query!RefusedRightly'
  BY <1>1, <1>2 DEF QueryInv, Query!RunAsMeant, Query!RefusedRightly
<1> QED
  BY <1>1, <1>2, <1>3, <1>6, <1>7, <1>8 DEF QueryInv, Query!Preprocessed

LEMMA QueryHolds == Spec => []QueryInv
<1>1. Init => QueryInv
  BY QueryStarts, QueryRestsWell DEF Init
<1>2. QueryInv /\ [Next]_vars => QueryInv'
  BY OneMoves, RewriteFirstKeeps, RewriteDoneKeeps, InterpolateKeeps, ServeKeeps, QueryUnmoved
     DEF Query!Next
<1> QED
  BY <1>1, <1>2, PTL DEF Spec

(* What the server runs for a careful client is what it has written, each value *)
(* in its place, and it is refused, or reads behind the values, only for      *)
(* their number.  For MySQL, which does not count the values it is given, the *)
(* first holds when their number is right (mysql/common.cc:13-60,            *)
(* mysql/statement.cc:34-58, pg/common.cc:17-37).                           *)
THEOREM QueryRunAsMeant == Spec => []RunAsMeant
<1>1. QueryInv => RunAsMeant
  BY DEF QueryInv, RunAsMeant
<1> QED
  BY <1>1, QueryHolds, PTL

(* The state of each of the three is of its type (common.cc of each driver,   *)
(* binary_result.cc, dbic++.cc).                                           *)
THEOREM ValuesTyped == Spec => []TypeOK
<1>1. QueryInv => Query!TypeOK
  BY DEF QueryInv
<1>2. RegistryInv => Registry!TypeOK
  BY DEF RegistryInv
<1>3. QueryInv /\ RowInv /\ RegistryInv => TypeOK
  BY <1>1, <1>2, RowTyped DEF TypeOK
<1> QED
  BY <1>3, QueryHolds, RowHolds, RegistryHolds, PTL

=============================================================================
