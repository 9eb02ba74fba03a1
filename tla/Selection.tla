------------------------------ MODULE Selection ------------------------------
(***************************************************************************)
(* How a run of either tool finds its board.                               *)
(*                                                                         *)
(* The standard tool enumerates the USB devices once per product id, joins *)
(* the lists, checks that it could read the strings, and selects by        *)
(* serial number (-n), geographical address (-g), index (-i) or because    *)
(* there is only one; hid_open then enumerates again.  The minimal tool    *)
(* opens /dev/hidraw0, 1, ... in turn, closes them, and opens one of them  *)
(* again.  Boards may restart, with other firmware, between any two steps. *)
(* A board is named by its place on the bus, which is what a path of the   *)
(* libusb backend spells; a hidraw number is not tied to a board.          *)
(***************************************************************************)
EXTENDS Conversions, BusOrder, FiniteSetsExt

CONSTANTS
    BoardMax,   \* bound: boards are 1 .. BoardMax, in bus order
    NodeMax,    \* hidraw numbers are 0 .. NodeMax; 255 in the minimal tool
    Serials,    \* the serial number of each board
    Geos,       \* the geographical address of each board
    Releases,   \* the firmware releases a board may start with
    RestartMax, \* bound: the boards that are disturbed in one run
    FlawMax     \* bound: the devices of one enumeration that lack strings

Board == 1 .. BoardMax
Node  == 0 .. NodeMax

(* There are enough hidraw numbers to scan for all boards: Linux has 64.   *)
ASSUME SelectionAssumption ==
    /\ BoardMax \in Nat \ {0} /\ NodeMax \in Nat /\ BoardMax <= NodeMax + 1
    /\ Serials \in [Board -> Nat] /\ Geos \in [Board -> Nat]
    /\ Releases \subseteq Nat
    /\ RestartMax \in Nat /\ FlawMax \in Nat

NoBoard == 0
NoNode  == -1

VARIABLES
    kind,       \* the type of the boards: types are not mixed in a system
    up,         \* the boards that are enumerated now
    release,    \* the firmware of each board
    node,       \* the hidraw number of each board
    disturbed,  \* history: boards that restarted or changed node during the run
    tool,       \* the tool that runs, and what it was asked for
    ask,
    at,         \* the next step of the run
    pass,       \* the next product id to enumerate, or hidraw number to scan
    list,       \* the devices found so far
    sel,        \* the place in list, or the hidraw number, of the device selected
    path,       \* the path the standard tool opens
    opened,     \* the board behind the handle, NoBoard for a bad or stale handle
    name,       \* g_board_name
    version,    \* g_fw_version
    excuse      \* history: a string was not there or an open was refused

bus  == <<kind, up, release, node, disturbed>>
args == <<tool, ask>>
run  == <<at, pass, list, sel, path, opened, name, version, excuse>>
vars == <<bus, args, run>>

Kinds == {"F229", "ME10", "G239", "G227"}

(* valid_usb_pids, as places in that array: before release 2.00 all boards *)
(* had the first one.                                                      *)
Pid(b) ==
    CASE kind = "ME10" /\ GetFwVersionAsInt(release[b]) >= 200 -> 2
      [] kind = "G239" /\ GetFwVersionAsInt(release[b]) >= 200 -> 3
      [] OTHER -> 1

(* What hid_enumerate says of a device: get_usb_string may fail for each   *)
(* string, and all strings are missing when the device cannot be opened.   *)
Strings == {"all", "none", "noProduct", "noSerial", "noGeo"}

Info(b, strings) == [board |-> b, pid |-> Pid(b), release |-> release[b], strings |-> strings]

HasProduct(d) == d.strings \notin {"none", "noProduct"}
HasSerial(d)  == d.strings \notin {"none", "noSerial"}
HasGeo(d)     == d.strings \notin {"none", "noGeo"}

-----------------------------------------------------------------------------
(* The boards.                                                             *)

(* The numbers a board may get; other HID devices have some of them.  The  *)
(* standard tool does not look at them, and one is enough for its runs.    *)
FreeNodes ==
    LET free == Node \ {node[b] : b \in Board}
    IN IF tool = "minimal" THEN free ELSE {Min(free)}

(* A handle on b no longer reaches it. *)
HandleLost(b) ==
    /\ opened' = IF opened = b THEN NoBoard ELSE opened
    /\ UNCHANGED <<at, pass, list, sel, path, name, version, excuse>>

(* A board goes away: a restart, a firmware update, a power cycle. *)
Vanish(b) ==
    /\ b \in up /\ b \notin disturbed /\ Cardinality(disturbed) < RestartMax
    /\ up' = up \ {b}
    /\ node' = [node EXCEPT ![b] = NoNode]
    /\ disturbed' = disturbed \cup {b}
    /\ HandleLost(b)
    /\ UNCHANGED <<kind, release, args>>

(* It enumerates again, perhaps with other firmware; hid gives it a free   *)
(* number, not always its old one.                                         *)
Appear(b) ==
    /\ b \in disturbed \ up
    /\ up' = up \cup {b}
    /\ release' \in {[release EXCEPT ![b] = r] : r \in Releases}
    /\ node' \in {[node EXCEPT ![b] = n] : n \in FreeNodes}
    /\ UNCHANGED <<kind, disturbed, args, run>>

(* Another standard run takes the kernel driver away or puts it back. *)
Rebind(b) ==
    /\ tool = "minimal"
    /\ b \in up /\ b \notin disturbed /\ Cardinality(disturbed) < RestartMax
    /\ node' \in {[node EXCEPT ![b] = n] : n \in FreeNodes \cup {NoNode}}
    /\ disturbed' = disturbed \cup {b}
    /\ HandleLost(b)
    /\ UNCHANGED <<kind, up, release, args>>

-----------------------------------------------------------------------------
(* hid_enumerate, and the standard tool up to its selection.               *)

Stays == UNCHANGED <<bus, args>>

Ends(how) == at' = how /\ UNCHANGED <<pass, list, sel, path, opened, name, version>>

(* The strings that are read of the devices of one enumeration. *)
Readings(places) ==
    {read \in [places -> Strings] : Cardinality({i \in places : read[i] # "all"}) <= FlawMax}

(* The devices with product id pid, in bus order.  Each device is opened   *)
(* and asked for its strings; one that has gone is not in libusb's list.   *)
HidEnumerate(pid) ==
    UNION {{[i \in DOMAIN found |-> Info(found[i], read[i])] : read \in Readings(DOMAIN found)} :
              found \in InBusOrder({b \in up : Pid(b) = pid})}

(* main appends the devices of one product id to those before. *)
Join(l, m) == l \o m

Enumerate ==
    /\ at = "enumerate"
    /\ \E devices \in HidEnumerate(pass) :
         /\ list' = Join(list, devices)
         /\ excuse' = (excuse \/ \E i \in DOMAIN devices : devices[i].strings # "all")
    /\ IF pass = 3 THEN at' = "check" /\ UNCHANGED pass
                   ELSE pass' = pass + 1 /\ UNCHANGED at
    /\ Stays /\ UNCHANGED <<sel, path, opened, name, version>>

(* Mutant: only the product string is checked. *)
CheckProductOnly == list # <<>> /\ \A i \in DOMAIN list : HasProduct(list[i])

(* CheckAvailableDevices: one device without strings fails the whole run. *)
CheckAvailableDevices ==
    list # <<>> /\ \A i \in DOMAIN list : HasProduct(list[i]) /\ HasSerial(list[i])

(* The name that belongs to a product id, which the minimal tool uses. *)
NameByPid(d) == <<"F229", "ME10", "G239">>[d.pid]

(* The type of the first device: by its product id, or for the first       *)
(* product id by the product string.                                       *)
BoardName(d) == CASE d.pid = 2 -> "ME10" [] d.pid = 3 -> "G239" [] OTHER -> kind

Check ==
    /\ at = "check"
    /\ IF CheckAvailableDevices /\ BoardName(list[1]) # "G227"
       THEN /\ name' = BoardName(list[1])
            /\ at' = "select"
            /\ UNCHANGED <<pass, list, sel, path, opened, version>>
       ELSE Ends("failed")
    /\ Stays /\ UNCHANGED excuse

(* PrintDeviceList converts the strings of every device. *)
PrintDeviceList ==
    /\ ask.by = "list"
    /\ Ends(IF \A i \in DOMAIN list : HasSerial(list[i]) /\ HasGeo(list[i])
            THEN "ok" ELSE "crashed")

(* The device at place i is selected, and its path is opened next. *)
Chosen(i, next) ==
    /\ sel' = i /\ path' = list[i].board /\ at' = next
    /\ UNCHANGED <<pass, list, opened, name, version>>

(* The walk along the list to the first device with one of the places in   *)
(* hits: it converts the string of every device it passes, and one that is *)
(* missing, not at one of the places in known, is a null pointer.          *)
Walk(known, hits, next) ==
    IF \E i \in DOMAIN list \ known : \A h \in hits : i < h
    THEN Ends("crashed")
    ELSE IF hits = {} THEN Ends("failed") ELSE Chosen(Min(hits), next)

(* -n: no serial numbers on an ME10. *)
SelectBySerial ==
    LET known == {i \in DOMAIN list : HasSerial(list[i])}
    IN /\ ask.by = "serial"
       /\ IF name = "ME10" THEN Ends("failed")
          ELSE Walk(known, {i \in known : Serials[list[i].board] = ask.arg}, "reopen")

SelectByGeo ==
    LET known == {i \in DOMAIN list : HasGeo(list[i])}
    IN ask.by = "geo" /\ Walk(known, {i \in known : Geos[list[i].board] = ask.arg}, "openPath")

(* Mutant: the walk stops before the last device. *)
SelectByIndexShort ==
    /\ ask.by = "index"
    /\ IF ask.arg < Len(list) THEN Chosen(ask.arg, "openPath") ELSE Ends("failed")

SelectByIndex ==
    /\ ask.by = "index"
    /\ IF ask.arg \in DOMAIN list THEN Chosen(ask.arg, "openPath") ELSE Ends("failed")

SelectOnly ==
    /\ ask.by = "only"
    /\ IF Len(list) = 1 THEN Chosen(1, "openPath") ELSE Ends("failed")

Select ==
    /\ at = "select"
    /\ PrintDeviceList \/ SelectBySerial \/ SelectByGeo \/ SelectByIndex \/ SelectOnly
    /\ Stays /\ UNCHANGED excuse

(* hid_open enumerates the product id again and opens the first device     *)
(* with the serial number of the one selected.                             *)
HidOpen ==
    /\ at = "reopen"
    /\ \E devices \in HidEnumerate(list[sel].pid) :
         LET same == {i \in DOMAIN devices :
                        /\ HasSerial(devices[i])
                        /\ Serials[devices[i].board] = Serials[list[sel].board]}
         IN /\ excuse' = (excuse \/ \E i \in DOMAIN devices : devices[i].strings # "all")
            /\ IF same = {}
               THEN Ends("failed")
               ELSE /\ path' = devices[Min(same)].board
                    /\ at' = "openPath"
                    /\ UNCHANGED <<pass, list, sel, opened, name, version>>
    /\ Stays

(* Mutant: the version is taken from the first device of the list. *)
VersionOfFirst == StoredFwVersion(list[1].release)

VersionOfSelected == StoredFwVersion(list[sel].release)

(* hid_open_path: the path is looked for once more, and opening it may     *)
(* fail (UsbInterface).  With -i main then prints the geographical address *)
(* without having looked at it.                                            *)
HidOpenPath ==
    /\ at = "openPath"
    /\ \/ /\ Ends("failed")
          /\ excuse' = TRUE
       \/ /\ path \in up
          /\ IF ask.by = "index" /\ ~HasGeo(list[sel])
             THEN Ends("crashed")
             ELSE /\ opened' = path
                  /\ version' = VersionOfSelected
                  /\ at' = "commands"
                  /\ UNCHANGED <<pass, list, sel, path, name>>
          /\ UNCHANGED excuse
    /\ Stays

-----------------------------------------------------------------------------
(* The minimal tool.                                                       *)

(* OpenDevice on a hidraw number: the board that has it, or an error. *)
OpenDevice(n) == {b \in up : node[b] = n} \cup {NoBoard}

(* Mutant: the place of the board asked for is noted one board too late. *)
SelectedLate(n, count) ==
    IF ask.by = "index" THEN IF ask.arg = count - 1 THEN n ELSE sel
    ELSE IF sel = 0 THEN n ELSE sel

(* index_selected_hidraw, or first_valid_hidraw, after board number count  *)
(* was found at n.                                                         *)
Selected(n, count) ==
    IF ask.by = "index" THEN IF ask.arg = count THEN n ELSE sel
    ELSE IF sel = 0 THEN n ELSE sel

(* One step of the scan; it closes what it opens. *)
Scan ==
    /\ at = "scan"
    /\ \E b \in OpenDevice(pass) :
         IF b = NoBoard
         THEN /\ excuse' = (excuse \/ \E c \in up : node[c] = pass)
              /\ UNCHANGED <<list, sel, name>>
         ELSE /\ list' = Append(list, Info(b, "all"))
              /\ sel' = Selected(pass, Len(list) + 1)
              /\ name' = NameByPid(Info(b, "all"))
              /\ UNCHANGED excuse
    /\ IF pass = NodeMax THEN at' = (IF ask.by = "list" THEN "ok" ELSE "open") /\ UNCHANGED pass
                         ELSE pass' = pass + 1 /\ UNCHANGED at
    /\ Stays /\ UNCHANGED <<path, opened, version>>

(* The commands follow, also with a bad handle: main tests !hdev, but a    *)
(* failed OpenDevice returns a negative number.                            *)
Proceeds(b) ==
    /\ opened' = b
    /\ name' = IF b = NoBoard THEN name ELSE NameByPid(Info(b, "all"))
    /\ excuse' = (excuse \/ b = NoBoard)
    /\ at' = "commands"
    /\ UNCHANGED <<pass, list, sel, path, version>>

(* The board is opened again, by the number that was noted or given. *)
Open ==
    /\ at = "open"
    /\ \/ /\ ask.by = "path"
          /\ \E b \in OpenDevice(ask.arg) :
               IF b = NoBoard THEN Ends("failed") /\ excuse' = TRUE ELSE Proceeds(b)
       \/ /\ ask.by = "index" /\ ask.arg <= Len(list)
          /\ \E b \in OpenDevice(sel) : Proceeds(b)
       \/ /\ ask.by = "only" /\ Len(list) = 1
          /\ \E b \in OpenDevice(sel) : Proceeds(b)
       \/ /\ \/ ask.by = "index" /\ ask.arg > Len(list)
             \/ ask.by = "only" /\ Len(list) # 1
          /\ Ends("failed") /\ UNCHANGED excuse
    /\ Stays

-----------------------------------------------------------------------------
(* A run on boards that come and go, each at most once in a run.           *)

Asks(t) ==
    [by : {"list", "only"}, arg : {0}]
    \cup [by : {"index"}, arg : 1 .. BoardMax + 1]
    \cup IF t = "std" THEN [by : {"serial"}, arg : {Serials[b] : b \in Board} \cup {BoardMax + 9}]
                              \cup [by : {"geo"}, arg : {Geos[b] : b \in Board} \cup {BoardMax + 9}]
                      ELSE [by : {"path"}, arg : Node]

SelectionInit ==
    /\ kind \in Kinds
    /\ up \in SUBSET Board
    /\ release \in [Board -> Releases]
    /\ node = [b \in Board |-> IF b \in up THEN b - 1 ELSE NoNode]
    /\ disturbed = {}
    /\ tool \in {"std", "minimal"}
    /\ ask \in Asks(tool)
    /\ at = IF tool = "std" THEN "enumerate" ELSE IF ask.by = "path" THEN "open" ELSE "scan"
    /\ pass = IF tool = "std" THEN 1 ELSE 0
    /\ list = <<>> /\ sel = 0 /\ path = NoBoard /\ opened = NoBoard
    /\ name = "none" /\ version = 0
    /\ excuse = FALSE

SelectionNext ==
    \/ Enumerate \/ Check \/ Select \/ HidOpen \/ HidOpenPath
    \/ Scan \/ Open
    \/ \E b \in Board : Vanish(b) \/ Appear(b) \/ Rebind(b)

SelectionSpec == SelectionInit /\ [][SelectionNext]_vars

-----------------------------------------------------------------------------
(* Properties.                                                             *)

(* b is what the user asked for, among the devices the run has listed. *)
Meant(b) ==
    CASE ask.by = "serial" -> Serials[b] = ask.arg
      [] ask.by = "geo"    -> Geos[b] = ask.arg
      [] ask.by = "index"  -> ask.arg \in DOMAIN list /\ list[ask.arg].board = b
      [] ask.by = "only"   -> Len(list) = 1 /\ list[1].board = b
      [] OTHER             -> TRUE

(* The commands of a run reach the board that was meant, although boards   *)
(* restart between the enumerations and a hidraw number may by then belong *)
(* to another board: that can only be one that got its number during the   *)
(* run.  A bad or stale handle reaches no board.                           *)
RightBoard ==
    at = "commands" /\ opened # NoBoard =>
        Meant(opened) \/ (tool = "minimal" /\ opened \in disturbed)

(* The firmware version that decides on the workarounds of -p and -r is    *)
(* that of the board opened, unless that board restarted during the run or *)
(* -n was given a serial number that two boards have: then hid_open may    *)
(* find the other one.                                                     *)
VersionOfOpened ==
    at = "commands" /\ tool = "std" /\ opened \notin disturbed \cup {NoBoard} =>
        \/ version = StoredFwVersion(release[opened])
        \/ ask.by = "serial" /\ \E b \in Board \ {opened} : Serials[b] = ask.arg

(* The board name, on which the number of SIM cards and the refusals       *)
(* depend, is right also for boards whose old firmware has the product id  *)
(* of an F229; only the minimal tool, which does not read the product      *)
(* string, takes those for an F229.                                        *)
NameIsKind ==
    at = "commands" /\ opened # NoBoard =>
        \/ name = kind
        \/ tool = "minimal" /\ name = "F229" /\ Pid(opened) = 1

(* CheckAvailableDevices makes the later conversions of product string and *)
(* serial number safe, also with several enumerations: a run crashes on a  *)
(* null pointer only where a geographical address could not be read.       *)
CrashOnlyWithoutGeo ==
    at = "crashed" => \E i \in DOMAIN list : list[i].strings = "noGeo"

(* A run that fails before its commands had a reason: nothing was refused  *)
(* or missing, no board came or went, and still what was asked for is not  *)
(* there or not unique.                                                    *)
FailsForAReason ==
    at = "failed" /\ ~excuse /\ disturbed = {} =>
        \/ up = {} \/ kind = "G227"
        \/ ask.by = "serial" /\ (kind = "ME10" \/ \A b \in up : Serials[b] # ask.arg)
        \/ ask.by = "geo" /\ \A b \in up : Geos[b] # ask.arg
        \/ ask.by = "index" /\ ask.arg > Cardinality(up)
        \/ ask.by = "only" /\ Cardinality(up) # 1

=============================================================================
