--------------------------- MODULE DriverRecipes ---------------------------
(***************************************************************************)
(* What each kernel module of the repository registers when it is loaded,  *)
(* what it undoes when a step of its init fails, what its exit function    *)
(* releases, and what its handlers use.  DriverLife runs these recipes.    *)
(***************************************************************************)
EXTENDS Naturals, Sequences

\* The module writes nothing down about a failure it does not test for: a
\* kernel function reports it as a negative number, as NULL or as an error
\* pointer, and a test for another of these does not see it.
ErrorOf ==
  [number |-> "negative", cdev |-> "negative", attr |-> "negative",
   major |-> "negative", platform |-> "negative", pin |-> "negative",
   base |-> "negative",
   class |-> "errptr", device |-> "errptr", thread |-> "errptr",
   iomem |-> "errptr",
   memory |-> "null", procdir |-> "null", procfile |-> "null",
   kobject |-> "null", mapping |-> "null", node |-> "null",
   queue |-> "never", bound |-> "never"]
Resources == DOMAIN ErrorOf

\* One step of an init function: what it acquires, the failure it tests for
\* ("used": none, the result is used at once) and what it then undoes.  Most
\* failures end the init function; "go on" returns 0 all the same.
Step(what, test, undo) ==
  [what |-> what, test |-> test, undo |-> undo, next |-> "abort"]
Tolerate(what, test, undo) ==
  [what |-> what, test |-> test, undo |-> undo, next |-> "go on"]

\* What each release call takes away.  A region is found again only under
\* the count it was allocated with, which is 1 in every driver.
Releases ==
  [unregister_1 |-> {"number"}, unregister_3 |-> {}, cdev_del |-> {"cdev"},
   class_destroy |-> {"class"}, device_destroy |-> {"device"},
   kfree |-> {"memory"}, proc_remove |-> {"procdir", "procfile"},
   kobject_put |-> {"kobject", "attr"}, iounmap |-> {"mapping"},
   wake_thread |-> {}, unregister_chrdev |-> {"major"},
   devm_release |-> {"iomem", "bound"}, unbind |-> {"bound"},
   driver_unregister |-> {"platform"}]

----------------------------------------------------------------------------
(* Character drivers.                                                      *)

\* The slip: the number is forgotten.
UndoNothing == <<>>
UndoNumber == <<"unregister_1">>
UndoClass  == <<"class_destroy">> \o UndoNumber
UndoDevice == <<"device_destroy">> \o UndoClass

DeviceFileInit ==
  << Step("number", "negative", <<>>), Step("cdev", "negative", UndoNumber),
     Step("class", "null", UndoNumber), Step("device", "null", UndoClass) >>
DeviceFileExit ==
  <<"device_destroy", "class_destroy", "cdev_del", "unregister_3">>

FileOperationInit == Append(DeviceFileInit, Step("memory", "null", UndoDevice))
FileOperationExit ==
  <<"kfree", "device_destroy", "class_destroy", "cdev_del", "unregister_1">>
FopsInit  == FileOperationInit
FopsExit  == FileOperationExit
IoctlInit == FileOperationInit
IoctlExit == FileOperationExit

ProcfsInit ==
  DeviceFileInit \o << Step("procdir", "null", UndoDevice),
                       Step("procfile", "none", <<>>) >>
\* The slip: the entry stays.
ProcfsExitKeeps ==
  <<"device_destroy", "class_destroy", "cdev_del", "unregister_1">>
ProcfsExit ==
  <<"proc_remove", "device_destroy", "class_destroy", "cdev_del",
    "unregister_1">>

\* The labels of sysfs.c differ: rm_sysfs falls through to rm_class, past
\* device_destroy, and every one of them ends with cdev_del.
SysfsUndo(steps) == steps \o <<"unregister_1", "cdev_del">>
SysfsInit ==
  << Step("number", "negative", <<>>),
     Step("cdev", "negative", SysfsUndo(<<>>)),
     Step("class", "null", SysfsUndo(<<>>)),
     Step("device", "null", SysfsUndo(<<"class_destroy">>)),
     Step("kobject", "none", <<>>),
     Step("attr", "negative",
          SysfsUndo(<<"kobject_put", "class_destroy">>)) >>
SysfsExit == <<"kobject_put">> \o DeviceFileExit

StaticWaitInit  == Append(DeviceFileInit, Step("thread", "used", <<>>))
DynamicWaitInit ==
  DeviceFileInit \o << Step("queue", "none", <<>>),
                       Step("thread", "used", <<>>) >>
StaticWaitExit  == <<"wake_thread">> \o DeviceFileExit
DynamicWaitExit == StaticWaitExit

DevNumbInit    == << Step("major", "negative", <<>>) >>
DevNumbExit    == <<"unregister_chrdev">>
MajorMinorInit == << Step("number", "negative", <<>>) >>
MajorMinorExit == <<"unregister_1">>

----------------------------------------------------------------------------
(* Platform drivers: the init function registers the driver, and the driver *)
(* core probes the device, which ends with "bound" when probe returns 0.   *)

PlatformInit == << Step("platform", "negative", <<>>) >>
PlatformExit == <<"driver_unregister">>

VirtualProbe  == << Step("iomem", "errptr", <<>>), Step("bound", "none", <<>>) >>
VirtualRemove == <<"devm_release">>

\* Pin, bank and its registers' address come from the device tree, untested;
\* of_parse_phandle takes a reference on the node that nothing puts.
LedProbe ==
  << Step("memory", "used", <<>>), Step("pin", "none", <<>>),
     Step("node", "none", <<>>), Step("base", "none", <<>>),
     Step("mapping", "null", <<>>),
     Step("kobject", "null", <<>>),
     Tolerate("attr", "negative", <<"kobject_put">>),
     Step("bound", "none", <<>>) >>
\* The slip: the attribute goes last.
LedRemoveLate == <<"iounmap", "kfree", "kobject_put", "unbind">>
LedRemove == <<"kobject_put", "iounmap", "kfree", "unbind">>

----------------------------------------------------------------------------
Recipe(init, exit) ==
  [init |-> init, probe |-> <<>>, remove |-> <<>>, exit |-> exit]
PlatformRecipe(probe, remove) ==
  [init |-> PlatformInit, probe |-> probe, remove |-> remove,
   exit |-> PlatformExit]

Recipes ==
  [device_file |-> Recipe(DeviceFileInit, DeviceFileExit),
   file_operation |-> Recipe(FileOperationInit, FileOperationExit),
   fops |-> Recipe(FopsInit, FopsExit),
   ioctl |-> Recipe(IoctlInit, IoctlExit),
   procfs |-> Recipe(ProcfsInit, ProcfsExit),
   sysfs |-> Recipe(SysfsInit, SysfsExit),
   static_waitqueue |-> Recipe(StaticWaitInit, StaticWaitExit),
   dynamic_waitqueue |-> Recipe(DynamicWaitInit, DynamicWaitExit),
   dev_numb |-> Recipe(DevNumbInit, DevNumbExit),
   major_minor |-> Recipe(MajorMinorInit, MajorMinorExit),
   virtual_driver |-> PlatformRecipe(VirtualProbe, VirtualRemove),
   led_reconf |-> PlatformRecipe(LedProbe, LedRemove)]
Drivers == DOMAIN Recipes

\* What the handlers of a device file, and those of a proc or sysfs entry,
\* dereference besides the module's own variables.
Uses(file, entry) == [file |-> file, attr |-> entry]

DeviceFileUses    == Uses({}, {})
FileOperationUses == Uses({"memory"}, {})
FopsUses          == Uses({"memory"}, {})
IoctlUses         == Uses({"memory"}, {})
ProcfsUses        == Uses({}, {})
SysfsUses         == Uses({}, {})
StaticWaitUses    == Uses({}, {})
DynamicWaitUses   == Uses({"queue"}, {})
DevNumbUses       == Uses({}, {})
LedUses           == Uses({}, {"memory", "base", "mapping"})
NoHandlers        == Uses({}, {})

Needs(d, way) ==
  [device_file |-> DeviceFileUses, file_operation |-> FileOperationUses,
   fops |-> FopsUses, ioctl |-> IoctlUses, procfs |-> ProcfsUses,
   sysfs |-> SysfsUses, static_waitqueue |-> StaticWaitUses,
   dynamic_waitqueue |-> DynamicWaitUses, dev_numb |-> DevNumbUses,
   major_minor |-> NoHandlers, virtual_driver |-> NoHandlers,
   led_reconf |-> LedUses][d][way]

\* Where a user enters the module, and the release calls that end it there.
Entries(way) == IF way = "file" THEN {"cdev", "major"} ELSE {"procfile", "attr"}
=============================================================================
