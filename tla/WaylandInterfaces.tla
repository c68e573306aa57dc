------------------------- MODULE WaylandInterfaces -------------------------
(***************************************************************************)
(* The messages of the generated code of wayland/client, wayland/xdg_shell *)
(* and wayland/ext_data_control: for each interface its requests and its   *)
(* events, a message at the place of its opcode, with the arguments the    *)
(* request method takes and puts, or Dispatch reads.  An interface with    *)
(* many of them has several definitions, _4 beginning at opcode 4.         *)
(***************************************************************************)
EXTENDS Sequences

None == "none"
Arg(type, of) == [type |-> type, of |-> of]

uint   == Arg("uint", None)
int    == Arg("int", None)
fixed  == Arg("fixed", None)
string == Arg("string", None)
array  == Arg("array", None)
fd     == Arg("fd", None)
object(interface) == Arg("object", interface)
maybe(interface)  == Arg("maybe", interface)    \* an object or null
new(interface)    == Arg("new", interface)      \* a new_id of a known interface
global == Arg("global", None)                   \* new_id of Registry.Bind: interface, version, id
any    == Arg("any", None)                      \* an object of any interface
maybeString == Arg("maybeString", None)

Request(name, args)    == [name |-> name, args |-> args, destructor |-> FALSE]
Destructor(name, args) == [name |-> name, args |-> args, destructor |-> TRUE]
Event(name, args)      == [name |-> name, args |-> args]

-----------------------------------------------------------------------------

wl_display_requests ==
  <<Request("Sync", <<new("wl_callback")>>), Request("GetRegistry", <<new("wl_registry")>>)>>
wl_display_events == <<Event("Error", <<any, uint, string>>), Event("DeleteId", <<uint>>)>>

wl_registry_requests == <<Request("Bind", <<uint, global>>)>>
wl_registry_events == <<Event("Global", <<uint, string, uint>>), Event("GlobalRemove", <<uint>>)>>

wl_callback_events == <<Event("Done", <<uint>>)>>

wl_compositor_requests ==
  <<Request("CreateSurface", <<new("wl_surface")>>),
    Request("CreateRegion", <<new("wl_region")>>)>>

wl_shm_pool_requests ==
  <<Request("CreateBuffer", <<new("wl_buffer"), int, int, int, int, uint>>),
    Destructor("Destroy", <<>>), Request("Resize", <<int>>)>>

wl_shm_requests ==
  <<Request("CreatePool", <<new("wl_shm_pool"), fd, int>>), Destructor("Release", <<>>)>>
wl_shm_events == <<Event("Format", <<uint>>)>>

wl_buffer_requests == <<Destructor("Destroy", <<>>)>>
wl_buffer_events == <<Event("Release", <<>>)>>

wl_data_offer_requests ==
  <<Request("Accept", <<uint, string>>), Request("Receive", <<string, fd>>),
    Destructor("Destroy", <<>>), Request("Finish", <<>>)>>
wl_data_offer_requests_4 == <<Request("SetActions", <<uint, uint>>)>>
wl_data_offer_events ==
  <<Event("Offer", <<string>>), Event("SourceActions", <<uint>>), Event("Action", <<uint>>)>>

wl_data_source_requests ==
  <<Request("Offer", <<string>>), Destructor("Destroy", <<>>), Request("SetActions", <<uint>>)>>
wl_data_source_events ==
  <<Event("Target", <<maybeString>>), Event("Send", <<string, fd>>), Event("Cancelled", <<>>),
    Event("DndDropPerformed", <<>>), Event("DndFinished", <<>>), Event("Action", <<uint>>)>>

wl_data_device_requests ==
  <<Request("StartDrag", <<maybe("wl_data_source"), object("wl_surface"), maybe("wl_surface"), uint>>),
    Request("SetSelection", <<maybe("wl_data_source"), uint>>), Destructor("Release", <<>>)>>
wl_data_device_events ==
  <<Event("DataOffer", <<new("wl_data_offer")>>),
    Event("Enter", <<uint, object("wl_surface"), fixed, fixed, maybe("wl_data_offer")>>),
    Event("Leave", <<>>), Event("Motion", <<uint, fixed, fixed>>), Event("Drop", <<>>),
    Event("Selection", <<maybe("wl_data_offer")>>)>>

wl_data_device_manager_requests ==
  <<Request("CreateDataSource", <<new("wl_data_source")>>),
    Request("GetDataDevice", <<new("wl_data_device"), object("wl_seat")>>)>>

wl_shell_requests ==
  <<Request("GetShellSurface", <<new("wl_shell_surface"), object("wl_surface")>>)>>

wl_shell_surface_requests ==
  <<Request("Pong", <<uint>>), Request("Move", <<object("wl_seat"), uint>>),
    Request("Resize", <<object("wl_seat"), uint, uint>>), Request("SetToplevel", <<>>),
    Request("SetTransient", <<object("wl_surface"), int, int, uint>>)>>
wl_shell_surface_requests_5 ==
  <<Request("SetFullscreen", <<uint, uint, maybe("wl_output")>>),
    Request("SetPopup", <<object("wl_seat"), uint, object("wl_surface"), int, int, uint>>)>>
wl_shell_surface_requests_7 ==
  <<Request("SetMaximized", <<maybe("wl_output")>>), Request("SetTitle", <<string>>),
    Request("SetClass", <<string>>)>>
wl_shell_surface_events ==
  <<Event("Ping", <<uint>>), Event("Configure", <<uint, int, int>>), Event("PopupDone", <<>>)>>

wl_surface_requests ==
  <<Destructor("Destroy", <<>>), Request("Attach", <<maybe("wl_buffer"), int, int>>)>>
wl_surface_requests_2 ==
  <<Request("Damage", <<int, int, int, int>>), Request("Frame", <<new("wl_callback")>>)>>
wl_surface_requests_4 ==
  <<Request("SetOpaqueRegion", <<maybe("wl_region")>>),
    Request("SetInputRegion", <<maybe("wl_region")>>), Request("Commit", <<>>)>>
wl_surface_requests_7 ==
  <<Request("SetBufferTransform", <<int>>), Request("SetBufferScale", <<int>>)>>
wl_surface_requests_9 ==
  <<Request("DamageBuffer", <<int, int, int, int>>), Request("Offset", <<int, int>>)>>
wl_surface_events ==
  <<Event("Enter", <<object("wl_output")>>), Event("Leave", <<object("wl_output")>>),
    Event("PreferredBufferScale", <<int>>), Event("PreferredBufferTransform", <<uint>>)>>

wl_seat_requests ==
  <<Request("GetPointer", <<new("wl_pointer")>>), Request("GetKeyboard", <<new("wl_keyboard")>>),
    Request("GetTouch", <<new("wl_touch")>>), Destructor("Release", <<>>)>>
wl_seat_events == <<Event("Capabilities", <<uint>>), Event("Name", <<string>>)>>

wl_pointer_requests ==
  <<Request("SetCursor", <<uint, maybe("wl_surface"), int, int>>), Destructor("Release", <<>>)>>
wl_pointer_events ==
  <<Event("Enter", <<uint, object("wl_surface"), fixed, fixed>>),
    Event("Leave", <<uint, object("wl_surface")>>), Event("Motion", <<uint, fixed, fixed>>),
    Event("Button", <<uint, uint, uint, uint>>), Event("Axis", <<uint, uint, fixed>>),
    Event("Frame", <<>>), Event("AxisSource", <<uint>>), Event("AxisStop", <<uint, uint>>),
    Event("AxisDiscrete", <<uint, int>>), Event("AxisValue120", <<uint, int>>)>>
wl_pointer_events_10 == <<Event("AxisRelativeDirection", <<uint, uint>>)>>

wl_keyboard_requests == <<Destructor("Release", <<>>)>>
wl_keyboard_events ==
  <<Event("Keymap", <<uint, fd, uint>>), Event("Enter", <<uint, object("wl_surface"), array>>),
    Event("Leave", <<uint, object("wl_surface")>>), Event("Key", <<uint, uint, uint, uint>>),
    Event("Modifiers", <<uint, uint, uint, uint, uint>>), Event("RepeatInfo", <<int, int>>)>>

wl_touch_requests == <<Destructor("Release", <<>>)>>
wl_touch_events ==
  <<Event("Down", <<uint, uint, object("wl_surface"), int, fixed, fixed>>),
    Event("Up", <<uint, uint, int>>), Event("Motion", <<uint, int, fixed, fixed>>),
    Event("Frame", <<>>), Event("Cancel", <<>>), Event("Shape", <<int, fixed, fixed>>),
    Event("Orientation", <<int, fixed>>)>>

wl_output_requests == <<Destructor("Release", <<>>)>>
wl_output_events ==
  <<Event("Geometry", <<int, int, int, int, int, string, string, int>>),
    Event("Mode", <<uint, int, int, int>>), Event("Done", <<>>), Event("Scale", <<int>>),
    Event("Name", <<string>>), Event("Description", <<string>>)>>

wl_region_requests ==
  <<Destructor("Destroy", <<>>), Request("Add", <<int, int, int, int>>),
    Request("Subtract", <<int, int, int, int>>)>>

wl_subcompositor_requests ==
  <<Destructor("Destroy", <<>>),
    Request("GetSubsurface", <<new("wl_subsurface"), object("wl_surface"), object("wl_surface")>>)>>

wl_subsurface_requests ==
  <<Destructor("Destroy", <<>>), Request("SetPosition", <<int, int>>),
    Request("PlaceAbove", <<object("wl_surface")>>),
    Request("PlaceBelow", <<object("wl_surface")>>), Request("SetSync", <<>>)>>
wl_subsurface_requests_5 == <<Request("SetDesync", <<>>)>>

wl_fixes_requests ==
  <<Destructor("Destroy", <<>>), Request("DestroyRegistry", <<object("wl_registry")>>)>>

xdg_wm_base_requests ==
  <<Destructor("Destroy", <<>>), Request("CreatePositioner", <<new("xdg_positioner")>>),
    Request("GetXdgSurface", <<new("xdg_surface"), object("wl_surface")>>),
    Request("Pong", <<uint>>)>>
xdg_wm_base_events == <<Event("Ping", <<uint>>)>>

xdg_positioner_requests ==
  <<Destructor("Destroy", <<>>), Request("SetSize", <<int, int>>),
    Request("SetAnchorRect", <<int, int, int, int>>), Request("SetAnchor", <<uint>>),
    Request("SetGravity", <<uint>>)>>
xdg_positioner_requests_5 ==
  <<Request("SetConstraintAdjustment", <<uint>>), Request("SetOffset", <<int, int>>),
    Request("SetReactive", <<>>), Request("SetParentSize", <<int, int>>),
    Request("SetParentConfigure", <<uint>>)>>

xdg_surface_requests ==
  <<Destructor("Destroy", <<>>), Request("GetToplevel", <<new("xdg_toplevel")>>),
    Request("GetPopup", <<new("xdg_popup"), maybe("xdg_surface"), object("xdg_positioner")>>)>>
xdg_surface_requests_3 ==
  <<Request("SetWindowGeometry", <<int, int, int, int>>), Request("AckConfigure", <<uint>>)>>
xdg_surface_events == <<Event("Configure", <<uint>>)>>

xdg_toplevel_requests ==
  <<Destructor("Destroy", <<>>), Request("SetParent", <<maybe("xdg_toplevel")>>),
    Request("SetTitle", <<string>>), Request("SetAppId", <<string>>)>>
xdg_toplevel_requests_4 ==
  <<Request("ShowWindowMenu", <<object("wl_seat"), uint, int, int>>),
    Request("Move", <<object("wl_seat"), uint>>),
    Request("Resize", <<object("wl_seat"), uint, uint>>)>>
xdg_toplevel_requests_7 ==
  <<Request("SetMaxSize", <<int, int>>), Request("SetMinSize", <<int, int>>),
    Request("SetMaximized", <<>>)>>
xdg_toplevel_requests_10 ==
  <<Request("UnsetMaximized", <<>>), Request("SetFullscreen", <<maybe("wl_output")>>),
    Request("UnsetFullscreen", <<>>), Request("SetMinimized", <<>>)>>
xdg_toplevel_events ==
  <<Event("Configure", <<int, int, array>>), Event("Close", <<>>),
    Event("ConfigureBounds", <<int, int>>), Event("WmCapabilities", <<array>>)>>

xdg_popup_requests ==
  <<Destructor("Destroy", <<>>), Request("Grab", <<object("wl_seat"), uint>>),
    Request("Reposition", <<object("xdg_positioner"), uint>>)>>
xdg_popup_events ==
  <<Event("Configure", <<int, int, int, int>>), Event("PopupDone", <<>>),
    Event("Repositioned", <<uint>>)>>

ext_data_control_manager_v1_requests ==
  <<Request("CreateDataSource", <<new("ext_data_control_source_v1")>>),
    Request("GetDataDevice", <<new("ext_data_control_device_v1"), object("wl_seat")>>),
    Destructor("Destroy", <<>>)>>

ext_data_control_device_v1_requests ==
  <<Request("SetSelection", <<maybe("ext_data_control_source_v1")>>),
    Destructor("Destroy", <<>>),
    Request("SetPrimarySelection", <<maybe("ext_data_control_source_v1")>>)>>
ext_data_control_device_v1_events ==
  <<Event("DataOffer", <<new("ext_data_control_offer_v1")>>),
    Event("Selection", <<maybe("ext_data_control_offer_v1")>>), Event("Finished", <<>>),
    Event("PrimarySelection", <<maybe("ext_data_control_offer_v1")>>)>>

ext_data_control_source_v1_requests ==
  <<Request("Offer", <<string>>), Destructor("Destroy", <<>>)>>
ext_data_control_source_v1_events == <<Event("Send", <<string, fd>>), Event("Cancelled", <<>>)>>

ext_data_control_offer_v1_requests ==
  <<Request("Receive", <<string, fd>>), Destructor("Destroy", <<>>)>>
ext_data_control_offer_v1_events == <<Event("Offer", <<string>>)>>

Generated ==
  [wl_display |-> [requests |-> wl_display_requests, events |-> wl_display_events],
   wl_registry |-> [requests |-> wl_registry_requests, events |-> wl_registry_events],
   wl_callback |-> [requests |-> <<>>, events |-> wl_callback_events],
   wl_compositor |-> [requests |-> wl_compositor_requests, events |-> <<>>],
   wl_shm_pool |-> [requests |-> wl_shm_pool_requests, events |-> <<>>],
   wl_shm |-> [requests |-> wl_shm_requests, events |-> wl_shm_events],
   wl_buffer |-> [requests |-> wl_buffer_requests, events |-> wl_buffer_events],
   wl_data_offer |-> [requests |-> wl_data_offer_requests \o wl_data_offer_requests_4,
                     events |-> wl_data_offer_events],
   wl_data_source |-> [requests |-> wl_data_source_requests, events |-> wl_data_source_events],
   wl_data_device |-> [requests |-> wl_data_device_requests, events |-> wl_data_device_events],
   wl_data_device_manager |-> [requests |-> wl_data_device_manager_requests, events |-> <<>>],
   wl_shell |-> [requests |-> wl_shell_requests, events |-> <<>>],
   wl_shell_surface |-> [requests |-> wl_shell_surface_requests \o wl_shell_surface_requests_5 \o
                                     wl_shell_surface_requests_7,
                        events |-> wl_shell_surface_events],
   wl_surface |-> [requests |-> wl_surface_requests \o wl_surface_requests_2 \o
                               wl_surface_requests_4 \o wl_surface_requests_7 \o
                               wl_surface_requests_9,
                  events |-> wl_surface_events],
   wl_seat |-> [requests |-> wl_seat_requests, events |-> wl_seat_events],
   wl_pointer |-> [requests |-> wl_pointer_requests,
                  events |-> wl_pointer_events \o wl_pointer_events_10],
   wl_keyboard |-> [requests |-> wl_keyboard_requests, events |-> wl_keyboard_events],
   wl_touch |-> [requests |-> wl_touch_requests, events |-> wl_touch_events],
   wl_output |-> [requests |-> wl_output_requests, events |-> wl_output_events],
   wl_region |-> [requests |-> wl_region_requests, events |-> <<>>],
   wl_subcompositor |-> [requests |-> wl_subcompositor_requests, events |-> <<>>],
   wl_subsurface |-> [requests |-> wl_subsurface_requests \o wl_subsurface_requests_5,
                     events |-> <<>>],
   wl_fixes |-> [requests |-> wl_fixes_requests, events |-> <<>>],
   xdg_wm_base |-> [requests |-> xdg_wm_base_requests, events |-> xdg_wm_base_events],
   xdg_positioner |-> [requests |-> xdg_positioner_requests \o xdg_positioner_requests_5,
                      events |-> <<>>],
   xdg_surface |-> [requests |-> xdg_surface_requests \o xdg_surface_requests_3,
                   events |-> xdg_surface_events],
   xdg_toplevel |-> [requests |-> xdg_toplevel_requests \o xdg_toplevel_requests_4 \o
                                 xdg_toplevel_requests_7 \o xdg_toplevel_requests_10,
                    events |-> xdg_toplevel_events],
   xdg_popup |-> [requests |-> xdg_popup_requests, events |-> xdg_popup_events],
   ext_data_control_manager_v1 |-> [requests |-> ext_data_control_manager_v1_requests,
                                   events |-> <<>>],
   ext_data_control_device_v1 |-> [requests |-> ext_data_control_device_v1_requests,
                                  events |-> ext_data_control_device_v1_events],
   ext_data_control_source_v1 |-> [requests |-> ext_data_control_source_v1_requests,
                                  events |-> ext_data_control_source_v1_events],
   ext_data_control_offer_v1 |-> [requests |-> ext_data_control_offer_v1_requests,
                                 events |-> ext_data_control_offer_v1_events]]
=============================================================================
