--------------------------- MODULE MCConfigManager ---------------------------
(* Small instances of ConfigManager: a device, two elements of the input manager that   *)
(* point to it, a proxy and a gesture, and an element of the application, the scene,     *)
(* that points to the proxy.                                                             *)
EXTENDS ConfigManager

CONSTANTS device, proxy, gesture, scene, input, app

MCDependsOn == [e \in Elements |-> CASE e \in {proxy, gesture} -> {device}
                                     [] e = scene -> {proxy} [] OTHER -> {}]

\* The input manager is registered when the kernel starts; the application comes and goes.
MCCanHandle == [h \in Handlers |-> IF h = app THEN {scene} ELSE Elements \ {scene}]
MCFirstHandlers == <<input>>

\* The proxy and the gesture lose the device in one pass, and one handler takes both.
ASSUME ProxyAndGestureTogether ==
    DependsOn = MCDependsOn =>
       LostTogether({p \in Elements \X Elements :
                        p[1] = p[2] \/ {p[1], p[2]} = {proxy, gesture}})

\* The proxy and the scene point to the device; the gesture, as the proxy an element of
\* the input manager, to both device and proxy.
MCSharedDependsOn == [e \in Elements |-> CASE e \in {proxy, scene} -> {device}
                                           [] e = gesture -> {device, proxy}
                                           [] OTHER -> {}]

\* Two elements are enough for the long runs: the scene points to the device.
MCShortDependsOn == [e \in Elements |-> IF e = scene THEN {device} ELSE {}]
=============================================================================
