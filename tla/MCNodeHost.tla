----------------------------- MODULE MCNodeHost -----------------------------
(***************************************************************************)
(* NodeHost on a small instance: two processes, up to three VMs, a pool of *)
(* two, and CNI plugins in two directories.                                *)
(***************************************************************************)
EXTENDS NodeHost, TLC

CONSTANTS p1, p2

MCCniDirs == <<"/opt/cni/bin", "/usr/lib/cni">>
MCBinDirs == <<"/usr/bin", "/usr/local/bin">>

Local == <<"/usr/local/bin", "firecracker">>
Others4 == {Local, <<"/etc/cni/conf.d", "fcnet.conflist">>, <<"", "vmlinux">>, <<"", "rootfs.ext4">>}
Cni(d, names) == {<<d, f>> : f \in names}
Full == Others4 \cup Cni("/opt/cni/bin", {"host-local", "ptp", "tc-redirect-tap"})
\* The plugins are spread over two directories; or one of them is there twice
\* and another is missing.
Spread == Others4 \cup Cni("/opt/cni/bin", {"host-local"})
                  \cup Cni("/usr/lib/cni", {"ptp", "tc-redirect-tap"})
Doubled == Others4 \cup Cni("/opt/cni/bin", {"host-local", "ptp"})
                   \cup Cni("/usr/lib/cni", {"ptp"})
NoTap == Others4 \cup Cni("/usr/lib/cni", {"host-local", "ptp"})
Few == {Local, <<"", "rootfs.ext4">>} \cup Cni("/usr/lib/cni", {"host-local", "ptp", "tc-redirect-tap"})

W(a, b, force, init, has, conf, pidFile, faults, n) ==
    [cmd |-> (p1 :> a @@ p2 :> b), force |-> force, init |-> init, files |-> has,
     config |-> conf, pid |-> pidFile, faults |-> faults, vms |-> n]

\* One node that makes n VMs.
Node(faults, n) == W("up", "none", {}, {}, Full, "valid", "none", faults, n)

\* Two nodes at a time.
Nodes(pidFile, faults) == W("up", "up", {}, {}, Full, "valid", pidFile, faults, 0)

MCWorlds == {
    Nodes("none", {"signal"}),
    Nodes("written", {"pidWrite", "api"}),
    Nodes("empty", {}),
    \* Parts that fail to start.
    Nodes("none", {"telemetry", "natspub"}),
    Nodes("none", {"nc", "hostservices", "ownHostServices"}),
    Node({"nc", "natsint", "manager", "signal"}, 1),
    \* Requirements are missing.
    W("up", "preflight", {p1}, {p2}, Few, "none", "none", {"cancel", "download", "configWrite"}, 0),
    W("up", "preflight", {p1}, {p2}, Few, "valid", "none", {"download"}, 0),
    W("up", "preflight", {}, {}, NoTap, "valid", "none", {}, 0),
    W("up", "up", {p1, p2}, {}, NoTap, "valid", "none", {"signal"}, 0),
    W("up", "preflight", {p2}, {}, Spread, "valid", "none", {}, 0),
    W("up", "preflight", {}, {p2}, Doubled, "invalid", "none", {}, 0),
    W("up", "preflight", {}, {}, Doubled, "valid", "none", {}, 0),
    \* VMs.
    Node({"deploy", "stop", "signal"}, 3),
    Node({"deploy", "stop", "signal", "createFails"}, 2),
    Node({"deploy", "signal", "stopFails"}, 2),
    Node({"deploy", "noHandshake"}, 2),
    W("up", "up", {}, {}, Full, "valid", "none", {"noHandshake"}, 1)}
=============================================================================
