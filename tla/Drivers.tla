------------------------------- MODULE Drivers -------------------------------
(***************************************************************************)
(* The init and exit functions of the repository's drivers, as tables for  *)
(* module Lifecycle.  What the kernel's own functions do (which of them    *)
(* fail and how, wait for running calls, or keep the module loaded) is     *)
(* taken from how the drivers use them.                                    *)
(***************************************************************************)
EXTENDS Sequences

Does(gets, gives, uses) ==
  [gets |-> gets, gives |-> gives, uses |-> uses, tested |-> FALSE, fails |-> FALSE,
   missed |-> FALSE, undo |-> <<>>]
\* An assignment, or a call that cannot fail.
Sure(r, uses) == Does({r}, {}, uses)
\* The end of what init has for a while.
Give(r, uses) == Does({}, {r}, uses)
\* A step in the branch where init has what it uses.
Tested(gets, gives, uses) == [Does(gets, gives, uses) EXCEPT !.tested = TRUE]
\* A result that init ignores, or takes for a success.
Unchecked(r, uses) == [Does({r}, {}, uses) EXCEPT !.missed = TRUE]
\* A result that init tests: on failure it releases undo and fails.
Checked(r, uses, undo) == [Does({r}, {}, uses) EXCEPT !.fails = TRUE, !.undo = undo]
\* A test that not every failure satisfies: "== NULL" of a function that
\* returns an error pointer, "== -1" of one that returns -ENOMEM.
HalfChecked(r, uses, undo) == [Checked(r, uses, undo) EXCEPT !.missed = TRUE]

\* Entry points: what the callbacks touch besides the module's code and data;
\* drained when unregistering waits for calls, pinned when fops.owner (or
\* the protocol's module) is taken on open, bare when neither.
Drained(needs) == [needs |-> needs \cup {"text"}, pins |-> FALSE, drains |-> TRUE]
Pinned(needs) == [needs |-> needs \cup {"text"}, pins |-> TRUE, drains |-> FALSE]
Bare(needs) == [needs |-> needs, pins |-> FALSE, drains |-> FALSE]

-----------------------------------------------------------------------------
(* hardware_map.c *)
vram_init ==
  << Checked("vram", {}, <<>>),
     Checked("region", {}, <<>>),
     HalfChecked("class", {}, <<"region">>),
     HalfChecked("device", {"class"}, <<"class", "region">>),
     HalfChecked("cdev", {"region"}, <<"device", "class", "region">>) >>
vram_exit == <<"cdev", "device", "class", "region", "vram">>
vram_fops == Pinned({"vram"})

(* seq_file_procfs.c *)
seqproc_init == << Checked("seq_dir", {}, <<>>),
                   Checked("seq_proc", {"seq_dir"}, <<"seq_dir">>) >>
seqproc_exit == <<"seq_proc", "seq_dir">>
seqproc_fops == Drained({})

(* procfs.c *)
procexample_init == << Checked("proc_dir", {}, <<>>),
                       Checked("first", {"proc_dir"}, <<"proc_dir">>) >>
procexample_exit == <<"first", "proc_dir">>
procexample_fops == Drained({})

(* file_proc.c *)
init_simacc == << Checked("simacc", {}, <<>>) >>
cleanup_simacc == <<"simacc">>

(* debugfs_basic.c: "sum" is a file of debugfs itself on the variable sum. *)
my_debugfs_init == << Checked("basics", {}, <<>>),
                      Checked("add", {"basics"}, <<>>),
                      Checked("sum", {"basics"}, <<>>) >>
module_cleanup == <<"sum", "add", "basics">>
add_fops == Pinned({})
sum_fops == Bare({"text"})

(* debugfs_jiffies.c: "time" is a file of debugfs on the kernel's jiffies. *)
jiffies_init == << Checked("my_time", {}, <<>>), Checked("time", {"my_time"}, <<>>) >>
jiffies_exit == <<"time", "my_time">>
time_fops == Bare({})

(* sysfs_example.c: foo_show and foo_store use my_page_buffer. *)
my_sysfs_init == << Checked("page", {}, <<>>),
                    Checked("my_sysfs", {}, <<>>),
                    Checked("my_attrs", {"my_sysfs"}, <<"my_sysfs">>) >>
\* kobject_put removes the directory and the files in it.
my_sysfs_exit == <<"page", "my_attrs", "my_sysfs">>
my_attr_group == Drained({"page"})

(* kobjects.c *)
example_init == << Checked("example_kobj", {}, <<>>),
                   Checked("attrs", {"example_kobj"}, <<"example_kobj">>) >>
example_exit == <<"attrs", "example_kobj">>
attr_group == Drained({})

(* chardev_fops.c: memory_fops has no owner. *)
memory_init == << Checked("chrdev", {}, <<>>),
                  Checked("buffer", {}, <<"chrdev">>) >>
memory_exit == <<"chrdev", "buffer">>
memory_fops == Bare({"text", "buffer"})

(* network_procfs.c *)
init_packet == << Unchecked("cache", {}), Unchecked("root", {"cache"}),
                  Unchecked("net_hook", {"root"}), Checked("net_proc", {}, <<>>) >>
cleanup_packet == <<"net_proc", "root", "cache", "net_hook">>
net_fops == Drained({"root"})
net_hook_ops == Drained({"root", "cache"})

(* netlink_module.c: nl_sk is assigned after the socket exists. *)
hello_init == << Checked("nl_socket", {}, <<>>), Sure("nl_sk", {}) >>
hello_exit == <<"nl_socket", "nl_sk">>
netlink_cfg == Pinned({"nl_sk"})

(* misc_char_dev.c *)
task1_init == << Checked("misc", {}, <<>>) >>
task1_exit == <<"misc">>
misc_fops == Pinned({})

(* keyboard_interrupt_misc_device.c: keylog_fops has no owner.  The wait   *)
(* in exit is modelled in KeyLog.                                          *)
keylog_driver_init == << Checked("keylog", {}, <<>>) >>
keylog_driver_exit == <<"keylog">>
keylog_fops == Bare({"text"})

(* keyboard_interrupt.c *)
keybrd_int_register == << Checked("irq", {}, <<>>) >>
keybrd_int_unregister == <<"irq">>
irq_handler == Drained({})

(* usb_basic.c *)
pen_init == << Checked("usb", {}, <<>>) >>
pen_exit == <<"usb">>
pen_driver == Drained({})

(* packet_filter.c, packet_block_protocol.c and packet_hello.c *)
filter_init == << Unchecked("out_hook", {}) >>
filter_cleanup == <<"out_hook">>
block_init == << Unchecked("in_hook", {}) >>
block_cleanup == <<"in_hook">>
packet_hello_init == << Unchecked("pre_hook", {}) >>
packet_hello_cleanup == <<"pre_hook">>
hook_ops == Drained({})

-----------------------------------------------------------------------------
(* Modules that register nothing: what they do is done when init returns.  *)

(* vfs_basic.c: file_open returns NULL for an error.                       *)
file_open == << Sure("KERNEL_DS", {}), Unchecked("open_file", {"KERNEL_DS"}),
                Give("KERNEL_DS", {}) >>
file_read == << Tested({"KERNEL_DS"}, {}, {"open_file"}),
                Tested({}, {"KERNEL_DS"}, {"open_file"}) >>
file_init == file_open \o file_read
file_exit == <<"open_file">>

(* read_write_vfs.c: an error pointer passes the test for NULL.            *)
vfs_init_module == << Unchecked("f", {}), Sure("KERNEL_DS", {}),
                      Give("KERNEL_DS", {"f"}), Give("f", {"f"}) >>

(* high_low_memory.c: kunmap and __free_page come after the test.          *)
a_page == << Unchecked("highmem_page", {}), Tested({"kmap"}, {}, {"highmem_page"}),
             Give("kmap", {"highmem_page"}), Give("highmem_page", {"highmem_page"}) >>
highmem_init == a_page \o a_page

(* kernel_linked_list.c: exit unlinks the head and keeps the nodes.        *)
a_node(n) == << Unchecked(n, {}), Does({}, {}, {n}) >>
list_init == a_node("n5") \o a_node("n4") \o a_node("n3") \o a_node("n2") \o a_node("n1")

(* preempt_schedule.c: each pair around a call of schedule.                *)
my_func == << Sure("preempt_off", {}), Give("preempt_off", {}),
              Sure("my_lock", {}), Give("my_lock", {}) >>

(* cgroups_iterate.c: css_set is the set my_css_set points to, once the    *)
(* lock that keeps it is given back; it stays if the task is not moved.    *)
(* It is borrowed: every return forgets it.                                *)
my_cgroup_init == << Sure("rcu", {}), Give("rcu", {}), Unchecked("css_set", {}),
                     Checked("my_cgroup", {"css_set"}, <<"css_set">>),
                     Does({}, {"css_set", "my_cgroup"}, {"css_set", "my_cgroup"}) >>

-----------------------------------------------------------------------------
Tables ==
  [hardware_map        |-> [setup |-> vram_init,           teardown |-> vram_exit],
   seq_file_procfs     |-> [setup |-> seqproc_init,        teardown |-> seqproc_exit],
   procfs              |-> [setup |-> procexample_init,    teardown |-> procexample_exit],
   file_proc           |-> [setup |-> init_simacc,         teardown |-> cleanup_simacc],
   debugfs_basic       |-> [setup |-> my_debugfs_init,     teardown |-> module_cleanup],
   debugfs_jiffies     |-> [setup |-> jiffies_init,        teardown |-> jiffies_exit],
   sysfs_example       |-> [setup |-> my_sysfs_init,       teardown |-> my_sysfs_exit],
   kobjects            |-> [setup |-> example_init,        teardown |-> example_exit],
   chardev_fops        |-> [setup |-> memory_init,         teardown |-> memory_exit],
   network_procfs      |-> [setup |-> init_packet,         teardown |-> cleanup_packet],
   netlink_module      |-> [setup |-> hello_init,          teardown |-> hello_exit],
   misc_char_dev       |-> [setup |-> task1_init,          teardown |-> task1_exit],
   keylog              |-> [setup |-> keylog_driver_init,  teardown |-> keylog_driver_exit],
   keyboard_interrupt  |-> [setup |-> keybrd_int_register, teardown |-> keybrd_int_unregister],
   usb_basic           |-> [setup |-> pen_init,            teardown |-> pen_exit],
   packet_filter       |-> [setup |-> filter_init,         teardown |-> filter_cleanup],
   packet_block_protocol |-> [setup |-> block_init,        teardown |-> block_cleanup],
   packet_hello        |-> [setup |-> packet_hello_init,   teardown |-> packet_hello_cleanup],
   vfs_basic           |-> [setup |-> file_init,           teardown |-> file_exit],
   read_write_vfs      |-> [setup |-> vfs_init_module,     teardown |-> <<>>],
   high_low_memory     |-> [setup |-> highmem_init,        teardown |-> <<>>],
   kernel_linked_list  |-> [setup |-> list_init,           teardown |-> <<>>],
   preempt_schedule    |-> [setup |-> my_func,             teardown |-> <<>>],
   cgroups_iterate     |-> [setup |-> my_cgroup_init,      teardown |-> <<>>]]

AllDrivers == DOMAIN Tables
DriverSetup == [d \in AllDrivers |-> Tables[d].setup]
DriverTeardown == [d \in AllDrivers |-> Tables[d].teardown]
EntryPoints ==
  [cdev |-> vram_fops, seq_proc |-> seqproc_fops, first |-> procexample_fops,
   simacc |-> Drained({}), add |-> add_fops, sum |-> sum_fops, time |-> time_fops,
   my_attrs |-> my_attr_group, attrs |-> attr_group, chrdev |-> memory_fops,
   net_proc |-> net_fops, net_hook |-> net_hook_ops, nl_socket |-> netlink_cfg,
   misc |-> misc_fops, keylog |-> keylog_fops, irq |-> irq_handler,
   usb |-> pen_driver, out_hook |-> hook_ops, in_hook |-> hook_ops,
   pre_hook |-> hook_ops]
\* nf_unregister_hook unlinks a list entry that only nf_register_hook links,
\* and filp_close dereferences the file.
NotOptional == {"net_hook", "out_hook", "in_hook", "pre_hook", "open_file"}

AllResources ==
  {"text"} \cup UNION {
    UNION {Tables[d].setup[i].gets : i \in DOMAIN Tables[d].setup} : d \in AllDrivers}
==============================================================================
