---------------------------- MODULE MCSparseBindings ---------------------------
(* Resources of a few pages of two bytes, two by two texels in images: a      *)
(* buffer and an image whose edges cut pages, with a tail for each slice, on  *)
(* Vulkan; a buffer, an image with a tail and an array without on D3D12.      *)
EXTENDS SparseBindings

MCVulkanLayouts == {BufferLayout(5),
                    ImageLayout(<<3, 4>>, 2, 2, <<2, 2>>, 1, 20, 6, 8)}
MCD3D12Layouts  == {BufferLayout(6),
                    ImageLayout(<<4, 4>>, 2, 1, <<2, 2>>, 1, 8, 12, 4),
                    ImageLayout(<<4, 2>>, 2, 2, <<2, 2>>, 2, 0, 0, 0)}
===============================================================================
