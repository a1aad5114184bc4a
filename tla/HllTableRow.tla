---------------------------- MODULE HllTableRow ----------------------------
(***************************************************************************)
(* The row of the interpolation table for lg_k = 4, in hundredths.         *)
(***************************************************************************)
EXTENDS Integers

RowNodes == <<
  1077, 1124, 1172, 1222, 1274, 1327, 1382, 1438, 1496, 1556, 1617, 1679, 1744,
  1809, 1877, 1945, 2016, 2087, 2161, 2235, 2311, 2388, 2467, 2547, 2628, 2710,
  2793, 2878, 2963, 3050, 3137, 3225, 3315, 3405, 3495, 3587, 3679, 3771, 3865,
  3959, 4053, 4148, 4243, 4339, 4435, 4531, 4628, 4725, 4823, 4920, 5018, 5116,
  5214, 5313, 5411, 5510, 5609, 5708, 5807, 5906, 6005, 6105, 6204, 6303, 6403,
  6503, 6602, 6702, 6802, 6901, 7001, 7101, 7201, 7300, 7400, 7500, 7600, 7700,
  7800, 7900, 7999, 8099, 8199, 8299, 8399, 8499, 8599, 8699, 8799, 8899, 8999,
  9099, 9199, 9299, 9398, 9498, 9598, 9698, 9798, 9898, 9998, 10098, 10198, 10298,
  10398, 10498, 10598, 10698, 10798, 10898, 10998, 11098, 11198, 11298, 11398, 11498, 11598,
  11698, 11798, 11898, 11998, 12098, 12198, 12298, 12398, 12498, 12598, 12698, 12798, 12898,
  12998, 13098, 13198, 13298, 13398, 13498, 13598, 13698, 13798, 13898, 13998, 14098, 14198,
  14298, 14398, 14498, 14598, 14698, 14798, 14898, 14998, 15098, 15198, 15298, 15398, 15498,
  15598, 15698, 15798, 15898, 15998, 16098, 16198, 16298, 16398, 16498, 16598, 16698, 16798,
  16898, 16998, 17098, 17197, 17297, 17397, 17497, 17597, 17697, 17797, 17897, 17997, 18097,
  18197, 18297, 18397, 18497, 18597, 18697, 18797, 18897, 18997, 19097, 19197, 19297, 19397,
  19497, 19597, 19697, 19797, 19897, 19997, 20097, 20197, 20297, 20397, 20497, 20597, 20697,
  20797, 20897, 20997, 21097, 21197, 21297, 21397, 21497, 21597, 21697, 21797, 21897, 21997,
  22097, 22197, 22297, 22397, 22497, 22596, 22696, 22796, 22896, 22996, 23096, 23196, 23296,
  23396, 23496, 23596, 23696, 23796, 23896, 23996, 24096, 24196, 24296, 24396, 24496, 24596,
  24696, 24796, 24896, 24996, 25096, 25196, 25296, 25396, 25496, 25596 >>

Hundred   == 100
RowLast   == 256
RowStride == 1
RowXValues == [i \in 0 .. RowLast |-> RowNodes[i + 1]]
=============================================================================
